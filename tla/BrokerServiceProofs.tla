------------------------- MODULE BrokerServiceProofs -------------------------
(***************************************************************************)
(* Proofs about handle_request, for any finite number of threads, any      *)
(* workload, topology and limits.                                          *)
(***************************************************************************)
EXTENDS BrokerService, FiniteSetTheorems, TLAPS

Labels ==
    {"new", "dispatch", "client", "assign", "place", "peer", "scan", "admit", "gpu", "cpu", "npu",
     "reply", "done"}

Statuses == {"none", "ok", "rejected", "error", "timeout"}

Results == {"none", "echo", "wasm", "cpu", "gpu", "npu"}

Response ==
    [status : Statuses, backend : BackendKind, selected_gpu : Int, fell_back_to_cpu : BOOLEAN,
     result : Results]

Local ==
    [client : Nat, home : Gpus \cup {-1}, home_depth : Nat, i : Gpus, best : Gpus \cup {-1},
     best_depth : Nat]

(* The types, and the GPUs the steps of place and run_on_gpu hand on. *)
TypeOK ==
    /\ gpu_inflight \in [Gpus -> Nat]
    /\ rr_counter \in Nat /\ next_client_id \in Nat
    /\ \A s \in DOMAIN source_to_client : source_to_client[s] \in Nat
    /\ \A c \in DOMAIN affinity : affinity[c] \in Gpus
    /\ pc \in [Threads -> Labels]
    /\ local \in [Threads -> Local]
    /\ response \in [Threads -> Response]
    /\ ran \in [Threads -> SUBSET BackendKind]
    /\ \A t \in Threads :
         /\ req[t].assigned_gpu \in Int
         /\ pc[t] \in {"assign", "peer", "scan"} => local[t].home \in Gpus
         /\ pc[t] = "peer" => Peer[local[t].home] \in Gpus
         /\ pc[t] \in {"peer", "scan"} => local[t].best \in Gpus
         /\ pc[t] \in {"admit", "gpu"} => response[t].selected_gpu \in Gpus

(* There is a GPU 0, and GPUs are numbered from it.                        *)
LEMMA GpuZero == 0 \in Gpus /\ Gpus \subseteq Nat
  BY ServiceAssumption DEF Gpus

(* rr_counter_ modulo the number of GPUs names a GPU.                      *)
LEMMA RoundRobin == ASSUME NEW n \in Nat PROVE n % NumGpus \in Gpus
  BY ServiceAssumption DEF Gpus

(* The types hold of a new service.                                        *)
LEMMA InitTypeOK == Init => TypeOK
  BY ServiceAssumption, GpuZero
  DEF Init, TypeOK, Labels, Local, NoLocal, Response, NoResponse, BackendKind, Statuses, Results

(* A response not yet filled in is a response.                             *)
LEMMA NoResponseTyped == NoResponse \in Response
  BY DEF NoResponse, Response, Statuses, Results, BackendKind

(* The statuses, results and backends the code names are of their types.   *)
LEMMA Literals ==
  /\ {"ok", "rejected", "error", "timeout"} \subseteq Statuses
  /\ {"none", "echo", "wasm", "cpu", "gpu", "npu"} \subseteq Results
  /\ {"cpu", "gpu", "npu"} \subseteq BackendKind
  BY Zenon DEF Statuses, Results, BackendKind

(* Whatever the WASM manager answered is a response. *)
LEMMA WasmReply ==
  ASSUME NEW g \in Int, NEW S \in SUBSET {"ok", "rejected", "error"}, NEW r \in WasmReplies(g, S)
  PROVE  r \in Response
  <1>1. [NoResponse EXCEPT !.status = "error"] \in Response
    BY NoResponseTyped, Literals, Zenon DEF Response
  <1>2. ASSUME NEW s \in S,
               r = [NoResponse EXCEPT !.status = s, !.selected_gpu = g, !.result = "wasm"]
        PROVE  r \in Response
    BY <1>2, NoResponseTyped, Literals, Zenon DEF Response
  <1>3. QED
    BY <1>1, <1>2, Zenon DEF WasmReplies

(* The labels at which a thread holds nothing in local or on a GPU. *)
Plain == {"new", "dispatch", "client", "place", "cpu", "npu", "reply", "done"}

(* A step in which thread t writes its own label and response only. *)
LEMMA OwnStep ==
  ASSUME TypeOK, NEW t \in Threads, NEW l \in Plain, NEW r \in Response,
         pc' = [pc EXCEPT ![t] = l], response' = [response EXCEPT ![t] = r],
         UNCHANGED <<shared, req, local>>, ran' \in [Threads -> SUBSET BackendKind]
  PROVE  TypeOK'
  BY Zenon DEF TypeOK, Plain, Labels, shared

(* place hands a GPU to run_on_gpu, or to the WASM manager. *)
LEMMA PlacedTypeOK ==
  ASSUME TypeOK, NEW t \in Threads, NEW g \in Gpus, Placed(t, g)
  PROVE  /\ pc' \in [Threads -> Labels]
         /\ local' \in [Threads -> Local]
         /\ response' \in [Threads -> Response]
         /\ pc'[t] \in {"reply", "admit"}
         /\ pc'[t] = "admit" => response'[t].selected_gpu \in Gpus
         /\ \A u \in Threads \ {t} :
              pc'[u] = pc[u] /\ local'[u] = local[u] /\ response'[u] = response[u]
  <1>1. g \in Int
    BY GpuZero
  <1>2. local' \in [Threads -> Local] /\ \A u \in Threads \ {t} : local'[u] = local[u]
    BY GpuZero, Zenon DEF Placed, TypeOK, Local, NoLocal
  <1>3. CASE req[t].kind = "prepare"
    <2>1. PICK r \in WasmReplies(g, {"ok"}) : response' = [response EXCEPT ![t] = r]
      BY <1>3, Zenon DEF Placed
    <2>2. r \in Response
      BY <1>1, <2>1, WasmReply, Zenon
    <2>3. pc' = [pc EXCEPT ![t] = "reply"]
      BY <1>3, Zenon DEF Placed, Goto
    <2>4. QED
      BY <1>2, <2>1, <2>2, <2>3, Zenon DEF TypeOK, Labels
  <1>4. CASE req[t].kind # "prepare"
    <2>1. response' = [response EXCEPT ![t] = [response[t] EXCEPT !.backend = "gpu", !.selected_gpu = g]]
      BY <1>4, Zenon DEF Placed, TypeOK, Response
    <2>2. [response[t] EXCEPT !.backend = "gpu", !.selected_gpu = g] \in Response
      BY <1>1, Literals, Zenon DEF TypeOK, Response
    <2>3. pc' = [pc EXCEPT ![t] = "admit"]
      BY <1>4, Zenon DEF Placed, Goto
    <2>4. QED
      BY <1>2, <2>1, <2>2, <2>3, Zenon DEF TypeOK, Labels, Response
  <1>5. QED
    BY <1>3, <1>4, Zenon

(* A failed accelerator hands the request to the CPU or to the reply. *)
LEMMA FallBackOrFailEffect ==
  ASSUME TypeOK, NEW t \in Threads, NEW failed \in Response, FallBackOrFail(t, failed)
  PROVE  \E r \in Response, l \in {"cpu", "reply"} :
           pc' = [pc EXCEPT ![t] = l] /\ response' = [response EXCEPT ![t] = r]
  <1>1. [NoResponse EXCEPT !.fell_back_to_cpu = TRUE] \in Response
    BY NoResponseTyped, Literals, Zenon DEF Response
  <1>2. CASE fallback_safe(req[t])
    <2>1. /\ after_failure(t, failed)[1] = "cpu"
          /\ after_failure(t, failed)[2] = [NoResponse EXCEPT !.fell_back_to_cpu = TRUE]
      BY <1>2, Zenon DEF after_failure
    <2>2. QED
      BY <1>1, <2>1, Zenon DEF FallBackOrFail, Goto
  <1>3. CASE ~fallback_safe(req[t])
    <2>1. after_failure(t, failed)[1] = "reply" /\ after_failure(t, failed)[2] = failed
      BY <1>3, Zenon DEF after_failure
    <2>2. QED
      BY <2>1, Zenon DEF FallBackOrFail, Goto
  <1>4. QED
    BY <1>2, <1>3, Zenon

(* select_backend chooses a backend. *)
LEMMA BackendChosen == ASSUME NEW policy, NEW p PROVE select_backend(policy, p) \in BackendKind
  BY Zenon DEF select_backend, BackendKind

(* Every step of handle_request keeps the types, and hands on GPUs that    *)
(* exist.                                                                  *)
LEMMA StepTypeOK == TypeOK /\ [Next]_vars => TypeOK'
  <1> SUFFICES ASSUME TypeOK, [Next]_vars PROVE TypeOK'
    OBVIOUS
  <1>1. CASE UNCHANGED vars
    BY <1>1, Zenon DEF TypeOK, vars, shared
  <1>2. ASSUME NEW t \in Threads, handle_request(t) PROVE TypeOK'
    <2>0. /\ response[t] \in Response /\ local[t] \in Local
          /\ response = [response EXCEPT ![t] = response[t]]
      BY Zenon DEF TypeOK
    <2>1. CASE Validate(t)
      <3>1. \A s \in {"rejected", "timeout"} : [response[t] EXCEPT !.status = s] \in Response
        BY <2>0, Literals, Zenon DEF Response
      <3>2. PICK l \in Plain, r \in Response :
               pc' = [pc EXCEPT ![t] = l] /\ response' = [response EXCEPT ![t] = r]
        BY <2>0, <2>1, <3>1, Zenon DEF Validate, Goto, Plain
      <3>3. QED
        BY <2>1, <3>2, OwnStep, Zenon DEF Validate, TypeOK
    <2>2. CASE HandleFrame(t)
      <3>0. /\ [NoResponse EXCEPT !.status = "ok", !.result = "echo"] \in Response
            /\ \A s \in {"rejected", "error"} : [NoResponse EXCEPT !.status = s] \in Response
        BY NoResponseTyped, Literals, Zenon DEF Response
      <3>1. PICK r \in Response : response' = [response EXCEPT ![t] = r]
        BY <2>2, <3>0, Zenon DEF HandleFrame
      <3>2. QED
        BY <2>2, <3>1, OwnStep, Zenon DEF HandleFrame, Goto, Plain, TypeOK
    <2>3. CASE HandleWasm(t)
      <3>1. [response[t] EXCEPT !.status = "rejected"] \in Response
        BY <2>0, Literals, Zenon DEF Response
      <3>2. \A r \in WasmReplies(req[t].assigned_gpu, {"ok", "rejected", "error"}) : r \in Response
        BY WasmReply, Zenon DEF TypeOK
      <3>3. PICK r \in Response : response' = [response EXCEPT ![t] = r]
        BY <2>0, <2>3, <3>1, <3>2, Zenon DEF HandleWasm
      <3>4. QED
        BY <2>3, <3>3, OwnStep, Zenon DEF HandleWasm, Goto, Plain, TypeOK
    <2>4. CASE WasmPrepare(t)
      <3>1. \A r \in WasmReplies(-1, {"ok"}) : r \in Response
        BY WasmReply
      <3>2. PICK l \in Plain, r \in Response :
               pc' = [pc EXCEPT ![t] = l] /\ response' = [response EXCEPT ![t] = r]
        BY <2>0, <2>4, <3>1, Zenon DEF WasmPrepare, Goto, Plain
      <3>3. QED
        BY <2>4, <3>2, OwnStep, Zenon DEF WasmPrepare, TypeOK
    <2>5. ASSUME NEW npu_now \in BOOLEAN, SelectBackend(t, npu_now) PROVE TypeOK'
      <3>1. [response[t] EXCEPT !.status = "error"] \in Response
        BY <2>0, Literals, Zenon DEF Response
      <3>2. PICK l \in Plain, r \in Response :
               pc' = [pc EXCEPT ![t] = l] /\ response' = [response EXCEPT ![t] = r]
        BY <2>0, <2>5, <3>1, BackendChosen DEF SelectBackend, Goto, Plain, BackendKind
      <3>3. QED
        BY <2>5, <3>2, OwnStep, Zenon DEF SelectBackend, TypeOK
    <2>6. CASE RunOnCpu(t)
      <3>1. PICK r \in Response : response' = [response EXCEPT ![t] = r]
        <4> DEFINE r == [response[t] EXCEPT !.status = "ok", !.backend = "cpu", !.selected_gpu = -1,
                                            !.result = "cpu"]
        <4>1. -1 \in Int
          OBVIOUS
        <4>2. r \in Response
          <5>1. \A g \in Int : [response[t] EXCEPT !.status = "ok", !.backend = "cpu",
                                                   !.selected_gpu = g, !.result = "cpu"] \in Response
            BY <2>0, Literals, Zenon DEF Response
          <5>2. QED
            BY <4>1, <5>1, Zenon
        <4>3. response' = [response EXCEPT ![t] = r]
          BY <2>0, <2>6, Zenon DEF RunOnCpu, TypeOK, Response
        <4>4. QED
          BY <4>2, <4>3, Zenon
      <3>2. ran' \in [Threads -> SUBSET BackendKind]
        BY <2>6, Zenon DEF RunOnCpu, TypeOK, BackendKind
      <3>3. QED
        BY <2>6, <3>1, <3>2, OwnStep, Zenon DEF RunOnCpu, Goto, Plain
    <2>7. CASE RunOnNpu(t)
      <3> DEFINE ok == [response[t] EXCEPT !.status = "ok", !.backend = "npu", !.result = "npu"]
                 failed == [NoResponse EXCEPT !.status = "error", !.backend = "npu"]
      <3>1. ok \in Response /\ failed \in Response
        BY <2>0, NoResponseTyped, Literals, Zenon DEF Response
      <3>2. ran' \in [Threads -> SUBSET BackendKind]
        BY <2>7, Zenon DEF RunOnNpu, TypeOK, BackendKind
      <3>3. CASE FallBackOrFail(t, failed)
        <4>1. PICK r \in Response, l \in {"cpu", "reply"} :
                 pc' = [pc EXCEPT ![t] = l] /\ response' = [response EXCEPT ![t] = r]
          BY <3>1, <3>3, FallBackOrFailEffect, Zenon
        <4>2. QED
          BY <2>7, <3>2, <4>1, OwnStep, Zenon DEF RunOnNpu, Plain
      <3>4. CASE ~FallBackOrFail(t, failed)
        <4>1. response' = [response EXCEPT ![t] = ok] /\ pc' = [pc EXCEPT ![t] = "reply"]
          BY <2>0, <2>7, <3>4, ZenonT(60) DEF RunOnNpu, Goto, TypeOK, Response
        <4>2. QED
          BY <2>7, <3>1, <3>2, <4>1, OwnStep, Zenon DEF RunOnNpu, Plain
      <3>5. QED
        BY <3>3, <3>4, Zenon
    <2>8. CASE get_or_assign_client_id(t)
      <3>1. CASE req[t].source \in DOMAIN source_to_client
        BY <2>8, <3>1, SMTT(30) DEF get_or_assign_client_id, Goto, TypeOK, Labels, Local
      <3>2. CASE req[t].source \notin DOMAIN source_to_client
        <4> DEFINE l == [local[t] EXCEPT !.client = next_client_id, !.home = rr_counter % NumGpus]
        <4>1. rr_counter % NumGpus \in Gpus
          BY RoundRobin, Zenon DEF TypeOK
        <4>2. l \in Local
          BY <2>0, <4>1, Zenon DEF Local, TypeOK
        <4>3. local' = [local EXCEPT ![t] = l]
          BY <2>0, <2>8, <3>2, Zenon DEF get_or_assign_client_id, TypeOK, Local
        <4>4. l.home \in Gpus
          BY <2>0, <4>1, Zenon DEF Local
        <4>5. pc' = [pc EXCEPT ![t] = "assign"]
          BY <2>8, <3>2, Zenon DEF get_or_assign_client_id, Goto
        <4>6. /\ next_client_id' = next_client_id + 1 /\ rr_counter' = rr_counter + 1
              /\ \A s \in DOMAIN source_to_client' : source_to_client'[s] \in Nat
          BY <2>8, <3>2 DEF get_or_assign_client_id, TypeOK
        <4>7. QED
          BY <2>8, <4>2, <4>3, <4>4, <4>5, <4>6 DEF get_or_assign_client_id, TypeOK, Labels
      <3>3. QED
        BY <3>1, <3>2, Zenon
    <2>9. CASE assign_home(t)
      <3>1. local[t].home \in Gpus
        BY <2>9, Zenon DEF assign_home, TypeOK
      <3>2. \A c \in DOMAIN affinity' : affinity'[c] \in Gpus
        BY <2>9, <3>1, Zenon DEF assign_home, with_home, TypeOK
      <3>3. QED
        BY <2>9, <3>2, Zenon DEF assign_home, Goto, TypeOK, Labels
    <2>10. CASE PlaceHome(t)
      <3> DEFINE home == IF local[t].client \in DOMAIN affinity THEN affinity[local[t].client]
                         ELSE rr_counter % NumGpus
      <3>1. home \in Gpus /\ gpu_inflight[home] \in Nat
        BY RoundRobin, Zenon DEF TypeOK
      <3>2. rr_counter' \in Nat
        BY <2>10 DEF PlaceHome, TypeOK
      <3>3. CASE Placed(t, home)
        BY <2>10, <3>1, <3>2, <3>3, PlacedTypeOK DEF PlaceHome, TypeOK
      <3>4. CASE ~Placed(t, home)
        <4> DEFINE d == gpu_inflight[home]
                   l == [local[t] EXCEPT !.home = home, !.home_depth = d, !.best = home, !.best_depth = d]
        <4>1. l \in Local /\ l.home = home /\ l.best = home
          BY <2>0, <3>1, Zenon DEF Local
        <4>2. local' = [local EXCEPT ![t] = l]
          BY <2>0, <2>10, <3>4, Zenon DEF PlaceHome, TypeOK, Local
        <4>3. pc' = [pc EXCEPT ![t] = IF Peer[home] >= 0 THEN "peer" ELSE "scan"]
          BY <2>10, <3>4, Zenon DEF PlaceHome, Goto
        <4>4. Peer[home] >= 0 => Peer[home] \in Gpus
          BY <3>1, ServiceAssumption
        <4>5. UNCHANGED <<response, source_to_client, next_client_id, affinity, gpu_inflight, req, ran>>
          BY <2>10, <3>4, Zenon DEF PlaceHome
        <4> HIDE DEF l
        <4>6. QED
          BY <3>1, <3>2, <4>1, <4>2, <4>3, <4>4, <4>5, Zenon DEF TypeOK, Labels
      <3>5. QED
        BY <3>3, <3>4, Zenon
    <2>11. CASE PlacePeer(t)
      <3> DEFINE peer == Peer[local[t].home]
      <3>1. peer \in Gpus
        BY <2>11, Zenon DEF PlacePeer, TypeOK
      <3>2. CASE Placed(t, peer)
        BY <2>11, <3>1, <3>2, PlacedTypeOK, Zenon DEF PlacePeer, TypeOK, shared
      <3>3. CASE ~Placed(t, peer)
        BY <2>11, <3>3, Zenon DEF PlacePeer, Goto, TypeOK, Labels, shared
      <3>4. QED
        BY <3>2, <3>3, Zenon
    <2>12. CASE PlaceScan(t)
      <3> DEFINE i == local[t].i
                 better == gpu_inflight[i] < local[t].best_depth
                 best == IF better THEN i ELSE local[t].best
      <3>1. i \in Gpus /\ best \in Gpus /\ gpu_inflight[i] \in Nat
        BY <2>0, <2>12, Zenon DEF PlaceScan, TypeOK, Local
      <3>2. CASE i + 1 = NumGpus
        <4>1. Placed(t, best)
          BY <2>12, <3>2, Zenon DEF PlaceScan
        <4>2. QED
          BY <2>12, <3>1, <4>1, PlacedTypeOK DEF PlaceScan, TypeOK, shared
      <3>3. CASE i + 1 # NumGpus
        <4> DEFINE l == [local[t] EXCEPT !.i = i + 1, !.best = best,
                            !.best_depth = IF better THEN gpu_inflight[i] ELSE @]
        <4>1. i + 1 \in Gpus
          BY <3>1, <3>3, ServiceAssumption DEF Gpus
        <4>2. l \in Local /\ l.best \in Gpus /\ l.home = local[t].home
          BY <2>0, <3>1, <4>1, Zenon DEF Local
        <4>3. local' = [local EXCEPT ![t] = l]
          BY <2>0, <2>12, <3>3, Zenon DEF PlaceScan, TypeOK, Local
        <4> HIDE DEF l
        <4>4. QED
          BY <2>12, <3>3, <4>2, <4>3, Zenon DEF PlaceScan, TypeOK, shared
      <3>4. QED
        BY <3>2, <3>3, Zenon
    <2>13. CASE AdmitToGpu(t)
      <3> DEFINE g == response[t].selected_gpu
                 failed == [response[t] EXCEPT !.status = "rejected"]
      <3>1. CASE at_capacity(g)
        <4>1. failed \in Response
          BY <2>0, Literals, Zenon DEF Response
        <4>2. PICK r \in Response, l \in {"cpu", "reply"} :
                 pc' = [pc EXCEPT ![t] = l] /\ response' = [response EXCEPT ![t] = r]
          BY <2>13, <3>1, <4>1, FallBackOrFailEffect, Zenon DEF AdmitToGpu
        <4>3. QED
          BY <2>13, <3>1, <4>2, OwnStep, Zenon DEF AdmitToGpu, Plain, TypeOK, shared
      <3>2. CASE ~at_capacity(g)
        BY <2>13, <3>2 DEF AdmitToGpu, Goto, TypeOK, Labels, BackendKind
      <3>3. QED
        BY <3>1, <3>2, Zenon
    <2>14. CASE FinishOnGpu(t)
      <3> DEFINE failed == [response[t] EXCEPT !.status = "error"]
                 ok == [response[t] EXCEPT !.status = "ok", !.result = "gpu"]
      <3>1. failed \in Response /\ ok \in Response
        BY <2>0, Literals, Zenon DEF Response
      <3>2. gpu_inflight' \in [Gpus -> Nat]
        BY <2>14 DEF FinishOnGpu, given_back, TypeOK
      <3>3. PICK r \in Response, l \in {"cpu", "reply"} :
               pc' = [pc EXCEPT ![t] = l] /\ response' = [response EXCEPT ![t] = r]
        <4>1. CASE FallBackOrFail(t, failed)
          BY <3>1, <4>1, FallBackOrFailEffect, Zenon
        <4>2. CASE ~FallBackOrFail(t, failed)
          <5>1. response' = [response EXCEPT ![t] = ok] /\ pc' = [pc EXCEPT ![t] = "reply"]
            BY <2>0, <2>14, <4>2, Zenon DEF FinishOnGpu, Goto, TypeOK, Response
          <5>2. QED
            BY <3>1, <5>1, Zenon
        <4>3. QED
          BY <4>1, <4>2, Zenon
      <3>4. QED
        BY <2>14, <3>2, <3>3 DEF FinishOnGpu, TypeOK, Labels
    <2>15. CASE finish_response(t)
      <3>1. late(response[t]) \in Response
        BY <2>0, Literals, Zenon DEF late, Response
      <3>2. PICK r \in Response : response' = [response EXCEPT ![t] = r]
        BY <2>0, <2>15, <3>1, Zenon DEF finish_response
      <3>3. QED
        BY <2>15, <3>2, OwnStep, Zenon DEF finish_response, Goto, Plain, TypeOK
    <2>16. QED
      BY <1>2, <2>1, <2>2, <2>3, <2>4, <2>5, <2>6, <2>7, <2>8, <2>9, <2>10, <2>11, <2>12, <2>13,
         <2>14, <2>15, Zenon DEF handle_request
  <1>3. QED
    BY <1>1, <1>2, Zenon DEF Next, Done

(* The types hold, and every GPU that is handed on is one of the machine's. *)
THEOREM Typed == Spec => []TypeOK
  BY InitTypeOK, StepTypeOK, PTL DEF Spec
-----------------------------------------------------------------------------
(* handle_request of one thread leaves the others where they are. *)
LEMMA OthersUntouched ==
  ASSUME TypeOK, NEW t \in Threads, handle_request(t)
  PROVE  /\ \A u \in Threads \ {t} : /\ pc'[u] = pc[u] /\ local'[u] = local[u]
                                     /\ response'[u] = response[u] /\ ran'[u] = ran[u]
         /\ UNCHANGED <<config, req>>
  <1>1. CASE Validate(t) \/ HandleFrame(t) \/ finish_response(t)
    BY <1>1, Zenon DEF Validate, HandleFrame, finish_response, Goto, TypeOK
  <1>2. CASE HandleWasm(t) \/ WasmPrepare(t)
    BY <1>2, Zenon DEF HandleWasm, WasmPrepare, Goto, TypeOK
  <1>3. ASSUME NEW npu_now \in BOOLEAN, SelectBackend(t, npu_now)
        PROVE  /\ \A u \in Threads \ {t} : /\ pc'[u] = pc[u] /\ local'[u] = local[u]
                                           /\ response'[u] = response[u] /\ ran'[u] = ran[u]
               /\ UNCHANGED <<config, req>>
    BY <1>3, Zenon DEF SelectBackend, Goto, TypeOK
  <1>4. CASE RunOnCpu(t) \/ RunOnNpu(t)
    BY <1>4, Zenon DEF RunOnCpu, RunOnNpu, FallBackOrFail, Goto, TypeOK
  <1>5. CASE get_or_assign_client_id(t) \/ assign_home(t)
    BY <1>5, Zenon DEF get_or_assign_client_id, assign_home, Goto, TypeOK
  <1>6. CASE PlaceHome(t)
    BY <1>6 DEF PlaceHome, Placed, Goto, TypeOK
  <1>7. CASE PlacePeer(t) \/ PlaceScan(t)
    BY <1>7, Zenon DEF PlacePeer, PlaceScan, Placed, Goto, TypeOK
  <1>8. CASE AdmitToGpu(t)
    BY <1>8, Zenon DEF AdmitToGpu, FallBackOrFail, Goto, TypeOK
  <1>9. CASE FinishOnGpu(t)
    BY <1>9, SMTT(30) DEF FinishOnGpu, FallBackOrFail, Goto, TypeOK
  <1>10. QED
    BY <1>1, <1>2, <1>3, <1>4, <1>5, <1>6, <1>7, <1>8, <1>9, Zenon DEF handle_request

(* Only AdmitToGpu and FinishOnGpu move a slot. *)
LEMMA NotOnGpu ==
  ASSUME TypeOK, NEW t \in Threads, handle_request(t), ~AdmitToGpu(t), ~FinishOnGpu(t)
  PROVE  pc[t] # "gpu" /\ pc'[t] # "gpu" /\ gpu_inflight' = gpu_inflight
  <1>1. CASE Validate(t) \/ HandleFrame(t) \/ finish_response(t)
    BY <1>1, Zenon DEF Validate, HandleFrame, finish_response, Goto, TypeOK, shared
  <1>2. CASE HandleWasm(t) \/ WasmPrepare(t)
    BY <1>2, Zenon DEF HandleWasm, WasmPrepare, Goto, TypeOK, shared
  <1>3. ASSUME NEW npu_now \in BOOLEAN, SelectBackend(t, npu_now)
        PROVE  pc[t] # "gpu" /\ pc'[t] # "gpu" /\ gpu_inflight' = gpu_inflight
    BY <1>3, Zenon DEF SelectBackend, Goto, TypeOK, shared
  <1>4. CASE RunOnCpu(t)
    BY <1>4, Zenon DEF RunOnCpu, Goto, TypeOK, shared
  <1>5. CASE RunOnNpu(t)
    <2>1. \A failed : after_failure(t, failed)[1] \in {"cpu", "reply"}
      BY Zenon DEF after_failure
    <2>2. QED
      BY <1>5, <2>1, Zenon DEF RunOnNpu, FallBackOrFail, Goto, TypeOK, shared
  <1>6. CASE get_or_assign_client_id(t) \/ assign_home(t)
    BY <1>6, Zenon DEF get_or_assign_client_id, assign_home, Goto, TypeOK
  <1>7. CASE PlaceHome(t)
    BY <1>7, Zenon DEF PlaceHome, Placed, Goto, TypeOK
  <1>8. CASE PlacePeer(t) \/ PlaceScan(t)
    BY <1>8, Zenon DEF PlacePeer, PlaceScan, Placed, Goto, TypeOK, shared
  <1>9. QED
    BY <1>1, <1>2, <1>3, <1>4, <1>5, <1>6, <1>7, <1>8, Zenon DEF handle_request

(* The slots: counted exactly, and never more than there are. *)
Slots == InflightExact /\ GpuNeverOvercommitted

(* The requests that run on a GPU are finitely many.                       *)
LEMMA OnGpuFinite ==
  ASSUME NEW g PROVE IsFiniteSet(OnGpu(g)) /\ Cardinality(OnGpu(g)) \in Nat
  <1>1. OnGpu(g) \in SUBSET Threads
    BY Zenon DEF OnGpu
  <1>2. QED
    BY <1>1, ServiceAssumption, FS_Subset, FS_CardinalityType, Zenon

(* A new service has every slot free.                                      *)
LEMMA InitSlots == Init => Slots
  <1> SUFFICES ASSUME Init PROVE Slots
    OBVIOUS
  <1>1. \A g : OnGpu(g) = {}
    BY Zenon DEF Init, OnGpu
  <1>2. \A g : Cardinality(OnGpu(g)) = 0
    BY <1>1, FS_EmptySet, Zenon
  <1>3. QED
    BY <1>2, ServiceAssumption DEF Init, Slots, InflightExact, GpuNeverOvercommitted

(* run_on_gpu takes a slot, and its request is then on that GPU.           *)
LEMMA AdmitSlots ==
  ASSUME TypeOK, Slots, NEW t \in Threads, AdmitToGpu(t)
  PROVE  Slots'
  <1> DEFINE g == response[t].selected_gpu
  <1>0. /\ g \in Gpus /\ pc[t] = "admit"
        /\ \A u \in Threads \ {t} : pc'[u] = pc[u] /\ response'[u] = response[u]
    BY OthersUntouched, Zenon DEF AdmitToGpu, TypeOK, handle_request
  <1>1. CASE at_capacity(g)
    <2>1. after_failure(t, [response[t] EXCEPT !.status = "rejected"])[1] \in {"cpu", "reply"}
      BY Zenon DEF after_failure
    <2>2. pc'[t] # "gpu" /\ gpu_inflight' = gpu_inflight
      BY <1>1, <2>1, Zenon DEF AdmitToGpu, FallBackOrFail, Goto, TypeOK
    <2>3. \A h : OnGpu(h)' = OnGpu(h)
      BY <1>0, <2>2, Zenon DEF OnGpu
    <2>4. QED
      BY <2>2, <2>3, Zenon DEF Slots, InflightExact, GpuNeverOvercommitted
  <1>2. CASE ~at_capacity(g)
    <2>1. /\ pc'[t] = "gpu" /\ response' = response
          /\ gpu_inflight' = [gpu_inflight EXCEPT ![g] = @ + 1]
      BY <1>2, Zenon DEF AdmitToGpu, Goto, TypeOK
    <2>2. gpu_inflight[g] + 1 <= max_inflight_per_gpu
      BY <1>0, <1>2, ServiceAssumption DEF at_capacity, TypeOK
    <2>3. OnGpu(g)' = OnGpu(g) \cup {t} /\ t \notin OnGpu(g)
      BY <1>0, <2>1, Zenon DEF OnGpu
    <2>4. \A h \in Gpus \ {g} : OnGpu(h)' = OnGpu(h)
      BY <1>0, <2>1, Zenon DEF OnGpu
    <2>5. Cardinality(OnGpu(g)') = Cardinality(OnGpu(g)) + 1
      BY <2>3, OnGpuFinite, FS_AddElement, Zenon
    <2>6. QED
      BY <1>0, <2>1, <2>2, <2>4, <2>5, Zenon DEF Slots, InflightExact, GpuNeverOvercommitted,
         TypeOK
  <1>3. QED
    BY <1>1, <1>2, Zenon

(* The end of a computation, normal or not, gives the slot back.           *)
LEMMA FinishSlots ==
  ASSUME TypeOK, Slots, NEW t \in Threads, FinishOnGpu(t)
  PROVE  Slots'
  <1>g. PICK g \in Gpus : g = response[t].selected_gpu
    BY Zenon DEF FinishOnGpu, TypeOK
  <1>0. /\ pc[t] = "gpu"
        /\ \A u \in Threads \ {t} : pc'[u] = pc[u] /\ response'[u] = response[u]
    BY OthersUntouched, Zenon DEF FinishOnGpu, TypeOK, handle_request
  <1>1. \A failed : after_failure(t, failed)[1] \in {"cpu", "reply"}
    BY Zenon DEF after_failure
  <1>2. pc'[t] # "gpu"
    BY <1>1 DEF FinishOnGpu, FallBackOrFail, Goto, TypeOK
  <1>3. OnGpu(g)' = OnGpu(g) \ {t} /\ t \in OnGpu(g)
    BY <1>g, <1>0, <1>2, Zenon DEF OnGpu
  <1>4. \A h \in Gpus \ {g} : OnGpu(h)' = OnGpu(h)
    BY <1>g, <1>0, <1>2, Zenon DEF OnGpu
  <1>5. Cardinality(OnGpu(g)') = Cardinality(OnGpu(g)) - 1 /\ Cardinality(OnGpu(g)') \in Nat
    BY <1>3, OnGpuFinite, FS_RemoveElement, FS_CardinalityType, Zenon
  <1>6. gpu_inflight' = [gpu_inflight EXCEPT ![g] = @ - 1]
    <2>1. gpu_inflight[g] \in Nat /\ gpu_inflight[g] > 0
      BY <1>5, OnGpuFinite DEF Slots, InflightExact
    <2>2. \A threw : given_back(gpu_inflight[g], threw) = gpu_inflight[g] - 1
      BY <2>1, Zenon DEF given_back
    <2>3. QED
      BY <1>g, <2>2, Zenon DEF FinishOnGpu, TypeOK
  <1>7. QED
    BY <1>0, <1>4, <1>5, <1>6, OnGpuFinite, ServiceAssumption
    DEF Slots, InflightExact, GpuNeverOvercommitted, TypeOK

(* No other step of handle_request changes a slot.                         *)
LEMMA StepSlots == TypeOK /\ Slots /\ [Next]_vars => Slots'
  <1> SUFFICES ASSUME TypeOK, Slots, [Next]_vars PROVE Slots'
    OBVIOUS
  <1>1. CASE UNCHANGED vars
    BY <1>1, Zenon DEF Slots, InflightExact, GpuNeverOvercommitted, OnGpu, vars, shared
  <1>2. ASSUME NEW t \in Threads, handle_request(t), ~AdmitToGpu(t), ~FinishOnGpu(t) PROVE Slots'
    <2>1. pc[t] # "gpu" /\ pc'[t] # "gpu" /\ gpu_inflight' = gpu_inflight
      BY <1>2, NotOnGpu, Zenon
    <2>2. \A u \in Threads \ {t} : pc'[u] = pc[u] /\ response'[u] = response[u]
      BY <1>2, OthersUntouched, Zenon
    <2>3. \A g : OnGpu(g)' = OnGpu(g)
      BY <2>1, <2>2, Zenon DEF OnGpu
    <2>4. QED
      BY <2>1, <2>3, Zenon DEF Slots, InflightExact, GpuNeverOvercommitted
  <1>3. QED
    BY <1>1, <1>2, AdmitSlots, FinishSlots, Zenon DEF Next, Done

(* gpu_inflight_ is exact, for any number of threads and GPUs: no path     *)
(* through run_on_gpu leaks a slot.                                        *)
THEOREM SlotsExact == Spec => []InflightExact
  <1>1. Slots => InflightExact
    BY Zenon DEF Slots
  <1>2. QED
    BY <1>1, Typed, InitSlots, StepSlots, PTL DEF Spec

(* No GPU runs more than max_inflight_per_gpu computations, however stale  *)
(* the depths place decided on.                                            *)
THEOREM NeverOvercommitted == Spec => []GpuNeverOvercommitted
  <1>1. Slots => GpuNeverOvercommitted
    BY Zenon DEF Slots
  <1>2. QED
    BY <1>1, Typed, InitSlots, StepSlots, PTL DEF Spec
-----------------------------------------------------------------------------
(* The registry.  While client_mutex_ is free every registered client has  *)
(* a home; while it is held, all have but the newest, whose home its       *)
(* holder is about to assign.                                              *)
Registry ==
    /\ client_mutex \in Threads \cup {NoThread}
    /\ client_mutex # NoThread => pc[client_mutex] = "assign"
    /\ next_client_id \in Nat
    /\ IsFiniteSet(DOMAIN source_to_client)
    /\ next_client_id = 1 + Cardinality(DOMAIN source_to_client)
    /\ \A s \in DOMAIN source_to_client :
         /\ source_to_client[s] \in Nat /\ source_to_client[s] < next_client_id
         /\ source_to_client[s] \in DOMAIN affinity
            \/ (client_mutex # NoThread /\ local[client_mutex].client = source_to_client[s])
    /\ \A s, z \in DOMAIN source_to_client : source_to_client[s] = source_to_client[z] => s = z
    /\ DOMAIN affinity \subseteq {source_to_client[s] : s \in DOMAIN source_to_client}
    /\ \A t \in Threads :
         /\ pc[t] = "assign" =>
              /\ client_mutex = t
              /\ local[t].client \notin DOMAIN affinity
         /\ pc[t] \in {"assign", "place"} =>
              /\ req[t].source \in DOMAIN source_to_client
              /\ local[t].client = source_to_client[req[t].source]
         /\ pc[t] = "place" => local[t].client \in DOMAIN affinity

(* A new service knows no source and no client.                            *)
LEMMA InitRegistry == Init => Registry
  <1> SUFFICES ASSUME Init PROVE Registry
    OBVIOUS
  <1>1. DOMAIN source_to_client = {} /\ DOMAIN affinity = {}
    BY Zenon DEF Init
  <1>2. QED
    BY <1>1, FS_EmptySet, ServiceAssumption DEF Init, Registry

(* Every action but the two that register a client leaves the registry. *)
LEMMA NotRegistering ==
  ASSUME TypeOK, NEW t \in Threads, handle_request(t),
         ~get_or_assign_client_id(t), ~assign_home(t)
  PROVE  /\ pc[t] # "assign" /\ pc'[t] \notin {"assign", "place"}
         /\ UNCHANGED <<source_to_client, next_client_id, affinity, client_mutex>>
  <1> DEFINE Goal == /\ pc[t] # "assign" /\ pc'[t] \notin {"assign", "place"}
                     /\ UNCHANGED <<source_to_client, next_client_id, affinity, client_mutex>>
  <1>0. \A failed : after_failure(t, failed)[1] \in {"cpu", "reply"}
    BY Zenon DEF after_failure
  <1>1. CASE Validate(t) \/ HandleFrame(t) \/ finish_response(t)
    BY <1>1, Zenon DEF Validate, HandleFrame, finish_response, Goto, TypeOK, shared, mutexes
  <1>2. CASE HandleWasm(t) \/ WasmPrepare(t)
    BY <1>2, Zenon DEF HandleWasm, WasmPrepare, Goto, TypeOK, shared, mutexes
  <1>3. ASSUME NEW npu_now \in BOOLEAN, SelectBackend(t, npu_now) PROVE Goal
    BY <1>3, BackendChosen DEF SelectBackend, BackendKind, Goto, TypeOK, shared, mutexes
  <1>4. CASE RunOnCpu(t)
    BY <1>4, Zenon DEF RunOnCpu, Goto, TypeOK, shared, mutexes
  <1>5. CASE RunOnNpu(t)
    BY <1>0, <1>5, Zenon DEF RunOnNpu, FallBackOrFail, Goto, TypeOK, shared, mutexes
  <1>6. CASE PlaceHome(t)
    BY <1>6, Zenon DEF PlaceHome, Placed, Goto, TypeOK
  <1>7. CASE PlacePeer(t) \/ PlaceScan(t)
    BY <1>7, Zenon DEF PlacePeer, PlaceScan, Placed, Goto, TypeOK, shared, mutexes
  <1>8. CASE AdmitToGpu(t)
    BY <1>0, <1>8, Zenon DEF AdmitToGpu, FallBackOrFail, Goto, TypeOK, mutexes
  <1>9. CASE FinishOnGpu(t)
    BY <1>0, <1>9 DEF FinishOnGpu, FallBackOrFail, Goto, TypeOK, mutexes
  <1>10. QED
    BY <1>1, <1>2, <1>3, <1>4, <1>5, <1>6, <1>7, <1>8, <1>9, Zenon DEF handle_request

(* A source that is looked up or registered. *)
LEMMA RegisterPreserves ==
  ASSUME TypeOK, Registry, NEW t \in Threads, get_or_assign_client_id(t)
  PROVE  Registry'
  <1> DEFINE s == req[t].source
  <1>0. /\ pc[t] = "client" /\ client_mutex = NoThread /\ NoThread \notin Threads
        /\ \A u \in Threads \ {t} : pc'[u] = pc[u] /\ local'[u] = local[u]
        /\ UNCHANGED <<req, affinity>>
    BY OthersUntouched, ServiceAssumption, Zenon DEF get_or_assign_client_id, handle_request
  <1>1. CASE s \in DOMAIN source_to_client
    <2>1. /\ pc' = [pc EXCEPT ![t] = "place"] /\ local'[t].client = source_to_client[s]
          /\ UNCHANGED <<source_to_client, next_client_id, client_mutex>>
      BY <1>1, SMTT(30) DEF get_or_assign_client_id, Goto, TypeOK, Local
    <2>2. source_to_client[s] \in DOMAIN affinity
      BY <1>0, <1>1, Zenon DEF Registry
    <2>3. QED
      BY <1>0, <1>1, <2>1, <2>2 DEF Registry, TypeOK
  <1>2. CASE s \notin DOMAIN source_to_client
    <2>1. /\ pc' = [pc EXCEPT ![t] = "assign"] /\ local'[t].client = next_client_id
          /\ next_client_id' = next_client_id + 1 /\ client_mutex' = t
      BY <1>2 DEF get_or_assign_client_id, registrar, Goto, TypeOK, Local
    <2>2. /\ DOMAIN source_to_client' = DOMAIN source_to_client \cup {s}
          /\ source_to_client'[s] = next_client_id
          /\ \A z \in DOMAIN source_to_client : source_to_client'[z] = source_to_client[z]
      BY <1>2, Zenon DEF get_or_assign_client_id
    <2>3. /\ IsFiniteSet(DOMAIN source_to_client')
          /\ Cardinality(DOMAIN source_to_client') = Cardinality(DOMAIN source_to_client) + 1
      BY <1>2, <2>2, FS_AddElement, SMTT(30) DEF Registry
    <2>4. next_client_id' = 1 + Cardinality(DOMAIN source_to_client') /\ next_client_id' \in Nat
      BY <2>1, <2>3, FS_CardinalityType DEF Registry
    <2>5. next_client_id \notin DOMAIN affinity
      BY DEF Registry
    <2>6. \A z \in DOMAIN source_to_client' :
            /\ source_to_client'[z] \in Nat /\ source_to_client'[z] < next_client_id'
            /\ source_to_client'[z] \in DOMAIN affinity'
               \/ (client_mutex' # NoThread /\ local'[client_mutex'].client = source_to_client'[z])
      BY <1>0, <2>1, <2>2, SMTT(30) DEF Registry
    <2>7. \A y, z \in DOMAIN source_to_client' :
            source_to_client'[y] = source_to_client'[z] => y = z
      BY <2>2 DEF Registry
    <2>8. DOMAIN affinity' \subseteq {source_to_client'[z] : z \in DOMAIN source_to_client'}
      BY <1>0, <2>2 DEF Registry
    <2>9. ASSUME NEW u \in Threads
          PROVE  /\ pc'[u] = "assign" => client_mutex' = u /\ local'[u].client \notin DOMAIN affinity'
                 /\ pc'[u] \in {"assign", "place"} =>
                      /\ req'[u].source \in DOMAIN source_to_client'
                      /\ local'[u].client = source_to_client'[req'[u].source]
                 /\ pc'[u] = "place" => local'[u].client \in DOMAIN affinity'
      <3>1. CASE u = t
        BY <1>0, <2>1, <2>2, <2>5, <3>1, Zenon DEF TypeOK
      <3>2. CASE u # t
        BY <1>0, <2>2, <3>2, Zenon DEF Registry
      <3>3. QED
        BY <3>1, <3>2, Zenon
    <2>10. client_mutex' \in Threads \cup {NoThread} /\ pc'[client_mutex'] = "assign"
      BY <2>1, Zenon DEF TypeOK
    <2>11. QED
      BY <2>3, <2>4, <2>6, <2>7, <2>8, <2>9, <2>10, Zenon DEF Registry
  <1>3. QED
    BY <1>1, <1>2, Zenon

(* The newest client gets its home, and client_mutex_ is free again. *)
LEMMA AssignPreserves ==
  ASSUME TypeOK, Registry, NEW t \in Threads, assign_home(t)
  PROVE  Registry'
  <1>0. /\ pc[t] = "assign" /\ client_mutex = t /\ NoThread \notin Threads
        /\ pc' = [pc EXCEPT ![t] = "place"] /\ client_mutex' = NoThread
        /\ UNCHANGED <<source_to_client, next_client_id, req, local>>
    BY ServiceAssumption, Zenon DEF assign_home, Goto, Registry
  <1>1. DOMAIN affinity' = DOMAIN affinity \cup {local[t].client}
    BY Zenon DEF assign_home, with_home
  <1>2. /\ req[t].source \in DOMAIN source_to_client
        /\ local[t].client = source_to_client[req[t].source]
    BY <1>0, Zenon DEF Registry
  <1>3. \A s \in DOMAIN source_to_client : source_to_client[s] \in DOMAIN affinity'
    BY <1>0, <1>1, Zenon DEF Registry
  <1>4. \A u \in Threads : pc'[u] # "assign"
    BY <1>0, SMTT(30) DEF Registry, TypeOK
  <1>5. \A u \in Threads : pc'[u] = "place" => local'[u].client \in DOMAIN affinity'
    BY <1>0, <1>1, SMTT(30) DEF Registry, TypeOK
  <1>6. \A u \in Threads :
          pc'[u] = "place" => /\ req'[u].source \in DOMAIN source_to_client'
                              /\ local'[u].client = source_to_client'[req'[u].source]
    BY <1>0, <1>2, Zenon DEF Registry, TypeOK
  <1>7. DOMAIN affinity' \subseteq {source_to_client[s] : s \in DOMAIN source_to_client}
    BY <1>1, <1>2, SMTT(30) DEF Registry
  <1>8. QED
    BY <1>0, <1>3, <1>4, <1>5, <1>6, <1>7, SMTT(30) DEF Registry

(* Registering a source and assigning its home keep one client to a        *)
(* source.                                                                 *)
LEMMA StepRegistry == TypeOK /\ Registry /\ [Next]_vars => Registry'
  <1> SUFFICES ASSUME TypeOK, Registry, [Next]_vars PROVE Registry'
    OBVIOUS
  <1>1. CASE UNCHANGED vars
    <2>1. UNCHANGED <<source_to_client, next_client_id, affinity, client_mutex, pc, local, req>>
      BY <1>1, Zenon DEF vars, shared, mutexes
    <2>2. /\ source_to_client' = source_to_client /\ next_client_id' = next_client_id
          /\ affinity' = affinity /\ client_mutex' = client_mutex
          /\ pc' = pc /\ local' = local /\ req' = req
      BY <2>1, Zenon
    <2>3. Registry' = Registry
      BY <2>2 DEF Registry
    <2>4. QED
      BY <2>3, Zenon
  <1>2. ASSUME NEW t \in Threads, handle_request(t), ~get_or_assign_client_id(t), ~assign_home(t)
        PROVE  Registry'
    <2>1. /\ pc[t] # "assign" /\ pc'[t] \notin {"assign", "place"}
          /\ UNCHANGED <<source_to_client, next_client_id, affinity, client_mutex>>
      BY <1>2, NotRegistering, Zenon
    <2>2. (\A u \in Threads \ {t} : pc'[u] = pc[u] /\ local'[u] = local[u]) /\ req' = req
      BY <1>2, OthersUntouched, Zenon
    <2>3. client_mutex # t
      BY <2>1, ServiceAssumption, Zenon DEF Registry
    <2>4. QED
      BY <2>1, <2>2, <2>3 DEF Registry
  <1>3. QED
    BY <1>1, <1>2, RegisterPreserves, AssignPreserves, Zenon DEF Next, Done

(* place always knows the home of its client, and the registry has one     *)
(* entry for each source.                                                  *)
THEOREM HomeKnown == Spec => []PlaceKnowsHome
  <1>1. Registry => PlaceKnowsHome
    BY Zenon DEF Registry, PlaceKnowsHome
  <1>2. QED
    BY <1>1, Typed, InitRegistry, StepRegistry, PTL DEF Spec

(* The home of a source never changes: assign_home only ever writes the    *)
(* entry of a client that has none.                                        *)
THEOREM HomeSticky == Spec => HomeIsSticky
  <1> DEFINE Kept == \A c \in DOMAIN affinity : c \in DOMAIN affinity' /\ affinity'[c] = affinity[c]
  <1>1. TypeOK /\ Registry /\ [Next]_vars => [Kept]_vars
    <2> SUFFICES ASSUME TypeOK, Registry, NEW t \in Threads, handle_request(t) PROVE Kept
      BY Zenon DEF Next, Done
    <2>1. CASE assign_home(t)
      <3>1. local[t].client \notin DOMAIN affinity
        BY <2>1, Zenon DEF assign_home, Registry
      <3>2. QED
        BY <2>1, <3>1, Zenon DEF assign_home, with_home
    <2>2. CASE get_or_assign_client_id(t)
      BY <2>2, Zenon DEF get_or_assign_client_id
    <2>3. CASE ~assign_home(t) /\ ~get_or_assign_client_id(t)
      BY <2>3, NotRegistering, Zenon
    <2>4. QED
      BY <2>1, <2>2, <2>3, Zenon
  <1>2. QED
    BY <1>1, Typed, InitRegistry, StepRegistry, PTL DEF Spec, HomeIsSticky
-----------------------------------------------------------------------------
(* The requests that must stay on the CPU. *)
CpuOnly(t) ==
    config.force_cpu \/ profile_requires_cpu(req[t].profile)
    \/ (~req[t].profile.present /\ req[t].device_preference = "cpu")

(* Nothing has run before a backend is reached, and no path leads a        *)
(* request that must stay on the CPU to an accelerator.                    *)
Dispatched ==
    /\ config.force_cpu \in BOOLEAN
    /\ \A t \in Threads :
         /\ req[t].profile \in TaskProfile \cup {NoProfile}
         /\ pc[t] \in {"new", "dispatch", "client", "assign", "place", "peer", "scan", "admit",
                       "npu"} => ran[t] = {}
         /\ pc[t] = "gpu" => ran[t] = {"gpu"}
         /\ pc[t] = "cpu" /\ ~fallback_safe(req[t]) => ran[t] = {}
         /\ pc[t] \in {"npu", "admit", "gpu", "cpu"} => req[t].kind = "compute"
         /\ pc[t] \in {"client", "assign", "place", "peer", "scan"} =>
              req[t].kind \in {"compute", "prepare"}
         /\ req[t].kind = "compute" /\ CpuOnly(t) =>
              pc[t] \notin {"npu", "client", "assign", "place", "peer", "scan", "admit", "gpu"}
         /\ CpuOnly(t) => ran[t] \subseteq {"cpu"}
         /\ ~fallback_safe(req[t]) => \E b \in BackendKind : ran[t] \subseteq {b}

(* select_backend sends what must stay on the CPU to the CPU. *)
LEMMA CpuOnlySelected ==
  ASSUME Dispatched, NEW t \in Threads, CpuOnly(t), NEW npu_now \in BOOLEAN
  PROVE  select_backend(PolicyFor(config, npu_now, req[t]), effective_profile(req[t])) = "cpu"
  <1> DEFINE policy == PolicyFor(config, npu_now, req[t])
  <1>1. policy.force_cpu
           = (config.force_cpu \/ (~req[t].profile.present /\ req[t].device_preference = "cpu"))
    BY Zenon DEF PolicyFor
  <1>2. CASE policy.force_cpu
    BY <1>2, Zenon DEF select_backend
  <1>3. CASE ~policy.force_cpu
    <2>1. profile_requires_cpu(req[t].profile)
      BY <1>1, <1>3, Zenon DEF CpuOnly
    <2>2. req[t].profile.present
      <3>1. req[t].profile \in TaskProfile \/ req[t].profile = NoProfile
        BY Zenon DEF Dispatched
      <3>2. NoProfile.exact = FALSE
        BY Zenon DEF NoProfile, DefaultProfile
      <3>3. \A p \in TaskProfile : p.present
        BY Zenon DEF TaskProfile
      <3>4. QED
        BY <2>1, <3>1, <3>2, <3>3, Zenon DEF profile_requires_cpu
    <2>3. effective_profile(req[t]) = req[t].profile
      BY <2>2, Zenon DEF effective_profile
    <2>4. QED
      BY <2>1, <2>2, <2>3, Zenon DEF select_backend
  <1>4. QED
    BY <1>2, <1>3, Zenon

(* Before a request is dispatched nothing has run.                         *)
LEMMA InitDispatched == Init => Dispatched
  <1> SUFFICES ASSUME Init PROVE Dispatched
    OBVIOUS
  <1>1. PICK w \in Workloads : config = w.config /\ req = w.req
    BY Zenon DEF Init
  <1>2. /\ config.force_cpu \in BOOLEAN
        /\ \A t \in Threads : req[t].profile \in TaskProfile \cup {NoProfile}
    BY <1>1, ServiceAssumption, Zenon
  <1>3. "cpu" \in BackendKind
    BY Zenon DEF BackendKind
  <1>4. QED
    BY <1>2, <1>3, Zenon DEF Init, Dispatched

(* What the step of one thread must leave true of that thread. *)
OwnDispatched(t) ==
    /\ pc'[t] \in {"new", "dispatch", "client", "assign", "place", "peer", "scan", "admit", "npu"}
       => ran'[t] = {}
    /\ pc'[t] = "gpu" => ran'[t] = {"gpu"}
    /\ pc'[t] = "cpu" /\ ~fallback_safe(req[t]) => ran'[t] = {}
    /\ pc'[t] \in {"npu", "admit", "gpu", "cpu"} => req[t].kind = "compute"
    /\ pc'[t] \in {"client", "assign", "place", "peer", "scan"} =>
         req[t].kind \in {"compute", "prepare"}
    /\ req[t].kind = "compute" /\ CpuOnly(t) =>
         pc'[t] \notin {"npu", "client", "assign", "place", "peer", "scan", "admit", "gpu"}
    /\ CpuOnly(t) => ran'[t] \subseteq {"cpu"}
    /\ ~fallback_safe(req[t]) => \E b \in BackendKind : ran'[t] \subseteq {b}

(* A thread's own step runs its request only where select_backend or the   *)
(* fallback says.                                                          *)
LEMMA OwnStepDispatched ==
  ASSUME TypeOK, Dispatched, NEW t \in Threads, handle_request(t)
  PROVE  OwnDispatched(t)
  <1>0. /\ \A failed : after_failure(t, failed)[1] \in {"cpu", "reply"}
        /\ \A failed : ~fallback_safe(req[t]) => after_failure(t, failed)[1] = "reply"
    BY Zenon DEF after_failure
  <1>1. CASE Validate(t) \/ HandleFrame(t) \/ finish_response(t)
    BY <1>1 DEF Validate, HandleFrame, finish_response, Goto, TypeOK, Dispatched, OwnDispatched
  <1>2. CASE HandleWasm(t) \/ WasmPrepare(t)
    BY <1>2, SMTT(30) DEF HandleWasm, WasmPrepare, Goto, TypeOK, Dispatched, OwnDispatched
  <1>3. ASSUME NEW npu_now \in BOOLEAN, SelectBackend(t, npu_now) PROVE OwnDispatched(t)
    <2> DEFINE backend == select_backend(PolicyFor(config, npu_now, req[t]), effective_profile(req[t]))
    <2>1. CpuOnly(t) => backend = "cpu"
      BY CpuOnlySelected, Zenon
    <2>2. backend \in BackendKind
      BY BackendChosen, Zenon
    <2>3. /\ pc[t] = "dispatch" /\ req[t].kind = "compute" /\ ran' = ran
          /\ pc'[t] \in {"reply", IF backend = "gpu" THEN "client" ELSE backend}
      BY <1>3, Zenon DEF SelectBackend, Goto, TypeOK
    <2> HIDE DEF backend
    <2>4. QED
      BY <2>1, <2>2, <2>3, Zenon DEF BackendKind, Dispatched, OwnDispatched
  <1>4. CASE RunOnCpu(t)
    BY <1>4, Zenon DEF RunOnCpu, Goto, TypeOK, Dispatched, OwnDispatched, BackendKind
  <1>5. CASE RunOnNpu(t)
    <2>1. pc[t] = "npu" /\ ran'[t] = {"npu"} /\ req[t].kind = "compute" /\ ~CpuOnly(t)
      BY <1>5, Zenon DEF RunOnNpu, TypeOK, Dispatched
    <2>2. pc'[t] \in {"cpu", "reply"} /\ (~fallback_safe(req[t]) => pc'[t] = "reply")
      BY <1>0, <1>5, Zenon DEF RunOnNpu, FallBackOrFail, Goto, TypeOK
    <2>3. QED
      BY <2>1, <2>2, Zenon DEF OwnDispatched, BackendKind
  <1>6. CASE get_or_assign_client_id(t) \/ assign_home(t)
    BY <1>6, Zenon DEF get_or_assign_client_id, assign_home, Goto, TypeOK, Dispatched,
       OwnDispatched
  <1>7. CASE PlaceHome(t)
    <2>1. /\ pc[t] = "place" /\ ran' = ran /\ pc'[t] \in {"reply", "admit", "peer", "scan"}
          /\ pc'[t] = "admit" => req[t].kind # "prepare"
      BY <1>7, Zenon DEF PlaceHome, Placed, Goto, TypeOK
    <2>2. QED
      BY <2>1, Zenon DEF Dispatched, OwnDispatched
  <1>8. CASE PlacePeer(t) \/ PlaceScan(t)
    <2>1. /\ pc[t] \in {"peer", "scan"} /\ ran' = ran /\ pc'[t] \in {"reply", "admit", "scan"}
          /\ pc'[t] = "admit" => req[t].kind # "prepare"
      BY <1>8, Zenon DEF PlacePeer, PlaceScan, Placed, Goto, TypeOK
    <2>2. QED
      BY <2>1, Zenon DEF Dispatched, OwnDispatched
  <1>9. CASE AdmitToGpu(t)
    <2>1. pc[t] = "admit" /\ ran[t] = {} /\ req[t].kind = "compute" /\ ~CpuOnly(t)
      BY <1>9, Zenon DEF AdmitToGpu, Dispatched
    <2>2. \/ pc'[t] = "gpu" /\ ran'[t] = {"gpu"}
          \/ pc'[t] \in {"cpu", "reply"} /\ ran'[t] = {}
      BY <1>0, <1>9, <2>1 DEF AdmitToGpu, FallBackOrFail, Goto, TypeOK
    <2>3. QED
      BY <2>1, <2>2, Zenon DEF OwnDispatched, BackendKind
  <1>10. CASE FinishOnGpu(t)
    <2>1. pc[t] = "gpu" /\ ran'[t] = {"gpu"} /\ req[t].kind = "compute" /\ ~CpuOnly(t)
      BY <1>10, Zenon DEF FinishOnGpu, Dispatched
    <2>2. pc'[t] \in {"cpu", "reply"} /\ (~fallback_safe(req[t]) => pc'[t] = "reply")
      BY <1>0, <1>10 DEF FinishOnGpu, FallBackOrFail, Goto, TypeOK
    <2>3. QED
      BY <2>1, <2>2, Zenon DEF OwnDispatched, BackendKind
  <1>11. QED
    BY <1>1, <1>2, <1>3, <1>4, <1>5, <1>6, <1>7, <1>8, <1>9, <1>10, Zenon DEF handle_request

(* Nor does any other thread's step run it.                                *)
LEMMA StepDispatched == TypeOK /\ Dispatched /\ [Next]_vars => Dispatched'
  <1> SUFFICES ASSUME TypeOK, Dispatched, [Next]_vars PROVE Dispatched'
    OBVIOUS
  <1>1. CASE UNCHANGED vars
    BY <1>1, Zenon DEF Dispatched, CpuOnly, vars
  <1>2. ASSUME NEW t \in Threads, handle_request(t) PROVE Dispatched'
    <2>1. /\ \A u \in Threads \ {t} : pc'[u] = pc[u] /\ ran'[u] = ran[u]
          /\ UNCHANGED <<config, req>>
      BY <1>2, OthersUntouched, Zenon
    <2>2. OwnDispatched(t)
      BY <1>2, OwnStepDispatched, Zenon
    <2>3. \A u : CpuOnly(u)' = CpuOnly(u)
      BY <2>1, Zenon DEF CpuOnly
    <2>4. QED
      BY <2>1, <2>2, <2>3 DEF Dispatched, OwnDispatched
  <1>3. QED
    BY <1>1, <1>2, Zenon DEF Next, Done

(* Work runs only where its profile, its preference and the operator's     *)
(* configuration allow, for every workload: the property holds of the      *)
(* dispatch code whatever the profiles, thresholds and races.              *)
THEOREM RunsOnlyWhereItMay == Spec => []RunsWhereItMay
  <1>1. Dispatched => RunsWhereItMay
    <2> SUFFICES ASSUME Dispatched, NEW t \in Threads
                 PROVE  /\ ~fallback_safe(req[t]) => Cardinality(ran[t]) <= 1
                        /\ CpuOnly(t) => ran[t] \subseteq {"cpu"}
      BY Zenon DEF RunsWhereItMay, CpuOnly
    <2>1. ASSUME ~fallback_safe(req[t]) PROVE Cardinality(ran[t]) <= 1
      <3>1. PICK b \in BackendKind : ran[t] \subseteq {b}
        BY <2>1, Zenon DEF Dispatched
      <3>2. ran[t] = {} \/ ran[t] = {b}
        BY <3>1, Zenon
      <3>3. QED
        BY <3>2, FS_EmptySet, FS_Singleton
    <2>2. QED
      BY <2>1, Zenon DEF Dispatched
  <1>2. QED
    BY <1>1, Typed, InitDispatched, StepDispatched, PTL DEF Spec
-----------------------------------------------------------------------------
(* What a reply says of a request, before finish_response looks at the     *)
(* clock; on: the backends that started the task.                          *)
HonestReply(r, reply, on) ==
    /\ reply.status \in {"ok", "rejected", "error"}
    /\ reply.status # "ok" => reply.result \in {"none", "wasm"}
    /\ reply.result = "wasm" => r.kind \in {"wasm", "prepare"}
    /\ reply.status = "ok" /\ r.kind = "compute" =>
         /\ reply.result = reply.backend /\ reply.backend \in on
         /\ (reply.selected_gpu # -1) <=> (reply.backend = "gpu")
         /\ reply.backend # "cpu" => ~reply.fell_back_to_cpu
         /\ on = {reply.backend} \/ reply.fell_back_to_cpu

FellBack == [NoResponse EXCEPT !.fell_back_to_cpu = TRUE]

(* What the response holds where the thread is: it is empty until a GPU is *)
(* chosen or a backend has ended, and a CPU run after another backend is   *)
(* marked as a fallback.                                                   *)
Told(r, label, reply, on) ==
    /\ label \in {"new", "dispatch", "client", "assign", "place", "peer", "scan", "npu"} =>
         reply = NoResponse
    /\ label \in {"admit", "gpu"} =>
         /\ reply.status = "none" /\ reply.result = "none" /\ reply.backend = "gpu"
         /\ ~reply.fell_back_to_cpu
    /\ label = "cpu" => reply = FellBack \/ (reply = NoResponse /\ on = {})
    /\ label = "reply" => HonestReply(r, reply, on)
    /\ label \notin {"new", "done"} => validate_request(r)
    /\ label = "done" =>
         \/ HonestReply(r, reply, on) /\ validate_request(r)
         \/ reply.status = "timeout" /\ reply.result = "none" /\ validate_request(r)
         \/ reply.status = "rejected" /\ reply.result = "none" /\ on = {}

AllTold == \A t \in Threads : Told(req[t], pc[t], response[t], ran[t])

(* An empty response, field by field.                                      *)
LEMMA EmptyResponse ==
  /\ NoResponse.status = "none" /\ NoResponse.backend = "cpu" /\ NoResponse.selected_gpu = -1
  /\ NoResponse.fell_back_to_cpu = FALSE /\ NoResponse.result = "none"
  /\ FellBack \in Response
  /\ FellBack.status = "none" /\ FellBack.backend = "cpu" /\ FellBack.selected_gpu = -1
  /\ FellBack.fell_back_to_cpu = TRUE /\ FellBack.result = "none"
  <1>1. /\ NoResponse.status = "none" /\ NoResponse.backend = "cpu" /\ NoResponse.selected_gpu = -1
        /\ NoResponse.fell_back_to_cpu = FALSE /\ NoResponse.result = "none"
    BY Zenon DEF NoResponse
  <1>2. QED
    BY <1>1, NoResponseTyped, Zenon DEF FellBack, Response

(* A reply that is no success and carries nothing is honest.               *)
LEMMA EmptyHanded ==
  ASSUME NEW r, NEW on, NEW reply \in Response, NEW s \in {"rejected", "error"}, reply.result = "none"
  PROVE  HonestReply(r, [reply EXCEPT !.status = s], on)
  <1>1. [reply EXCEPT !.status = s].status = s /\ [reply EXCEPT !.status = s].result = "none"
    BY Zenon DEF Response
  <1>2. QED
    BY <1>1, Zenon DEF HonestReply

(* The WASM manager's answer goes to the request that asked for it.        *)
LEMMA WasmAnswer ==
  ASSUME NEW r, r.kind \in {"wasm", "prepare"}, NEW on, NEW g \in Int,
         NEW S \in SUBSET {"ok", "rejected", "error"}, NEW reply \in WasmReplies(g, S)
  PROVE  HonestReply(r, reply, on)
  <1>1. CASE reply = [NoResponse EXCEPT !.status = "error"]
    BY <1>1, EmptyHanded, NoResponseTyped, EmptyResponse, Zenon
  <1>2. ASSUME NEW s \in S,
               reply = [NoResponse EXCEPT !.status = s, !.selected_gpu = g, !.result = "wasm"]
        PROVE  HonestReply(r, reply, on)
    <2>1. reply.status = s /\ reply.result = "wasm"
      BY <1>2, Zenon DEF NoResponse
    <2>2. QED
      BY <2>1, Zenon DEF HonestReply
  <1>3. QED
    BY <1>1, <1>2, Zenon DEF WasmReplies

(* A failed accelerator leaves an empty response marked as a fallback, or  *)
(* an error that carries no result.                                        *)
LEMMA ToldOfFailure ==
  ASSUME TypeOK, NEW t \in Threads, NEW failed \in Response, NEW on, validate_request(req[t]),
         failed.status \in {"rejected", "error"}, failed.result = "none", FallBackOrFail(t, failed)
  PROVE  Told(req[t], pc'[t], response'[t], on)
  <1>1. CASE fallback_safe(req[t])
    <2>1. after_failure(t, failed) = <<"cpu", FellBack>>
      BY <1>1, Zenon DEF after_failure, FellBack
    <2>2. pc'[t] = "cpu" /\ response'[t] = FellBack
      BY <2>1 DEF FallBackOrFail, Goto, TypeOK
    <2>3. QED
      BY <2>2, Zenon DEF Told
  <1>2. CASE ~fallback_safe(req[t])
    <2>1. after_failure(t, failed) = <<"reply", failed>>
      BY <1>2, Zenon DEF after_failure
    <2>2. pc'[t] = "reply" /\ response'[t] = failed
      BY <2>1 DEF FallBackOrFail, Goto, TypeOK
    <2>3. HonestReply(req[t], failed, on)
      BY Zenon DEF HonestReply
    <2>4. QED
      BY <2>2, <2>3, Zenon DEF Told
  <1>3. QED
    BY <1>1, <1>2, Zenon

(* place hands its caller a GPU, in a response that is otherwise empty, or *)
(* in the WASM manager's answer.                                           *)
LEMMA ToldOfPlaced ==
  ASSUME TypeOK, NEW t \in Threads, NEW g \in Gpus, NEW on, Placed(t, g),
         response[t] = NoResponse, validate_request(req[t])
  PROVE  Told(req[t], pc'[t], response'[t], on)
  <1>1. CASE req[t].kind = "prepare"
    <2>1. PICK r \in WasmReplies(g, {"ok"}) : response'[t] = r
      BY <1>1, Zenon DEF Placed, TypeOK
    <2>2. pc'[t] = "reply"
      BY <1>1, Zenon DEF Placed, Goto, TypeOK
    <2>3. HonestReply(req[t], r, on)
      BY <1>1, WasmAnswer, GpuZero
    <2>4. QED
      BY <2>1, <2>2, <2>3, Zenon DEF Told
  <1>2. CASE req[t].kind # "prepare"
    <2>1. pc'[t] = "admit"
      BY <1>2, Zenon DEF Placed, Goto, TypeOK
    <2>2. response'[t] = [NoResponse EXCEPT !.backend = "gpu", !.selected_gpu = g]
      BY <1>2, Zenon DEF Placed, TypeOK
    <2>3. /\ response'[t].status = "none" /\ response'[t].result = "none"
          /\ response'[t].backend = "gpu" /\ ~response'[t].fell_back_to_cpu
      BY <2>2, Zenon DEF NoResponse
    <2>4. QED
      BY <2>1, <2>3, Zenon DEF Told
  <1>3. QED
    BY <1>1, <1>2, Zenon

(* A thread's own step tells the truth about what it did.                  *)
LEMMA OwnStepTold ==
  ASSUME TypeOK, Dispatched, AllTold, NEW t \in Threads, handle_request(t)
  PROVE  Told(req[t], pc'[t], response'[t], ran'[t])
  <1> DEFINE reply == response[t]
             told == Told(req[t], pc'[t], response'[t], ran'[t])
  <1>0. reply \in Response /\ Told(req[t], pc[t], reply, ran[t])
    BY Zenon DEF TypeOK, AllTold
  <1>empty. \A s \in {"rejected", "error"} :
              HonestReply(req[t], [NoResponse EXCEPT !.status = s], ran'[t])
    BY EmptyHanded, NoResponseTyped, EmptyResponse, Zenon
  <1>1. CASE Validate(t)
    <2>1. reply = NoResponse /\ pc[t] = "new" /\ ran'[t] = {}
      BY <1>0, <1>1, Zenon DEF Validate, Told, Dispatched
    <2>2. \/ /\ pc'[t] = "done" /\ response'[t] = [NoResponse EXCEPT !.status = "rejected"]
          \/ /\ pc'[t] = "done" /\ response'[t] = [NoResponse EXCEPT !.status = "timeout"]
             /\ validate_request(req[t])
          \/ pc'[t] = "dispatch" /\ response'[t] = NoResponse /\ validate_request(req[t])
      BY <1>1, <2>1, Zenon DEF Validate, Goto, TypeOK
    <2>3. \A s : /\ [NoResponse EXCEPT !.status = s].status = s
                 /\ [NoResponse EXCEPT !.status = s].result = "none"
      BY Zenon DEF NoResponse
    <2>4. QED
      BY <2>1, <2>2, <2>3 DEF Told
  <1>2. CASE finish_response(t)
    <2>1. pc[t] = "reply" /\ pc'[t] = "done" /\ ran'[t] = ran[t] /\ response'[t] \in {reply, late(reply)}
      BY <1>2, Zenon DEF finish_response, Goto, TypeOK
    <2>2. late(reply).status = "timeout" /\ late(reply).result = "none"
      BY <1>0, Zenon DEF late, Response
    <2>3. HonestReply(req[t], reply, ran[t]) /\ validate_request(req[t])
      BY <1>0, <2>1, Zenon DEF Told
    <2>4. QED
      BY <2>1, <2>2, <2>3, Zenon DEF Told
  <1>3. CASE HandleFrame(t)
    <2>1. /\ pc[t] = "dispatch" /\ pc'[t] = "reply" /\ req[t].kind = "frame"
          /\ response'[t] \in {[NoResponse EXCEPT !.status = "ok", !.result = "echo"],
                               [NoResponse EXCEPT !.status = "rejected"],
                               [NoResponse EXCEPT !.status = "error"]}
      BY <1>3, Zenon DEF HandleFrame, Goto, TypeOK
    <2>2. /\ [NoResponse EXCEPT !.status = "ok", !.result = "echo"].status = "ok"
          /\ [NoResponse EXCEPT !.status = "ok", !.result = "echo"].result = "echo"
      BY Zenon DEF NoResponse
    <2>3. HonestReply(req[t], response'[t], ran'[t])
      <3>1. HonestReply(req[t], [NoResponse EXCEPT !.status = "ok", !.result = "echo"], ran'[t])
        BY <2>1, <2>2, Zenon DEF HonestReply
      <3>2. QED
        BY <1>empty, <2>1, <3>1, Zenon
    <2>4. validate_request(req[t])
      BY <1>0, <2>1, Zenon DEF Told
    <2>5. QED
      BY <2>1, <2>3, <2>4, Zenon DEF Told
  <1>4. CASE HandleWasm(t)
    <2>1. pc[t] = "dispatch" /\ pc'[t] = "reply" /\ req[t].kind = "wasm"
      BY <1>4, Zenon DEF HandleWasm, Goto, TypeOK
    <2>2. reply = NoResponse /\ validate_request(req[t])
      BY <1>0, <2>1, Zenon DEF Told
    <2>3. CASE response'[t] = [reply EXCEPT !.status = "rejected"]
      <3>1. HonestReply(req[t], response'[t], ran'[t])
        BY <1>empty, <2>2, <2>3, Zenon
      <3>2. QED
        BY <2>1, <2>2, <3>1, Zenon DEF Told
    <2>4. CASE response'[t] \in WasmReplies(req[t].assigned_gpu, {"ok", "rejected", "error"})
      <3>1. HonestReply(req[t], response'[t], ran'[t])
        BY <2>1, <2>4, WasmAnswer DEF TypeOK
      <3>2. QED
        BY <2>1, <2>2, <3>1, Zenon DEF Told
    <2>5. QED
      BY <1>4, <2>3, <2>4, Zenon DEF HandleWasm, TypeOK
  <1>5. CASE WasmPrepare(t)
    <2>1. pc[t] = "dispatch" /\ req[t].kind = "prepare"
      BY <1>5, Zenon DEF WasmPrepare
    <2>2. reply = NoResponse /\ validate_request(req[t])
      BY <1>0, <2>1, Zenon DEF Told
    <2>3. CASE pc'[t] = "client" /\ response'[t] = reply
      BY <2>2, <2>3, Zenon DEF Told
    <2>4. CASE pc'[t] = "reply" /\ response'[t] \in WasmReplies(-1, {"ok"})
      <3>1. HonestReply(req[t], response'[t], ran'[t])
        BY <2>1, <2>4, WasmAnswer
      <3>2. QED
        BY <2>2, <2>4, <3>1, Zenon DEF Told
    <2>5. QED
      BY <1>5, <2>3, <2>4, Zenon DEF WasmPrepare, Goto, TypeOK
  <1>6. ASSUME NEW npu_now \in BOOLEAN, SelectBackend(t, npu_now) PROVE told
    <2> DEFINE backend == select_backend(PolicyFor(config, npu_now, req[t]), effective_profile(req[t]))
    <2>1. pc[t] = "dispatch" /\ ran'[t] = {} /\ backend \in BackendKind
      BY <1>6, BackendChosen, Zenon DEF SelectBackend, Dispatched
    <2>2. reply = NoResponse /\ validate_request(req[t])
      BY <1>0, <2>1, Zenon DEF Told
    <2>3. \/ pc'[t] = "reply" /\ response'[t] = [NoResponse EXCEPT !.status = "error"]
          \/ /\ pc'[t] = IF backend = "gpu" THEN "client" ELSE backend
             /\ response'[t] = NoResponse
      BY <1>6, <2>2, Zenon DEF SelectBackend, Goto, TypeOK
    <2> HIDE DEF backend
    <2>4. QED
      BY <1>empty, <2>1, <2>2, <2>3, Zenon DEF Told, BackendKind
  <1>7. CASE RunOnCpu(t)
    <2>1. pc[t] = "cpu" /\ pc'[t] = "reply" /\ ran'[t] = ran[t] \cup {"cpu"} /\ req[t].kind = "compute"
      BY <1>7, Zenon DEF RunOnCpu, Goto, TypeOK, Dispatched
    <2>2. /\ validate_request(req[t])
          /\ reply = FellBack \/ (reply = NoResponse /\ ran[t] = {})
      BY <1>0, <2>1, Zenon DEF Told
    <2>3. response'[t] = [reply EXCEPT !.status = "ok", !.backend = "cpu", !.selected_gpu = -1,
                                       !.result = "cpu"]
      BY <1>0, <1>7, Zenon DEF RunOnCpu, TypeOK, Response
    <2>4. /\ response'[t].status = "ok" /\ response'[t].backend = "cpu"
          /\ response'[t].selected_gpu = -1 /\ response'[t].result = "cpu"
          /\ response'[t].fell_back_to_cpu = reply.fell_back_to_cpu
      BY <1>0, <2>3, Zenon DEF Response
    <2>5. reply.fell_back_to_cpu \/ ran'[t] = {"cpu"}
      BY <2>1, <2>2, EmptyResponse, Zenon
    <2>6. HonestReply(req[t], response'[t], ran'[t])
      BY <2>1, <2>4, <2>5, Zenon DEF HonestReply
    <2>7. QED
      BY <2>1, <2>2, <2>6, Zenon DEF Told
  <1>8. CASE RunOnNpu(t)
    <2>1. pc[t] = "npu" /\ ran'[t] = {"npu"} /\ req[t].kind = "compute"
      BY <1>8, Zenon DEF RunOnNpu, TypeOK, Dispatched
    <2>2. reply = NoResponse /\ validate_request(req[t])
      BY <1>0, <2>1, Zenon DEF Told
    <2>3. ASSUME pc'[t] = "reply",
                 response' = [response EXCEPT ![t].status = "ok", ![t].backend = "npu",
                                              ![t].result = "npu"]
          PROVE  told
      <3>1. response'[t] = [NoResponse EXCEPT !.status = "ok", !.backend = "npu", !.result = "npu"]
        BY <2>2, <2>3, NoResponseTyped, Zenon DEF TypeOK, Response
      <3>2. /\ response'[t].status = "ok" /\ response'[t].backend = "npu"
            /\ response'[t].selected_gpu = -1 /\ response'[t].result = "npu"
            /\ response'[t].fell_back_to_cpu = FALSE
        BY <3>1, Zenon DEF NoResponse
      <3>3. HonestReply(req[t], response'[t], ran'[t])
        BY <2>1, <3>2, Zenon DEF HonestReply
      <3>4. QED
        BY <2>2, <2>3, <3>3, Zenon DEF Told
    <2>4. ASSUME FallBackOrFail(t, [NoResponse EXCEPT !.status = "error", !.backend = "npu"])
          PROVE  told
      <3> DEFINE failed == [NoResponse EXCEPT !.status = "error", !.backend = "npu"]
      <3>1. failed \in Response /\ failed.status = "error" /\ failed.result = "none"
        BY NoResponseTyped, EmptyResponse, Literals, Zenon DEF Response
      <3>2. FallBackOrFail(t, failed)
        BY <2>4, Zenon
      <3> HIDE DEF failed
      <3>3. QED
        BY <2>2, <3>1, <3>2, ToldOfFailure, Zenon
    <2>5. QED
      BY <1>8, <2>3, <2>4, Zenon DEF RunOnNpu, Goto, TypeOK
  <1>9. CASE get_or_assign_client_id(t) \/ assign_home(t)
    <2>1. /\ pc[t] \in {"client", "assign"} /\ pc'[t] \in {"assign", "place"}
          /\ response'[t] = reply
      BY <1>9, Zenon DEF get_or_assign_client_id, assign_home, Goto, TypeOK
    <2>2. QED
      BY <1>0, <2>1, Zenon DEF Told
  <1>10. CASE PlaceHome(t) \/ PlacePeer(t) \/ PlaceScan(t)
    <2>1. pc[t] \in {"place", "peer", "scan"}
      BY <1>10, Zenon DEF PlaceHome, PlacePeer, PlaceScan
    <2>2. reply = NoResponse /\ validate_request(req[t])
      BY <1>0, <2>1, Zenon DEF Told
    <2>3. \/ \E g \in Gpus : Placed(t, g)
          \/ pc'[t] \in {"peer", "scan"} /\ response'[t] = reply
      <3>1. CASE PlaceHome(t)
        <4> DEFINE known == local[t].client \in DOMAIN affinity
                   home == IF known THEN affinity[local[t].client] ELSE rr_counter % NumGpus
        <4>1. home \in Gpus
          BY RoundRobin, Zenon DEF TypeOK
        <4>2. \/ Placed(t, home)
              \/ pc'[t] \in {"peer", "scan"} /\ response'[t] = reply
          BY <3>1, Zenon DEF PlaceHome, Goto, TypeOK
        <4> HIDE DEF home
        <4>3. QED
          BY <4>1, <4>2, Zenon
      <3>2. CASE PlacePeer(t)
        BY <3>2, Zenon DEF PlacePeer, Goto, TypeOK
      <3>3. CASE PlaceScan(t)
        <4>1. /\ local[t].i \in Gpus /\ local[t].best \in Gpus /\ pc[t] = "scan"
          BY <3>3, Zenon DEF PlaceScan, TypeOK, Local
        <4>2. \/ \E g \in {local[t].i, local[t].best} : Placed(t, g)
              \/ pc'[t] = pc[t] /\ response'[t] = reply
          BY <3>3, Zenon DEF PlaceScan
        <4>3. QED
          BY <4>1, <4>2, Zenon
      <3>4. QED
        BY <1>10, <3>1, <3>2, <3>3, Zenon
    <2>4. QED
      BY <2>2, <2>3, ToldOfPlaced, Zenon DEF Told
  <1>11. CASE AdmitToGpu(t)
    <2>1. pc[t] = "admit"
      BY <1>11, Zenon DEF AdmitToGpu
    <2>2. /\ reply.result = "none" /\ validate_request(req[t])
          /\ reply.status = "none" /\ reply.backend = "gpu" /\ ~reply.fell_back_to_cpu
      BY <1>0, <2>1, Zenon DEF Told
    <2>3. CASE pc'[t] = "gpu" /\ response'[t] = reply
      BY <2>2, <2>3, Zenon DEF Told
    <2>4. CASE FallBackOrFail(t, [reply EXCEPT !.status = "rejected"])
      <3> DEFINE failed == [reply EXCEPT !.status = "rejected"]
      <3>1. failed \in Response /\ failed.status = "rejected" /\ failed.result = "none"
        BY <1>0, <2>2, Literals, Zenon DEF Response
      <3>2. FallBackOrFail(t, failed)
        BY <2>4, Zenon
      <3> HIDE DEF failed
      <3>3. QED
        BY <2>2, <3>1, <3>2, ToldOfFailure, Zenon
    <2>5. QED
      BY <1>11, <2>3, <2>4, Zenon DEF AdmitToGpu, Goto, TypeOK
  <1>12. CASE FinishOnGpu(t)
    <2>1. pc[t] = "gpu" /\ ran'[t] = {"gpu"} /\ reply.selected_gpu \in Gpus
      BY <1>12, Zenon DEF FinishOnGpu, Dispatched, TypeOK
    <2>2. /\ reply.result = "none" /\ validate_request(req[t])
          /\ reply.backend = "gpu" /\ ~reply.fell_back_to_cpu
      BY <1>0, <2>1, Zenon DEF Told
    <2>3. ASSUME pc'[t] = "reply",
                 response' = [response EXCEPT ![t].status = "ok", ![t].result = "gpu"]
          PROVE  told
      <3>1. response'[t] = [reply EXCEPT !.status = "ok", !.result = "gpu"]
        BY <1>0, <2>3, Zenon DEF TypeOK, Response
      <3>2. /\ response'[t].status = "ok" /\ response'[t].backend = "gpu"
            /\ response'[t].selected_gpu = reply.selected_gpu /\ response'[t].result = "gpu"
            /\ response'[t].fell_back_to_cpu = reply.fell_back_to_cpu
        BY <1>0, <2>2, <3>1, Zenon DEF Response
      <3>3. reply.selected_gpu # -1
        BY <2>1, GpuZero
      <3>4. HonestReply(req[t], response'[t], ran'[t])
        BY <2>1, <2>2, <3>2, <3>3, Zenon DEF HonestReply
      <3>5. QED
        BY <2>2, <2>3, <3>4, Zenon DEF Told
    <2>4. CASE FallBackOrFail(t, [reply EXCEPT !.status = "error"])
      <3> DEFINE failed == [reply EXCEPT !.status = "error"]
      <3>1. failed \in Response /\ failed.status = "error" /\ failed.result = "none"
        BY <1>0, <2>2, Literals, Zenon DEF Response
      <3>2. FallBackOrFail(t, failed)
        BY <2>4, Zenon
      <3> HIDE DEF failed
      <3>3. QED
        BY <2>2, <3>1, <3>2, ToldOfFailure, Zenon
    <2>5. QED
      BY <1>12, <2>3, <2>4, Zenon DEF FinishOnGpu, Goto, TypeOK
  <1>13. QED
    BY <1>1, <1>2, <1>3, <1>4, <1>5, <1>6, <1>7, <1>8, <1>9, <1>10, <1>11, <1>12, Zenon DEF
       handle_request

(* Nor does another thread's step touch its response.                      *)
LEMMA StepTold == TypeOK /\ Dispatched /\ AllTold /\ [Next]_vars => AllTold'
  <1> SUFFICES ASSUME TypeOK, Dispatched, AllTold, [Next]_vars PROVE AllTold'
    OBVIOUS
  <1>1. CASE UNCHANGED vars
    BY <1>1, Zenon DEF AllTold, vars
  <1>2. ASSUME NEW t \in Threads, handle_request(t) PROVE AllTold'
    <2>1. /\ \A u \in Threads \ {t} :
               pc'[u] = pc[u] /\ response'[u] = response[u] /\ ran'[u] = ran[u]
          /\ UNCHANGED req
      BY <1>2, OthersUntouched, Zenon
    <2>2. Told(req[t], pc'[t], response'[t], ran'[t])
      BY <1>2, OwnStepTold, Zenon
    <2>3. QED
      BY <2>1, <2>2, Zenon DEF AllTold
  <1>3. QED
    BY <1>1, <1>2, Zenon DEF Next, Done

(* Every reply says what happened, whatever the workload, the topology and *)
(* the limits: a success names the backend that ran the task and carries   *)
(* its output, a fallback is admitted, a failure or a timeout carries no   *)
(* computed result, and a request that is not valid ran nowhere.           *)
THEOREM RepliesAreHonest == Spec => []ReplyIsHonest
  <1>1. Init => AllTold
    BY Zenon DEF Init, AllTold, Told
  <1>2. AllTold => ReplyIsHonest
    <2> SUFFICES ASSUME AllTold, NEW t \in Threads, pc[t] = "done"
                 PROVE  /\ response[t].status # "none"
                        /\ response[t].status \in {"rejected", "error"} =>
                             response[t].result \in {"none", "wasm"}
                        /\ response[t].status = "timeout" => response[t].result = "none"
                        /\ response[t].result = "wasm" => req[t].kind \in {"wasm", "prepare"}
                        /\ ~validate_request(req[t]) =>
                             response[t].status = "rejected" /\ ran[t] = {}
                        /\ response[t].status = "ok" /\ req[t].kind = "compute" =>
                             /\ response[t].result = response[t].backend
                             /\ response[t].backend \in ran[t]
                             /\ (response[t].selected_gpu # -1) <=> (response[t].backend = "gpu")
                             /\ response[t].backend # "cpu" => ~response[t].fell_back_to_cpu
                             /\ Cardinality(ran[t]) = 2 => response[t].fell_back_to_cpu
      BY Zenon DEF ReplyIsHonest
    <2>1. Told(req[t], "done", response[t], ran[t])
      BY Zenon DEF AllTold
    <2>2. CASE HonestReply(req[t], response[t], ran[t]) /\ validate_request(req[t])
      <3>1. Cardinality({response[t].backend}) = 1
        BY FS_Singleton, Zenon
      <3>2. QED
        BY <2>2, <3>1 DEF HonestReply
    <2>3. QED
      BY <2>1, <2>2, Zenon DEF Told
  <1>3. QED
    BY <1>1, <1>2, Typed, InitDispatched, StepDispatched, StepTold, PTL DEF Spec
=============================================================================
