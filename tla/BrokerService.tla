---------------------------- MODULE BrokerService ----------------------------
(***************************************************************************)
(* BrokerService::handle_request, run by one responder thread per request  *)
(* (broker_service.cpp), with the Placer it calls.  A step is a critical   *)
(* section or a computation; wasm_mutex (WasmSandboxManager::mutex_),      *)
(* client_mutex_ and affinity_mutex_ are held across steps and are         *)
(* explicit.  inflight_mutex_ is the innermost and no thread waits while   *)
(* it holds it, so a section under it is one step: the queue depths place  *)
(* reads one after another change between the readings.                    *)
(***************************************************************************)
EXTENDS BackendDispatch, FiniteSets

CONSTANTS
    Threads,               \* the responder threads, one request each
    Workloads,             \* [config, req]: what a service may be built with
                           \* and the requests its threads are handed
    NumGpus,               \* gpu_inflight_.size()
    Peer,                  \* GpuTopology::best_peer as a table, -1 for none
    backlog_threshold,     \* Placer::backlog_threshold_
    max_inflight_per_gpu,  \* BrokerServiceConfig::max_inflight_per_gpu
    max_payload_bytes,     \* ProtocolLimits::max_payload_bytes
    NoThread               \* the holder of a free mutex

Gpus == 0..(NumGpus - 1)

ASSUME ServiceAssumption ==
    /\ IsFiniteSet(Threads)
    /\ NoThread \notin Threads
    /\ NumGpus \in Nat \ {0}
    /\ Peer \in [Gpus -> Gpus \cup {-1}]
    /\ backlog_threshold \in Nat
    /\ max_inflight_per_gpu \in Nat
    /\ max_payload_bytes \in Nat
    /\ \A w \in Workloads : w.config.force_cpu \in BOOLEAN
    /\ \A w \in Workloads, t \in Threads : /\ w.req[t].assigned_gpu \in Int
                                          /\ w.req[t].profile \in TaskProfile \cup {NoProfile}

VARIABLES
    config,            \* config_ and use_gpu_placement_
    source_to_client,  \* source_to_client_: source -> client id
    next_client_id,    \* next_client_id_
    affinity,          \* Placer::affinity_: client id -> home GPU
    rr_counter,        \* Placer::rr_counter_
    gpu_inflight,      \* gpu_inflight_
    wasm_mutex, client_mutex, affinity_mutex,  \* the holder, or NoThread
    pc,                \* per thread: where in handle_request it is
    req,               \* per thread: its request
    local,             \* per thread: the locals of run_on_gpu and place
    response,          \* per thread: the response being built
    ran                \* per thread: the backends that started the task
                       \* (for the properties only)

shared == <<source_to_client, next_client_id, affinity, rr_counter, gpu_inflight>>
mutexes == <<wasm_mutex, client_mutex, affinity_mutex>>
vars == <<config, shared, mutexes, pc, req, local, response, ran>>

NoLocal == [client |-> 0, home |-> -1, home_depth |-> 0, i |-> 0, best |-> -1, best_depth |-> 0]

(* A response; result names the backend whose output it carries. *)
NoResponse ==
    [status |-> "none", backend |-> "cpu", selected_gpu |-> -1, fell_back_to_cpu |-> FALSE,
     result |-> "none"]

Goto(t, label) == pc' = [pc EXCEPT ![t] = label]

Init ==
    /\ \E w \in Workloads : config = w.config /\ req = w.req
    /\ source_to_client = [s \in {} |-> 0]
    /\ next_client_id = 1
    /\ affinity = [c \in {} |-> 0]
    /\ rr_counter = 0
    /\ gpu_inflight = [g \in Gpus |-> 0]
    /\ wasm_mutex = NoThread /\ client_mutex = NoThread /\ affinity_mutex = NoThread
    /\ pc = [t \in Threads |-> "new"]
    /\ local = [t \in Threads |-> NoLocal]
    /\ response = [t \in Threads |-> NoResponse]
    /\ ran = [t \in Threads |-> {}]
-----------------------------------------------------------------------------
BROKER_MAX_TIMEOUT_MS == 300000

(* named: task_id, source, destination and kind are all non-empty. *)
validate_request(r) ==
    /\ r.named
    /\ r.timeout_ms > 0 /\ r.timeout_ms <= BROKER_MAX_TIMEOUT_MS
    /\ r.bytes <= max_payload_bytes

(* Validation, and the simulated latency, which ends at the deadline.      *)
Validate(t) ==
    /\ pc[t] = "new"
    /\ \/ /\ ~validate_request(req[t])
          /\ response' = [response EXCEPT ![t].status = "rejected"]
          /\ Goto(t, "done")
       \/ /\ validate_request(req[t]) /\ config.simulated_latency
          /\ response' = [response EXCEPT ![t].status = "timeout"]
          /\ Goto(t, "done")
       \/ /\ validate_request(req[t])
          /\ Goto(t, "dispatch")
          /\ UNCHANGED response
    /\ UNCHANGED <<config, shared, mutexes, req, local, ran>>

Mutant_timeout_keeps_result(r) == [r EXCEPT !.status = "timeout"]

late(r) == [r EXCEPT !.status = "timeout", !.result = "none"]

(* A result that is ready at or after the deadline is discarded. *)
finish_response(t) ==
    /\ pc[t] = "reply"
    /\ response' \in {response, [response EXCEPT ![t] = late(@)]}
    /\ Goto(t, "done")
    /\ UNCHANGED <<config, shared, mutexes, req, local, ran>>

(* Geospatial and media frames: one that does not decode is rejected, one  *)
(* that does is encoded again and echoed.                                  *)
HandleFrame(t) ==
    /\ pc[t] = "dispatch"
    /\ req[t].kind = "frame"
    /\ response' \in {[response EXCEPT ![t] = r] :
            r \in { [NoResponse EXCEPT !.status = "ok", !.result = "echo"],
                    [NoResponse EXCEPT !.status = "rejected"],
                    [NoResponse EXCEPT !.status = "error"] }}
    /\ Goto(t, "reply")
    /\ UNCHANGED <<config, shared, mutexes, req, local, ran>>

(* The replies to a WASM request the manager answered with a GPU and a     *)
(* status: its encoded answer, whatever the status, or an error without    *)
(* one when it cannot be encoded.                                          *)
WasmReplies(gpu, statuses) ==
    { [NoResponse EXCEPT !.status = s, !.selected_gpu = gpu, !.result = "wasm"] : s \in statuses }
    \cup { [NoResponse EXCEPT !.status = "error"] }

(* A WASM task, or a lifecycle request that needs no placement: it is      *)
(* rejected if it does not decode, else the manager answers with what its  *)
(* record holds (assigned_gpu: the GPU of the module the request is about, *)
(* or -1), under its mutex for the time of a table access.                 *)
HandleWasm(t) ==
    /\ pc[t] = "dispatch"
    /\ req[t].kind = "wasm"
    /\ \/ response' = [response EXCEPT ![t].status = "rejected"]
       \/ /\ wasm_mutex = NoThread
          /\ \E r \in WasmReplies(req[t].assigned_gpu, {"ok", "rejected", "error"}) :
               response' = [response EXCEPT ![t] = r]
    /\ Goto(t, "reply")
    /\ UNCHANGED <<config, shared, mutexes, req, local, ran>>

(* prepare_module of a module the manager does not hold: it asks the       *)
(* selector for a GPU with its mutex held, unless there is no selector.    *)
WasmPrepare(t) ==
    /\ pc[t] = "dispatch"
    /\ req[t].kind = "prepare"
    /\ wasm_mutex = NoThread
    /\ IF config.gpu_available
       THEN /\ wasm_mutex' = t
            /\ Goto(t, "client")
            /\ UNCHANGED response
       ELSE /\ \E r \in WasmReplies(-1, {"ok"}) : response' = [response EXCEPT ![t] = r]
            /\ Goto(t, "reply")
            /\ UNCHANGED wasm_mutex
    /\ UNCHANGED <<config, shared, client_mutex, affinity_mutex, req, local, ran>>

(* The inference path: pick a backend, then decode the payload. *)
SelectBackend(t, npu_now) ==
    LET backend == select_backend(PolicyFor(config, npu_now, req[t]), effective_profile(req[t]))
    IN  /\ pc[t] = "dispatch"
        /\ req[t].kind = "compute"
        /\ IF ~req[t].packed
           THEN /\ response' = [response EXCEPT ![t].status = "error"]
                /\ Goto(t, "reply")
           ELSE /\ Goto(t, IF backend = "gpu" THEN "client" ELSE backend)
                /\ UNCHANGED response
        /\ UNCHANGED <<config, shared, mutexes, req, local, ran>>

(* The CPU baseline, also the fallback of a failed accelerator. *)
RunOnCpu(t) ==
    /\ pc[t] = "cpu"
    /\ ran' = [ran EXCEPT ![t] = @ \cup {"cpu"}]
    /\ response' = [response EXCEPT ![t].status = "ok", ![t].backend = "cpu",
                                    ![t].selected_gpu = -1, ![t].result = "cpu"]
    /\ Goto(t, "reply")
    /\ UNCHANGED <<config, shared, mutexes, req, local>>

Mutant_fall_back_always(t, failed) == <<"cpu", [NoResponse EXCEPT !.fell_back_to_cpu = TRUE]>>

Mutant_retry_accelerator(t, failed) ==
    IF fallback_safe(req[t]) THEN <<IF failed.backend = "gpu" THEN "client" ELSE "npu", NoResponse>>
    ELSE <<"reply", failed>>

(* Where a failed accelerator leaves the request, and with what. *)
after_failure(t, failed) ==
    IF fallback_safe(req[t]) THEN <<"cpu", [NoResponse EXCEPT !.fell_back_to_cpu = TRUE]>>
    ELSE <<"reply", failed>>

FallBackOrFail(t, failed) ==
    /\ response' = [response EXCEPT ![t] = after_failure(t, failed)[2]]
    /\ Goto(t, after_failure(t, failed)[1])

RunOnNpu(t) ==
    /\ pc[t] = "npu"
    /\ ran' = [ran EXCEPT ![t] = @ \cup {"npu"}]
    /\ \/ /\ response' = [response EXCEPT ![t].status = "ok", ![t].backend = "npu",
                                          ![t].result = "npu"]
          /\ Goto(t, "reply")
       \/ FallBackOrFail(t, [NoResponse EXCEPT !.status = "error", !.backend = "npu"])
    /\ UNCHANGED <<config, shared, mutexes, req, local>>
-----------------------------------------------------------------------------
Mutant_register_unlocks_early(t) == NoThread

(* Who holds client_mutex_ until the placer knows a new client. *)
registrar(t) == t

(* get_or_assign_client_id: look the source up, or register it and take    *)
(* the next home of the round for it.                                      *)
get_or_assign_client_id(t) ==
    LET s == req[t].source
    IN  /\ pc[t] = "client"
        /\ client_mutex = NoThread
        /\ IF s \in DOMAIN source_to_client
           THEN /\ local' = [local EXCEPT ![t].client = source_to_client[s]]
                /\ Goto(t, "place")
                /\ UNCHANGED <<source_to_client, next_client_id, rr_counter, client_mutex>>
           ELSE /\ local' = [local EXCEPT ![t].client = next_client_id,
                                          ![t].home = rr_counter % NumGpus]
                /\ source_to_client' = [x \in DOMAIN source_to_client \cup {s} |->
                        IF x = s THEN next_client_id ELSE source_to_client[x]]
                /\ next_client_id' = next_client_id + 1
                /\ rr_counter' = rr_counter + 1
                /\ client_mutex' = registrar(t)
                /\ Goto(t, "assign")
        /\ UNCHANGED <<config, affinity, gpu_inflight, wasm_mutex, affinity_mutex, req,
                       response, ran>>

Mutant_every_home_moves(c, home) == [x \in DOMAIN affinity \cup {c} |-> home]

with_home(c, home) == [x \in DOMAIN affinity \cup {c} |-> IF x = c THEN home ELSE affinity[x]]

assign_home(t) ==
    /\ pc[t] = "assign"
    /\ affinity_mutex = NoThread
    /\ affinity' = with_home(local[t].client, local[t].home)
    /\ client_mutex' = NoThread
    /\ Goto(t, "place")
    /\ UNCHANGED <<config, source_to_client, next_client_id, rr_counter, gpu_inflight, wasm_mutex,
                   affinity_mutex, req, local, response, ran>>

(* place returns gpu: affinity_mutex_ is released, and so is the WASM      *)
(* manager's mutex when the selector was the caller.                       *)
Placed(t, gpu) ==
    /\ affinity_mutex' = NoThread
    /\ local' = [local EXCEPT ![t] = NoLocal]
    /\ IF req[t].kind = "prepare"
       THEN /\ wasm_mutex' = NoThread
            /\ \E r \in WasmReplies(gpu, {"ok"}) : response' = [response EXCEPT ![t] = r]
            /\ Goto(t, "reply")
       ELSE /\ response' = [response EXCEPT ![t].backend = "gpu", ![t].selected_gpu = gpu]
            /\ Goto(t, "admit")
            /\ UNCHANGED wasm_mutex
    /\ UNCHANGED client_mutex

(* place, tier 1: look the home up and read its depth. *)
PlaceHome(t) ==
    LET known == local[t].client \in DOMAIN affinity
        home == IF known THEN affinity[local[t].client] ELSE rr_counter % NumGpus
        depth == gpu_inflight[home]
    IN  /\ pc[t] = "place"
        /\ affinity_mutex = NoThread
        /\ rr_counter' = IF known THEN rr_counter ELSE rr_counter + 1
        /\ IF depth < backlog_threshold
           THEN Placed(t, home)
           ELSE /\ affinity_mutex' = t
                /\ local' = [local EXCEPT ![t].home = home, ![t].home_depth = depth,
                                          ![t].best = home, ![t].best_depth = depth]
                /\ Goto(t, IF Peer[home] >= 0 THEN "peer" ELSE "scan")
                /\ UNCHANGED <<wasm_mutex, client_mutex, response>>
        /\ UNCHANGED <<config, source_to_client, next_client_id, affinity, gpu_inflight, req, ran>>

(* Tier 2: the best peer, if its queue is short. *)
PlacePeer(t) ==
    LET peer == Peer[local[t].home]
    IN  /\ pc[t] = "peer"
        /\ IF gpu_inflight[peer] < backlog_threshold
           THEN Placed(t, peer)
           ELSE Goto(t, "scan") /\ UNCHANGED <<mutexes, local, response>>
        /\ UNCHANGED <<config, shared, req, ran>>

(* Tier 3: one round of the scan for the least loaded GPU. *)
PlaceScan(t) ==
    LET i == local[t].i
        depth == gpu_inflight[i]
        better == depth < local[t].best_depth
        best == IF better THEN i ELSE local[t].best
    IN  /\ pc[t] = "scan"
        /\ IF i + 1 = NumGpus
           THEN Placed(t, best)
           ELSE /\ local' = [local EXCEPT ![t].i = i + 1, ![t].best = best,
                                ![t].best_depth = IF better THEN depth ELSE @]
                /\ UNCHANGED <<mutexes, pc, response>>
        /\ UNCHANGED <<config, shared, req, ran>>
-----------------------------------------------------------------------------
Mutant_admit_off_by_one(g) == gpu_inflight[g] > max_inflight_per_gpu

at_capacity(g) == gpu_inflight[g] + 1 > max_inflight_per_gpu

(* run_on_gpu after place: the capacity is checked with the depth of now,  *)
(* not the one place saw.                                                  *)
AdmitToGpu(t) ==
    LET g == response[t].selected_gpu
    IN  /\ pc[t] = "admit"
        /\ IF at_capacity(g)
           THEN /\ FallBackOrFail(t, [response[t] EXCEPT !.status = "rejected"])
                /\ UNCHANGED <<gpu_inflight, ran>>
           ELSE /\ gpu_inflight' = [gpu_inflight EXCEPT ![g] = @ + 1]
                /\ ran' = [ran EXCEPT ![t] = @ \cup {"gpu"}]
                /\ Goto(t, "gpu")
                /\ UNCHANGED response
        /\ UNCHANGED <<config, source_to_client, next_client_id, affinity, rr_counter, mutexes,
                       req, local>>

Mutant_throw_keeps_slot(inflight, threw) == IF threw THEN inflight ELSE inflight - 1

given_back(inflight, threw) == IF inflight > 0 THEN inflight - 1 ELSE 0

(* The computation returned or threw; either way the slot is given back.   *)
FinishOnGpu(t) ==
    /\ pc[t] = "gpu"
    /\ \E threw \in BOOLEAN :
         /\ gpu_inflight' = [gpu_inflight EXCEPT ![response[t].selected_gpu] = given_back(@, threw)]
         /\ IF threw THEN FallBackOrFail(t, [response[t] EXCEPT !.status = "error"])
            ELSE /\ response' = [response EXCEPT ![t].status = "ok", ![t].result = "gpu"]
                 /\ Goto(t, "reply")
    /\ UNCHANGED <<config, source_to_client, next_client_id, affinity, rr_counter, mutexes, req,
                   local, ran>>

handle_request(t) ==
    \/ Validate(t) \/ HandleFrame(t) \/ HandleWasm(t) \/ WasmPrepare(t)
    \/ \E npu_now \in BOOLEAN : SelectBackend(t, npu_now)
    \/ RunOnCpu(t) \/ RunOnNpu(t)
    \/ get_or_assign_client_id(t) \/ assign_home(t)
    \/ PlaceHome(t) \/ PlacePeer(t) \/ PlaceScan(t)
    \/ AdmitToGpu(t) \/ FinishOnGpu(t)
    \/ finish_response(t)

(* Every request has been answered. *)
Done == (\A t \in Threads : pc[t] = "done") /\ UNCHANGED vars

Next == (\E t \in Threads : handle_request(t)) \/ Done

(* A thread that can take a step takes one: computations end, and a mutex  *)
(* that stays free is obtained.                                            *)
Fairness == \A t \in Threads : WF_vars(handle_request(t))

Spec == Init /\ [][Next]_vars

FairSpec == Spec /\ Fairness
-----------------------------------------------------------------------------
OnGpu(g) == {t \in Threads : pc[t] = "gpu" /\ response[t].selected_gpu = g}

(* gpu_inflight_ counts exactly the computations that run on each GPU:     *)
(* no rejection, exception or fallback leaks a slot or gives one back      *)
(* twice.                                                                  *)
InflightExact == \A g \in Gpus : gpu_inflight[g] = Cardinality(OnGpu(g))

(* However stale the depths were that place decided on, no GPU ever runs   *)
(* more than max_inflight_per_gpu computations.                            *)
GpuNeverOvercommitted == \A g \in Gpus : Cardinality(OnGpu(g)) <= max_inflight_per_gpu

(* A thread never reaches place before the placer knows its client: the    *)
(* client id becomes visible to other requests of the source only with its *)
(* home, so concurrent first requests of one source share one home and     *)
(* place never falls back to a throw-away one.  The registry and the       *)
(* placer grow by one entry for each source, not for each request.         *)
PlaceKnowsHome ==
    /\ \A t \in Threads :
         pc[t] = "place" => /\ req[t].source \in DOMAIN source_to_client
                            /\ local[t].client = source_to_client[req[t].source]
                            /\ local[t].client \in DOMAIN affinity
    /\ next_client_id = 1 + Cardinality(DOMAIN source_to_client)
    /\ \A s, z \in DOMAIN source_to_client : source_to_client[s] = source_to_client[z] => s = z
    /\ DOMAIN affinity \subseteq {source_to_client[s] : s \in DOMAIN source_to_client}

(* The home of a source never changes once it has one. *)
HomeIsSticky ==
    [][\A c \in DOMAIN affinity : c \in DOMAIN affinity' /\ affinity'[c] = affinity[c]]_vars

(* A request that may not be repeated is started on one backend at most,   *)
(* and one that must stay on the CPU on no other.                          *)
RunsWhereItMay ==
    \A t \in Threads :
        /\ ~fallback_safe(req[t]) => Cardinality(ran[t]) <= 1
        /\ config.force_cpu \/ profile_requires_cpu(req[t].profile)
           \/ (~req[t].profile.present /\ req[t].device_preference = "cpu")
           => ran[t] \subseteq {"cpu"}

(* What the reply says is what happened: an ok reply to a computation      *)
(* carries the output of the backend it names, which ran the task, names a *)
(* GPU exactly when that backend is the GPU, and admits a fallback.  Any   *)
(* other reply carries no result, except the answer of the WASM manager,   *)
(* which the deadline discards too.  A request that is not valid reaches   *)
(* no backend and is told so.                                              *)
ReplyIsHonest ==
    \A t \in Threads :
        LET r == response[t] IN
        pc[t] = "done" =>
            /\ r.status # "none"
            /\ r.status \in {"rejected", "error"} => r.result \in {"none", "wasm"}
            /\ r.status = "timeout" => r.result = "none"
            /\ r.result = "wasm" => req[t].kind \in {"wasm", "prepare"}
            /\ ~validate_request(req[t]) => r.status = "rejected" /\ ran[t] = {}
            /\ r.status = "ok" /\ req[t].kind = "compute" =>
                 /\ r.result = r.backend /\ r.backend \in ran[t]
                 /\ (r.selected_gpu # -1) <=> (r.backend = "gpu")
                 /\ r.backend # "cpu" => ~r.fell_back_to_cpu
                 /\ Cardinality(ran[t]) = 2 => r.fell_back_to_cpu

(* Every request is answered: no order of the three mutexes deadlocks, and *)
(* a GPU at capacity turns requests away instead of queueing them.         *)
EveryRequestAnswered == \A t \in Threads : <>(pc[t] = "done")
=============================================================================
