--------------------------- MODULE MCBrokerService ---------------------------
(* Instances of BrokerService for TLC. *)
EXTENDS BrokerService

CONSTANTS t1, t2, t3

MCThreads == {t1, t2, t3}

Config(default, force, npu) ==
    [default_backend |-> default, force_cpu |-> force, gpu_available |-> ~force,
     npu_enabled |-> npu, simulated_latency |-> FALSE,
     gpu_offload_threshold_bytes |-> 2, gpu_offload_threshold_flops |-> 0]

Request(source, kind, profile) ==
    [source |-> source, kind |-> kind, profile |-> profile, device_preference |-> "",
     bytes |-> 1, packed |-> TRUE, named |-> TRUE, timeout_ms |-> 1,
     assigned_gpu |-> -1]

Parallel(safe) ==
    [DefaultProfile EXCEPT !.is_data_parallel = TRUE, !.estimated_bytes = 2,
                           !.fallback_safe = safe]

(* Contention: every request needs a GPU, from two sources, or a home for  *)
(* a WASM module.                                                          *)
GpuRequests ==
    { Request("a", "compute", Parallel(TRUE)), Request("b", "compute", Parallel(FALSE)),
      Request("a", "prepare", NoProfile), Request("b", "wasm", NoProfile) }

GpuWorkloads == [config : {Config("cpu", FALSE, FALSE)}, req : [MCThreads -> GpuRequests]]

(* GPU 0 and 1 are each other's best peer; a third is not linked. *)
MCPeer == [g \in Gpus |-> CASE g = 0 -> 1 [] g = 1 -> 0 [] OTHER -> -1]

(* Dispatch: every kind of profile and preference under every policy. *)
DispatchRequests ==
    { Request("a", "compute", p) :
        p \in { [DefaultProfile EXCEPT
                   !.exact = e, !.accelerator_verified = v, !.is_inference = n,
                   !.is_data_parallel = d, !.estimated_bytes = b, !.fallback_safe = s] :
                   e, v, n, d, s \in BOOLEAN, b \in {1, 2} } }
    \cup
    { [Request("a", "compute", NoProfile) EXCEPT !.device_preference = p, !.bytes = b] :
        p \in {"", "cpu", "gpu", "npu"}, b \in {1, 2} }
    \cup
    { [Request("a", "compute", NoProfile) EXCEPT !.timeout_ms = ms] :
        ms \in {0, BROKER_MAX_TIMEOUT_MS, BROKER_MAX_TIMEOUT_MS + 1} }
    \cup
    { Request("a", "frame", NoProfile), [Request("a", "wasm", NoProfile) EXCEPT !.assigned_gpu = 1],
      Request("a", "prepare", NoProfile),
      [Request("a", "compute", NoProfile) EXCEPT !.packed = FALSE],
      [Request("a", "compute", NoProfile) EXCEPT !.named = FALSE],
      [Request("a", "compute", NoProfile) EXCEPT !.bytes = 3] }

DispatchConfigs ==
    { [Config(d, f, n) EXCEPT !.simulated_latency = l, !.gpu_offload_threshold_flops = k] :
        d \in BackendKind, f, n, l \in BOOLEAN, k \in {0, 1} }

(* One request of every shape, and two threads whose request is turned     *)
(* away at once.                                                           *)
DispatchWorkloads ==
    LET Refused == [Request("b", "compute", NoProfile) EXCEPT !.named = FALSE]
    IN  [config : DispatchConfigs,
         req : {[t \in MCThreads |-> IF t = t1 THEN r ELSE Refused] : r \in DispatchRequests}]

MCWorkloads == GpuWorkloads \cup DispatchWorkloads
=============================================================================
