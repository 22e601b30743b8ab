--------------------------- MODULE BackendDispatch ---------------------------
(***************************************************************************)
(* Backend selection (backend_dispatch.h, and the derivation of a profile  *)
(* from the wire's device preference in BrokerService::handle_request).    *)
(* Pure operators; BrokerService dispatches with them.                     *)
(***************************************************************************)
EXTENDS Integers

BackendKind == {"cpu", "gpu", "npu"}

(* A TaskProfile.  exact stands for the three flags that have one effect:  *)
(* requires_exact_precision, verification_sensitive and cryptographic.     *)
TaskProfile ==
    [present : {TRUE}, exact : BOOLEAN, accelerator_verified : BOOLEAN,
     is_inference : BOOLEAN, is_data_parallel : BOOLEAN,
     estimated_bytes : Nat, estimated_flops : Nat, fallback_safe : BOOLEAN]

DefaultProfile ==
    [present |-> TRUE, exact |-> FALSE, accelerator_verified |-> FALSE,
     is_inference |-> FALSE, is_data_parallel |-> FALSE,
     estimated_bytes |-> 0, estimated_flops |-> 0, fallback_safe |-> FALSE]

NoProfile == [DefaultProfile EXCEPT !.present = FALSE]

profile_requires_cpu(p) == p.exact /\ ~p.accelerator_verified

big_enough(policy, p) ==
    \/ p.estimated_bytes >= policy.gpu_offload_threshold_bytes
    \/ /\ policy.gpu_offload_threshold_flops > 0
       /\ p.estimated_flops >= policy.gpu_offload_threshold_flops

select_backend(policy, p) ==
    IF policy.force_cpu THEN "cpu"
    ELSE IF ~p.present
         THEN IF policy.default_backend = "gpu" /\ policy.gpu_available THEN "gpu" ELSE "cpu"
    ELSE IF profile_requires_cpu(p) THEN "cpu"
    ELSE IF p.is_inference /\ policy.npu_available THEN "npu"
    ELSE IF p.is_data_parallel /\ policy.gpu_available /\ big_enough(policy, p) THEN "gpu"
    ELSE "cpu"

(* The profile a request is dispatched with: its own, or one its           *)
(* device_preference implies.                                              *)
effective_profile(r) ==
    IF r.profile.present THEN r.profile
    ELSE IF r.device_preference = "npu"
         THEN [DefaultProfile EXCEPT !.is_inference = TRUE, !.fallback_safe = TRUE,
                                     !.estimated_bytes = r.bytes]
    ELSE IF r.device_preference = "gpu"
         THEN [DefaultProfile EXCEPT !.is_data_parallel = TRUE, !.fallback_safe = TRUE,
                                     !.estimated_bytes = r.bytes]
    ELSE r.profile

fallback_safe(r) == effective_profile(r).present /\ effective_profile(r).fallback_safe

(* The policy of one request: the operator's configuration, whether the    *)
(* NPU executor reports itself available now, and an explicit "cpu".       *)
PolicyFor(config, npu_now, r) ==
    [default_backend |-> config.default_backend,
     gpu_offload_threshold_bytes |-> config.gpu_offload_threshold_bytes,
     gpu_offload_threshold_flops |-> config.gpu_offload_threshold_flops,
     force_cpu |-> config.force_cpu \/ (~r.profile.present /\ r.device_preference = "cpu"),
     gpu_available |-> config.gpu_available,
     npu_available |-> config.npu_enabled /\ npu_now]
=============================================================================
