---------------------------- MODULE WasmSandbox ----------------------------
(***************************************************************************)
(* The WASM module manager (WasmSandboxManager in wasm_sandbox.cpp): the   *)
(* table of registered module versions, their leases, and the tasks that   *)
(* run on them.  Every handler holds mutex_ from its first to its last     *)
(* access to the table, so a handler is one action; handle_task takes the  *)
(* mutex twice, with the computation outside it, and is two actions, which *)
(* the steps of every other thread may separate.                           *)
(***************************************************************************)
EXTENDS Integers, Sequences, FiniteSets

CONSTANTS
    Identities,   \* the <<sandbox, module, version>> triples requests name
    Threads,      \* the responder threads that run handle_task
    TargetGpus,   \* the values of target_gpu in prepare requests
    SelectorGpus, \* what gpu_selector_ can return (the placer's choices)
    MaxLease      \* bound: the number of leases handed out

(* Names are sequences of characters, so that make_key can be written as   *)
(* the concatenation it is.                                                *)
ASSUME WasmAssumption ==
    /\ IsFiniteSet(Threads)
    /\ TargetGpus \subseteq Int
    /\ SelectorGpus \subseteq Int
    /\ SelectorGpus # {}
    /\ MaxLease \in Nat

VARIABLES
    modules,        \* modules_: key -> record; an absent key is NoModule
    force_cpu,      \* force_cpu_
    has_selector,   \* gpu_selector_ is set
    next_lease_id,  \* next_lease_id_
    task_pc,        \* per thread: outside handle_task, or computing in it
    task,           \* per thread: the key and GPU handle_task captured, and
                    \* (for the properties only) the lease it was admitted to
    reply           \* the last reply given by any handler

sandboxVars == <<modules, force_cpu, has_selector, next_lease_id, task_pc, task, reply>>

make_key(id) == id[1] \o <<":">> \o id[2] \o <<":">> \o id[3]

Keys == {make_key(id) : id \in Identities}

ModuleStates == {"Unknown", "Prepared", "Active", "Draining", "Stopped"}

NoModule == [state |-> "Unknown", assigned_gpu |-> -1, lease |-> 0, active_tasks |-> 0]

NoTask == [key |-> <<>>, gpu |-> -1, lease |-> 0]

(* A reply: which handler answered, for which key, what the request carried *)
(* as its ack_token (a lease, 0 for none), and the fields callers act on.   *)
Reply(call, key, token, status, rec) ==
    [call |-> call, key |-> key, token |-> token, status |-> status,
     state |-> rec.state, gpu |-> rec.assigned_gpu, lease |-> rec.lease]

Registered(k) == modules[k].state # "Unknown"
-----------------------------------------------------------------------------
SandboxInit ==
    /\ modules = [k \in Keys |-> NoModule]
    /\ force_cpu \in BOOLEAN /\ has_selector \in BOOLEAN
    /\ next_lease_id = 1
    /\ task_pc = [t \in Threads |-> "idle"]
    /\ task = [t \in Threads |-> NoTask]
    /\ reply = Reply("none", <<>>, 0, "none", NoModule)

(* set_force_cpu: the mode may change under live records. *)
SetForceCpu(b) ==
    /\ force_cpu' = b
    /\ UNCHANGED <<modules, has_selector, next_lease_id, task_pc, task, reply>>

(* set_gpu_selector: so may the selector, which may be null. *)
SetGpuSelector(b) ==
    /\ has_selector' = b
    /\ UNCHANGED <<modules, force_cpu, next_lease_id, task_pc, task, reply>>

(* The GPU a new record gets: an explicit target wins, then the CPU mode,  *)
(* then the selector, if there is one.                                     *)
AssignedGpus(target_gpu) ==
    IF target_gpu >= 0 THEN {target_gpu}
    ELSE IF force_cpu \/ ~has_selector THEN {-1} ELSE SelectorGpus

PrepareRejected(id) ==
    /\ \E i \in 1..3 : id[i] = <<>>
    /\ reply' = Reply("prepare", make_key(id), 0, "Rejected", NoModule)
    /\ UNCHANGED <<modules, next_lease_id>>

PrepareExisting(id) ==
    LET k == make_key(id) IN
    /\ \A i \in 1..3 : id[i] # <<>>
    /\ modules[k].state \in {"Prepared", "Active"}
    /\ reply' = Reply("prepare", k, 0, "Ok", modules[k])
    /\ UNCHANGED <<modules, next_lease_id>>

PrepareBusy(id) ==
    LET k == make_key(id) IN
    /\ \A i \in 1..3 : id[i] # <<>>
    /\ modules[k].state \in {"Draining", "Stopped"}
    /\ reply' = Reply("prepare", k, 0, "Busy", [NoModule EXCEPT !.state = modules[k].state])
    /\ UNCHANGED <<modules, next_lease_id>>

PrepareNew(id, target_gpu) ==
    LET k == make_key(id) IN
    /\ \A i \in 1..3 : id[i] # <<>>
    /\ ~Registered(k)
    /\ next_lease_id <= MaxLease
    /\ \E gpu \in AssignedGpus(target_gpu) :
         LET rec == [state |-> "Prepared", assigned_gpu |-> gpu,
                     lease |-> next_lease_id, active_tasks |-> 0]
         IN  /\ modules' = [modules EXCEPT ![k] = rec]
             /\ reply' = Reply("prepare", k, 0, "Ok", rec)
    /\ next_lease_id' = next_lease_id + 1

prepare_module(id, target_gpu) ==
    /\ \/ PrepareRejected(id)
       \/ PrepareExisting(id)
       \/ PrepareBusy(id)
       \/ PrepareNew(id, target_gpu)
    /\ UNCHANGED <<force_cpu, has_selector, task_pc, task>>

(* A request that names a key the table does not hold. *)
NotFound(call, k, token) ==
    /\ ~Registered(k)
    /\ reply' = Reply(call, k, token, "NotFound", NoModule)
    /\ UNCHANGED modules

drained(rec) == IF rec.active_tasks = 0 THEN "Stopped" ELSE "Draining"

drain_module(id) ==
    LET k == make_key(id)
        rec == [modules[k] EXCEPT !.state = drained(modules[k])]
    IN  /\ \/ NotFound("drain", k, 0)
           \/ /\ Registered(k)
              /\ modules' = [modules EXCEPT ![k] = rec]
              /\ reply' = Reply("drain", k, 0, "Ok", rec)
        /\ UNCHANGED <<force_cpu, has_selector, next_lease_id, task_pc, task>>

Mutant_release_any_time(rec) == TRUE

may_release(rec) == rec.active_tasks = 0

(* The request's ack_token is decoded but never compared with the record's *)
(* lease, and the record's state is not examined.                          *)
release_module(id, ack_token) ==
    LET k == make_key(id)
    IN  /\ \/ NotFound("release", k, ack_token)
           \/ /\ Registered(k)
              /\ ~may_release(modules[k])
              /\ reply' = Reply("release", k, ack_token, "Busy", modules[k])
              /\ UNCHANGED modules
           \/ /\ Registered(k)
              /\ may_release(modules[k])
              /\ modules' = [modules EXCEPT ![k] = NoModule]
              /\ reply' = Reply("release", k, ack_token, "Ok",
                                [modules[k] EXCEPT !.state = "Released"])
        /\ UNCHANGED <<force_cpu, has_selector, next_lease_id, task_pc, task>>

query_module(id) ==
    LET k == make_key(id)
    IN  /\ \/ NotFound("query", k, 0)
           \/ /\ Registered(k)
              /\ reply' = Reply("query", k, 0, "Ok", modules[k])
              /\ UNCHANGED modules
        /\ UNCHANGED <<force_cpu, has_selector, next_lease_id, task_pc, task>>

(* handle_task up to the release of the mutex: a task that is turned away. *)
RefuseTask(t, id) ==
    LET k == make_key(id) IN
    /\ task_pc[t] = "idle"
    /\ \/ NotFound("task", k, 0)
       \/ /\ modules[k].state = "Draining"
          /\ reply' = Reply("task", k, 0, "ModuleDraining", NoModule)
          /\ UNCHANGED modules
       \/ /\ modules[k].state = "Stopped"
          /\ reply' = Reply("task", k, 0, "Rejected", NoModule)
          /\ UNCHANGED modules
    /\ UNCHANGED <<force_cpu, has_selector, next_lease_id, task_pc, task>>

Mutant_admit_while_draining(rec) == rec.state \in {"Prepared", "Active", "Draining"}

takes_tasks(rec) == rec.state \in {"Prepared", "Active"}

(* handle_task up to the release of the mutex: a task that is admitted. *)
AdmitTask(t, id) ==
    LET k == make_key(id) IN
    /\ task_pc[t] = "idle"
    /\ takes_tasks(modules[k])
    /\ modules' = [modules EXCEPT ![k].state = "Active", ![k].active_tasks = @ + 1]
    /\ task_pc' = [task_pc EXCEPT ![t] = "compute"]
    /\ task' = [task EXCEPT ![t] = [key |-> k, gpu |-> modules[k].assigned_gpu,
                                    lease |-> modules[k].lease]]
    /\ UNCHANGED <<force_cpu, has_selector, next_lease_id, reply>>

Mutant_finish_skips_decrement(rec) == rec

Mutant_finish_keeps_draining(rec) == [rec EXCEPT !.active_tasks = @ - 1]

finished(rec) ==
    LET left == IF rec.active_tasks > 0 THEN rec.active_tasks - 1 ELSE 0
    IN  [rec EXCEPT !.active_tasks = left,
                    !.state = IF @ = "Draining" /\ left = 0 THEN "Stopped" ELSE @]

(* handle_task after the computation, which succeeded or threw: the table  *)
(* is searched again by key.                                               *)
FinishTask(t) ==
    LET k == task[t].key
    IN  /\ task_pc[t] = "compute"
        /\ modules' = IF Registered(k) THEN [modules EXCEPT ![k] = finished(modules[k])] ELSE modules
        /\ task_pc' = [task_pc EXCEPT ![t] = "idle"]
        /\ task' = [task EXCEPT ![t] = NoTask]
        /\ \E status \in {"Ok", "Error"} :
             reply' = Reply("task", k, 0, status, [NoModule EXCEPT !.assigned_gpu = task[t].gpu])
        /\ UNCHANGED <<force_cpu, has_selector, next_lease_id>>

(* handle_lifecycle and handle_task: any request at any time, so a retry   *)
(* or a delayed duplicate of an earlier request is among them.  A release  *)
(* carries no token (0) or one that some prepare returned.                 *)
SandboxNext ==
    \/ \E b \in BOOLEAN : SetForceCpu(b) \/ SetGpuSelector(b)
    \/ \E id \in Identities :
         \/ \E target \in TargetGpus : prepare_module(id, target)
         \/ drain_module(id)
         \/ \E token \in 0..(next_lease_id - 1) : release_module(id, token)
         \/ query_module(id)
    \/ \E t \in Threads, id \in Identities : RefuseTask(t, id) \/ AdmitTask(t, id)
    \/ \E t \in Threads : FinishTask(t)

(* A computation returns, and a thread that waits for mutex_ gets it. *)
SandboxFairness == \A t \in Threads : WF_sandboxVars(FinishTask(t))

SandboxSpec == SandboxInit /\ [][SandboxNext]_sandboxVars

FairSandboxSpec == SandboxSpec /\ SandboxFairness
-----------------------------------------------------------------------------
(* The type of the manager's state. *)
ModuleRecord ==
    [state : ModuleStates, assigned_gpu : Int, lease : Nat, active_tasks : Nat]

TypeOK ==
    /\ modules \in [Keys -> ModuleRecord]
    /\ force_cpu \in BOOLEAN /\ has_selector \in BOOLEAN
    /\ next_lease_id \in Nat
    /\ task_pc \in [Threads -> {"idle", "compute"}]
    /\ task \in [Threads -> [key : Keys \cup {<<>>}, gpu : Int, lease : Nat]]
    /\ \A t \in Threads : task_pc[t] = "compute" => task[t].key \in Keys

(* The threads whose task runs on the module version with key k. *)
InFlight(k) == {t \in Threads : task_pc[t] = "compute" /\ task[t].key = k}

(* The counter active_tasks of every record is exactly the number of       *)
(* handle_task calls between their two critical sections on that key,      *)
(* whatever mix of refusals, failures, drains and releases came between.   *)
ActiveTasksExact ==
    \A k \in Keys : modules[k].active_tasks = Cardinality(InFlight(k))

(* A running task's record is still the one that admitted it, under the    *)
(* same lease and GPU: the second lookup by key in handle_task never finds *)
(* the record missing, nor a later registration that reuses the key.       *)
TaskKeepsItsLease ==
    \A t \in Threads :
        task_pc[t] = "compute" =>
            LET rec == modules[task[t].key] IN
            /\ rec.state \in {"Active", "Draining"}
            /\ rec.lease = task[t].lease
            /\ rec.assigned_gpu = task[t].gpu

(* A module version that reports Stopped has no task left, and one that    *)
(* reports Draining still has one, so Draining always ends by itself.      *)
StoppedMeansQuiet ==
    \A k \in Keys :
        /\ modules[k].state = "Stopped" => InFlight(k) = {}
        /\ modules[k].state = "Draining" => InFlight(k) # {}

(* A version once drained never takes a task again under the same lease:   *)
(* neither a retried prepare nor a late task brings it back.               *)
NoRevival ==
    [][\A k \in Keys :
          /\ modules[k].state \in {"Draining", "Stopped"}
          /\ modules'[k].state \in {"Prepared", "Active"}
          => modules'[k].lease # modules[k].lease]_sandboxVars

(* Under terminating computations a drained version reaches Stopped (or    *)
(* was already released) without any further request.                      *)
DrainCompletes ==
    \A k \in Keys :
        modules[k].state = "Draining" ~> modules[k].state \in {"Stopped", "Unknown"}

-----------------------------------------------------------------------------
(* The manager implements its contract: the counters, states and leases    *)
(* behave as the sets of running tasks of WasmLease.                       *)
PhaseOf(state) ==
    CASE state = "Unknown" -> "absent"
      [] state \in {"Prepared", "Active"} -> "open"
      [] state = "Draining" -> "closing"
      [] OTHER -> "closed"

Lease == INSTANCE WasmLease WITH
            phase <- [k \in Keys |-> PhaseOf(modules[k].state)],
            running <- [k \in Keys |-> InFlight(k)]

(* Every step of the manager is a step its callers were promised. *)
LeaseContract == Lease!LeaseSpec
=============================================================================
