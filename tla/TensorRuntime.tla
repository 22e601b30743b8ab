--------------------------- MODULE TensorRuntime ---------------------------
(***************************************************************************)
(* The tensor runtime server (gpu_runtime_server.cpp): handlers that load  *)
(* models and queue inferences, one worker per GPU that polls its stream   *)
(* lanes, and the table of models they share without a lock.  A tensor is  *)
(* its number of floats, an engine the sizes of its input and output.      *)
(***************************************************************************)
EXTENDS Integers, Sequences, FiniteSets

CONSTANTS
    Clients,      \* connections, one handler thread each
    NumGpus,      \* workers and queues
    NumLanes,     \* NUM_STREAMS_PER_GPU
    ModelIds,     \* the model ids clients use, positive
    Engines,      \* what a model file may be built into
    Loaders,      \* bound: the clients that send more than inferences
    MaxRequests,  \* bound: requests of each client
    NoClient

Gpus == 0..(NumGpus - 1)
Lanes == 0..(NumLanes - 1)

(* getModel's null pointer, and the context of a lane that has none. *)
NoEngine == [input |-> 0, output |-> 0]

ASSUME RuntimeAssumption ==
    /\ IsFiniteSet(Clients) /\ NoClient \notin Clients /\ Loaders \subseteq Clients
    /\ {NumGpus, NumLanes} \cup ModelIds \subseteq Nat \ {0}
    /\ Engines \subseteq [input : Nat \ {0}, output : Nat \ {0}]
    /\ MaxRequests \in [Clients -> Nat]

VARIABLES
    models,      \* ModelManager::models_
    queue,       \* the TaskQueue of each GPU: [client, model_id]
    lane,        \* the StreamLanes of each GPU
    at,          \* where each worker is in its two passes over the lanes
    rr_counter,  \* rr_counter (the bounds keep it far from 2^32)
    pc,          \* each handler: "read", "store", "get" or "closed"
    asked,       \* how many requests it has read
    built,       \* the engine it is storing: [model_id, engine]
    promise,     \* the promise of its task: -1, or the size of the result
    last,        \* the size of last_result_frame
    sequence_id, \* sequence_id
    sent         \* the packets of its inferences

work == <<queue, lane, at>>
stream == <<last, sequence_id, sent>>
handler == <<pc, asked, built, promise, stream>>
vars == <<models, work, rr_counter, handler>>

NothingBuilt == [model_id |-> 0, engine |-> NoEngine]

(* status: whether the work on the stream is still under way. *)
IdleLane ==
    [client |-> NoClient, active_model_id |-> 0, context |-> NoEngine, input_cap |-> 0,
     output_cap |-> 0, output_size |-> 0, in_flight |-> FALSE, status |-> "idle"]

Init ==
    /\ models = [m \in ModelIds |-> NoEngine]
    /\ queue = [g \in Gpus |-> <<>>]
    /\ lane = [g \in Gpus |-> [l \in Lanes |-> IdleLane]]
    /\ at = [g \in Gpus |-> 0]
    /\ rr_counter = 0
    /\ pc = [c \in Clients |-> "read"] /\ asked = [c \in Clients |-> 0]
    /\ built = [c \in Clients |-> NothingBuilt] /\ promise = [c \in Clients |-> -1]
    /\ last = [c \in Clients |-> 0] /\ sequence_id = [c \in Clients |-> 0]
    /\ sent = [c \in Clients |-> <<>>]
-----------------------------------------------------------------------------
Goto(c, label) == pc' = [pc EXCEPT ![c] = label]

Read(c) ==
    /\ pc[c] = "read" /\ asked[c] < MaxRequests[c]
    /\ asked' = [asked EXCEPT ![c] = @ + 1]

(* LOAD_MODEL up to the table: the file is built, or the client is told    *)
(* that it was not.                                                        *)
loadOnnxModel(c) ==
    /\ c \in Loaders /\ Read(c)
    /\ \/ /\ \E m \in ModelIds, e \in Engines :
               built' = [built EXCEPT ![c] = [model_id |-> m, engine |-> e]]
          /\ Goto(c, "store")
          /\ UNCHANGED sequence_id
       \/ /\ sequence_id' = [sequence_id EXCEPT ![c] = @ + 1]
          /\ UNCHANGED <<built, pc>>
    /\ UNCHANGED <<models, work, rr_counter, promise, last, sent>>

Storing(c) == pc[c] = "store"

(* The assignment to models_[model_id], and the answer.  No lock protects  *)
(* it: one of two concurrent insertions may be lost.                       *)
StoreModel(c) ==
    /\ Storing(c)
    /\ \/ models' = [models EXCEPT ![built[c].model_id] = built[c].engine]
       \/ (\E d \in Clients \ {c} : Storing(d)) /\ UNCHANGED models
    /\ built' = [built EXCEPT ![c] = NothingBuilt]
    /\ sequence_id' = [sequence_id EXCEPT ![c] = @ + 1]
    /\ Goto(c, "read")
    /\ UNCHANGED <<work, rr_counter, asked, promise, last, sent>>

(* What getModel may return: while an insertion is under way it races it   *)
(* and may also miss an entry or find the new one.                         *)
getModel(m) ==
    {models[m]}
    \cup UNION {{NoEngine} \cup (IF built[c].model_id = m THEN {built[c].engine} ELSE {}) :
                  c \in {d \in Clients : Storing(d)}}

(* EXECUTE_INFERENCE: the task goes to the queues in turn, and the handler *)
(* waits on its future.                                                    *)
PushInference(c) ==
    /\ Read(c)
    /\ \E m \in ModelIds :
         queue' = [queue EXCEPT ![rr_counter % NumGpus] =
                     Append(@, [client |-> c, model_id |-> m])]
    /\ rr_counter' = rr_counter + 1
    /\ Goto(c, "get")
    /\ UNCHANGED <<models, lane, at, built, promise, stream>>

(* UNLOAD_MODEL and any other opcode have no branch: no effect, no reply. *)
OtherOpcode(c) ==
    /\ c \in Loaders /\ Read(c)
    /\ UNCHANGED <<models, work, rr_counter, pc, built, promise, stream>>

(* The client has gone, or sent what is not a request. *)
Close(c) ==
    /\ pc[c] = "read"
    /\ Goto(c, "closed")
    /\ UNCHANGED <<models, work, rr_counter, asked, built, promise, stream>>

Mutant_delta_of_any_length(previous, size) == previous # 0

(* There is a result to subtract, and it is as long. *)
has_delta(previous, size) == previous # 0 /\ previous = size

(* future.get returned: the primary packet, and the delta if there is one. *)
Reply(c) ==
    LET size == promise[c]
        Packet(type) == [type |-> type, id |-> sequence_id[c], size |-> size]
    IN  /\ pc[c] = "get" /\ promise[c] >= 0
        /\ sent' = [sent EXCEPT ![c] = @ \o <<Packet("primary")>>
                      \o IF has_delta(last[c], size) THEN <<Packet("delta")>> ELSE <<>>]
        /\ last' = [last EXCEPT ![c] = size]
        /\ sequence_id' = [sequence_id EXCEPT ![c] = @ + 1]
        /\ promise' = [promise EXCEPT ![c] = -1]
        /\ Goto(c, "read")
        /\ UNCHANGED <<models, work, rr_counter, asked, built>>
-----------------------------------------------------------------------------
(* What the stream of a lane will answer: its work completes, or fails for *)
(* good.                                                                   *)
cudaStreamQuery(g, l) ==
    /\ lane[g][l].status = "busy"
    /\ \E status \in {"success", "error"} : lane' = [lane EXCEPT ![g][l].status = status]
    /\ UNCHANGED <<models, queue, at, rr_counter, handler>>

Mutant_first_lane_polled_once(g) ==
    at' = [at EXCEPT ![g] = IF @ + 1 = 2 * NumLanes THEN 1 ELSE @ + 1]

(* The worker goes on to the next lane, the next pass or the next round. *)
Advance(g) == at' = [at EXCEPT ![g] = (@ + 1) % (2 * NumLanes)]

Mutant_lane_stays_in_flight(ln) == [ln EXCEPT !.status = "idle"]

collected(ln) == [ln EXCEPT !.in_flight = FALSE, !.status = "idle", !.client = NoClient]

(* First pass of gpu_worker_thread: a lane whose stream has completed      *)
(* hands its output over and is free; one whose stream has failed is       *)
(* polled for ever.                                                        *)
PollLane(g) ==
    LET ln == lane[g][at[g]]
    IN  /\ at[g] < NumLanes
        /\ IF ln.in_flight /\ ln.status = "success"
           THEN /\ promise' = [promise EXCEPT ![ln.client] = ln.output_size]
                /\ lane' = [lane EXCEPT ![g][at[g]] = collected(@)]
           ELSE UNCHANGED <<promise, lane>>
        /\ Advance(g)
        /\ UNCHANGED <<models, queue, rr_counter, pc, asked, built, stream>>

Mutant_buffer_shrinks(cap, size) == size

(* A buffer is allocated anew only when it is too small. *)
capacity(cap, size) == IF cap < size THEN size ELSE cap

(* A lane with the task on it.  Its context is made anew only when the     *)
(* model id changes.                                                       *)
launched(ln, task, model) ==
    [ln EXCEPT
       !.client = task.client, !.in_flight = TRUE, !.status = "busy", !.output_size = model.output,
       !.active_model_id = task.model_id,
       !.context = IF ln.active_model_id # task.model_id \/ @ = NoEngine THEN model ELSE @,
       !.input_cap = capacity(@, model.input), !.output_cap = capacity(@, model.output)]

(* Second pass: a free lane takes the oldest task; one whose model is not  *)
(* loaded has an empty result at once.                                     *)
FillLane(g) ==
    LET l == at[g] - NumLanes
        task == Head(queue[g])
    IN  /\ at[g] >= NumLanes
        /\ IF lane[g][l].in_flight \/ queue[g] = <<>>
           THEN UNCHANGED <<queue, lane, promise>>
           ELSE /\ queue' = [queue EXCEPT ![g] = Tail(@)]
                /\ \E model \in getModel(task.model_id) :
                     \/ /\ model = NoEngine
                        /\ promise' = [promise EXCEPT ![task.client] = 0]
                        /\ UNCHANGED lane
                     \/ /\ model # NoEngine
                        /\ lane' = [lane EXCEPT ![g][l] = launched(@, task, model)]
                        /\ UNCHANGED promise
        /\ Advance(g)
        /\ UNCHANGED <<models, rr_counter, pc, asked, built, stream>>

gpu_worker_thread(g) == PollLane(g) \/ FillLane(g)

handle_client(c) ==
    \/ loadOnnxModel(c) \/ StoreModel(c) \/ PushInference(c) \/ OtherOpcode(c) \/ Close(c)
    \/ Reply(c)

Next ==
    \/ \E c \in Clients : handle_client(c)
    \/ \E g \in Gpus : gpu_worker_thread(g) \/ \E l \in Lanes : cudaStreamQuery(g, l)

(* Workers poll for ever, work on a stream completes or fails, and a       *)
(* handler whose future is ready goes on.  Clients owe nothing.            *)
Fairness ==
    /\ \A g \in Gpus : WF_vars(gpu_worker_thread(g))
    /\ \A g \in Gpus, l \in Lanes : WF_vars(cudaStreamQuery(g, l))
    /\ \A c \in Clients : WF_vars(Reply(c))

Spec == Init /\ [][Next]_vars

FairSpec == Spec /\ Fairness
-----------------------------------------------------------------------------
(* A task whose promise is not set is in exactly one queue or lane, and a  *)
(* task whose promise is set in none: gpu_worker_thread neither loses a    *)
(* task between try_pop and a lane nor sets a promise twice.               *)
TaskInOnePlace ==
    \A c \in Clients :
        LET queued == {p \in Gpus \X (1..Cardinality(Clients)) :
                         p[2] \in DOMAIN queue[p[1]] /\ queue[p[1]][p[2]].client = c}
            running == {p \in Gpus \X Lanes :
                          lane[p[1]][p[2]].in_flight /\ lane[p[1]][p[2]].client = c}
        IN  Cardinality(queued) + Cardinality(running)
              = IF pc[c] = "get" /\ promise[c] = -1 THEN 1 ELSE 0

(* The device buffers of a busy lane hold what its context reads and       *)
(* writes and what is copied out of them, even when the model was loaded   *)
(* again with other sizes and the lane still has the old context.          *)
BuffersFit ==
    \A g \in Gpus, l \in Lanes :
        LET ln == lane[g][l]
        IN  ln.in_flight => /\ ln.context.input <= ln.input_cap
                            /\ ln.context.output <= ln.output_cap
                            /\ ln.output_size <= ln.output_cap

(* A delta comes right after the primary packet of its exchange and is as  *)
(* long as the primary before that, so the client can apply it, whatever   *)
(* loads, failures and other requests came between the two inferences.     *)
DeltaAppliesToPrevious ==
    \A c \in Clients : \A k \in DOMAIN sent[c] :
        sent[c][k].type = "delta" =>
            \E j \in 1..(k - 2) :
                /\ sent[c][k - 1] = [sent[c][k] EXCEPT !.type = "primary"]
                /\ sent[c][j].type = "primary" /\ sent[c][j].size = sent[c][k].size
                /\ \A i \in (j + 1)..(k - 2) : sent[c][i].type = "delta"

Failed(g, l) == lane[g][l].in_flight /\ lane[g][l].status = "error"

(* Every inference is answered, whatever is loaded meanwhile, unless its   *)
(* own stream fails, or every stream of the GPU it is queued on: a failed  *)
(* stream costs its lane and its client, and no other.                     *)
InferenceAnswered ==
    \A c \in Clients :
        pc[c] = "get" ~>
          \/ pc[c] = "read"
          \/ \E g \in Gpus :
               \/ \E l \in Lanes : Failed(g, l) /\ lane[g][l].client = c
               \/ /\ \E i \in DOMAIN queue[g] : queue[g][i].client = c
                  /\ \A l \in Lanes : Failed(g, l)
=============================================================================
