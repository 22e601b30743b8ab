------------------------------ MODULE AdiServer ------------------------------
(***************************************************************************)
(* The ADI server (AdiServer::Impl): a session thread per client, a worker *)
(* thread and queue per GPU, placement by queue depth, and stop().  The    *)
(* listener's descriptors are handled as in BrokerServer and are left out; *)
(* a payload is left out, its packets are kept.                            *)
(***************************************************************************)
EXTENDS Integers, Sequences, FiniteSets, Functions

CONSTANTS
    Clients,            \* the clients that may connect, one session each
    NumGpus,            \* topology_.num_gpus()
    Peer,               \* best_peer of each GPU, -1 for none
    Thresholds,         \* the values config_.backlog_threshold may have
    MaxExchanges,       \* bound: requests a client sends
    NoClient

ASSUME AdiAssumption ==
    /\ IsFiniteSet(Clients) /\ {NoClient, "wait", "exited"} \cap Clients = {}
    /\ NumGpus \in Nat \ {0}
    /\ Peer \in [0..(NumGpus - 1) -> -1..(NumGpus - 1)]
    /\ Thresholds \subseteq Nat /\ MaxExchanges \in Nat

Gpus == 0..(NumGpus - 1)

VARIABLES
    backlog_threshold,  \* config_.backlog_threshold
    running,         \* running_
    main_pc,         \* where the thread in run() is
    incoming,        \* the client accepted but not registered yet
    client_sockets,  \* client_sockets_
    stop_pc,         \* how far stop() is
    queue,           \* WorkerState::queue
    stopping,        \* WorkerState::stopping
    worker,          \* what each worker thread is doing: "wait", "exited" or a client
    affinity,        \* placer_: client -> home GPU
    rr_counter,      \* placer_: round-robin counter
    affinity_mutex,  \* placer_: the session inside place
    pc,              \* where each session is
    local,           \* its local variables during place
    promise,         \* its task's promise: "none", "value" or "error"
    sequence_id,     \* its sequence_id
    sent,            \* the packets it has sent
    shut             \* the clients whose socket stop() shut down

mainVars == <<running, main_pc, incoming, stop_pc>>
gpuVars == <<queue, stopping, worker>>
placeVars == <<backlog_threshold, affinity, rr_counter, affinity_mutex>>
sessVars == <<pc, local, promise, sequence_id, sent>>
vars == <<mainVars, client_sockets, gpuVars, placeVars, sessVars, shut>>

NoLocal == [target |-> -1, best_depth |-> 0, i |-> 0]

Init ==
    /\ backlog_threshold \in Thresholds
    /\ running = FALSE /\ main_pc = "start" /\ incoming = NoClient /\ stop_pc = "idle"
    /\ client_sockets = {} /\ shut = {}
    /\ queue = [g \in Gpus |-> <<>>] /\ stopping = [g \in Gpus |-> FALSE]
    /\ worker = [g \in Gpus |-> "exited"]
    /\ affinity = <<>> /\ rr_counter = 0 /\ affinity_mutex = NoClient
    /\ pc = [c \in Clients |-> "none"] /\ local = [c \in Clients |-> NoLocal]
    /\ promise = [c \in Clients |-> "none"]
    /\ sequence_id = [c \in Clients |-> 0] /\ sent = [c \in Clients |-> <<>>]

Goto(c, l) == pc' = [pc EXCEPT ![c] = l]
-----------------------------------------------------------------------------
(* run(): the flag, start_workers, and the listener. *)
start_workers ==
    /\ main_pc = "start"
    /\ running' = TRUE
    /\ worker' = [g \in Gpus |-> "wait"]
    /\ main_pc' = "accept"
    /\ UNCHANGED <<incoming, stop_pc, client_sockets, queue, stopping, placeVars, sessVars,
                   shut>>

(* accept_loop: a connection is accepted, or the loop ends with the flag.  *)
Accept ==
    /\ main_pc = "accept" /\ stop_pc = "idle"
    /\ \E c \in Clients :
         pc[c] = "none" /\ incoming' = c /\ Goto(c, "accepted")
    /\ main_pc' = "register"
    /\ UNCHANGED <<running, stop_pc, client_sockets, gpuVars, placeVars, local, promise,
                   sequence_id, sent, shut>>

AcceptEnds ==
    /\ main_pc = "accept" /\ ~running
    /\ main_pc' = "join_flags"
    /\ UNCHANGED <<running, incoming, stop_pc, client_sockets, gpuVars, placeVars, sessVars,
                   shut>>

(* The listener cannot be opened or accept fails: run() calls stop() on    *)
(* its own thread before it joins.                                         *)
Throw ==
    /\ main_pc = "accept" /\ running
    /\ running' = FALSE /\ stop_pc' = "sweep" /\ main_pc' = "stop"
    /\ UNCHANGED <<incoming, client_sockets, gpuVars, placeVars, sessVars, shut>>

ThrowStopped ==
    /\ main_pc = "stop" /\ stop_pc = "returned"
    /\ main_pc' = "join_flags"
    /\ UNCHANGED <<running, incoming, stop_pc, client_sockets, gpuVars, placeVars, sessVars,
                   shut>>

Register ==
    /\ main_pc = "register"
    /\ client_sockets' = client_sockets \cup {incoming}
    /\ Goto(incoming, "assign")
    /\ incoming' = NoClient /\ main_pc' = "accept"
    /\ UNCHANGED <<running, stop_pc, gpuVars, placeVars, local, promise, sequence_id, sent,
                   shut>>

(* join_all: the stopping flags, then the sessions, then the workers. *)
JoinFlags ==
    /\ main_pc = "join_flags"
    /\ stopping' = [g \in Gpus |-> TRUE] /\ main_pc' = "join_sessions"
    /\ UNCHANGED <<running, incoming, stop_pc, client_sockets, queue, worker, placeVars,
                   sessVars, shut>>

JoinSessions ==
    /\ main_pc = "join_sessions"
    /\ \A c \in Clients : pc[c] \in {"none", "done"}
    /\ main_pc' = "join_workers"
    /\ UNCHANGED <<running, incoming, stop_pc, client_sockets, gpuVars, placeVars, sessVars,
                   shut>>

JoinWorkers ==
    /\ main_pc = "join_workers"
    /\ \A g \in Gpus : worker[g] = "exited"
    /\ main_pc' = "returned"
    /\ UNCHANGED <<running, incoming, stop_pc, client_sockets, gpuVars, placeVars, sessVars,
                   shut>>

(* stop(): the flag and the listener, the client sockets, the workers. *)
StopCall ==
    /\ running /\ stop_pc = "idle"
    /\ running' = FALSE /\ stop_pc' = "sweep"
    /\ UNCHANGED <<main_pc, incoming, client_sockets, gpuVars, placeVars, sessVars, shut>>

StopSweep ==
    /\ stop_pc = "sweep"
    /\ shut' = shut \cup client_sockets /\ stop_pc' = "workers"
    /\ UNCHANGED <<running, main_pc, incoming, client_sockets, gpuVars, placeVars, sessVars>>

StopWorkers ==
    /\ stop_pc = "workers"
    /\ stopping' = [g \in Gpus |-> TRUE] /\ stop_pc' = "returned"
    /\ UNCHANGED <<running, main_pc, incoming, client_sockets, queue, worker, placeVars,
                   sessVars, shut>>
-----------------------------------------------------------------------------
Mutant_worker_leaves_queue(g) == TRUE

drained(g) == queue[g] = <<>>

(* gpu_worker_loop: leave when told to and idle, else take the oldest task *)
(* and fulfil its promise with a value or the exception of compute_fn_.    *)
WorkerExit(g) ==
    /\ worker[g] = "wait"
    /\ stopping[g] /\ drained(g)
    /\ worker' = [worker EXCEPT ![g] = "exited"]
    /\ UNCHANGED <<mainVars, client_sockets, queue, stopping, placeVars, sessVars, shut>>

Mutant_take_without_pop(tasks) == tasks

popped(tasks) == Tail(tasks)

WorkerTake(g) ==
    /\ worker[g] = "wait" /\ queue[g] # <<>>
    /\ worker' = [worker EXCEPT ![g] = Head(queue[g])]
    /\ queue' = [queue EXCEPT ![g] = popped(@)]
    /\ UNCHANGED <<mainVars, client_sockets, stopping, placeVars, sessVars, shut>>

WorkerFulfil(g) ==
    /\ worker[g] \in Clients
    /\ \E outcome \in {"value", "error"} : promise' = [promise EXCEPT ![worker[g]] = outcome]
    /\ worker' = [worker EXCEPT ![g] = "wait"]
    /\ UNCHANGED <<mainVars, client_sockets, queue, stopping, placeVars, pc, local, sequence_id,
                   sent, shut>>
-----------------------------------------------------------------------------
(* session_loop.  The client is given its home, then the flag is tested    *)
(* and a request read, until the client, an error or stop() ends it.       *)
AssignHome(c) ==
    /\ pc[c] = "assign" /\ affinity_mutex = NoClient
    /\ affinity' = [x \in DOMAIN affinity \cup {c} |->
                      IF x = c THEN rr_counter % NumGpus ELSE affinity[x]]
    /\ rr_counter' = rr_counter + 1
    /\ Goto(c, "top")
    /\ UNCHANGED <<mainVars, client_sockets, gpuVars, backlog_threshold, affinity_mutex, local, promise,
                   sequence_id, sent, shut>>

Top(c) ==
    /\ pc[c] = "top"
    /\ Goto(c, IF running THEN "read" ELSE "release")
    /\ UNCHANGED <<mainVars, client_sockets, gpuVars, placeVars, local, promise, sequence_id,
                   sent, shut>>

(* A whole request is read; what the socket had received before it was     *)
(* shut down can still be.                                                 *)
ReadRequest(c) ==
    /\ pc[c] = "read" /\ sequence_id[c] < MaxExchanges
    /\ Goto(c, "place")
    /\ UNCHANGED <<mainVars, client_sockets, gpuVars, placeVars, local, promise, sequence_id,
                   sent, shut>>

(* The client leaves, or sends a length other than EXPECTED_LENGTH. *)
ReadFails(c) ==
    /\ pc[c] = "read"
    /\ Goto(c, "release")
    /\ UNCHANGED <<mainVars, client_sockets, gpuVars, placeVars, local, promise, sequence_id,
                   sent, shut>>

(* recv returns 0 on a socket stop() has shut down. *)
ReadCut(c) ==
    /\ c \in shut
    /\ ReadFails(c)

(* place: the depth of home, of its peer, and of every GPU in turn, each   *)
(* under its own worker's mutex.                                           *)
PlaceHome(c) ==
    LET home == affinity[c]
        depth == Len(queue[home])
    IN  /\ pc[c] = "place" /\ affinity_mutex = NoClient
        /\ local' = [local EXCEPT ![c] = [target |-> home, best_depth |-> depth, i |-> 0]]
        /\ IF depth < backlog_threshold
           THEN Goto(c, "push") /\ UNCHANGED affinity_mutex
           ELSE /\ affinity_mutex' = c
                /\ Goto(c, IF Peer[home] >= 0 THEN "peer" ELSE "scan")
        /\ UNCHANGED <<mainVars, client_sockets, gpuVars, backlog_threshold, affinity, rr_counter, promise,
                       sequence_id, sent, shut>>

PlacePeer(c) ==
    LET peer == Peer[affinity[c]]
    IN  /\ pc[c] = "peer"
        /\ IF Len(queue[peer]) < backlog_threshold
           THEN /\ local' = [local EXCEPT ![c].target = peer]
                /\ affinity_mutex' = NoClient
                /\ Goto(c, "push")
           ELSE Goto(c, "scan") /\ UNCHANGED <<local, affinity_mutex>>
        /\ UNCHANGED <<mainVars, client_sockets, gpuVars, backlog_threshold, affinity, rr_counter, promise,
                       sequence_id, sent, shut>>

PlaceScan(c) ==
    LET i == local[c].i
        better == Len(queue[i]) < local[c].best_depth
    IN  /\ pc[c] = "scan"
        /\ local' = [local EXCEPT ![c].i = i + 1,
                                  ![c].target = IF better THEN i ELSE @,
                                  ![c].best_depth = IF better THEN Len(queue[i]) ELSE @]
        /\ IF i + 1 = NumGpus
           THEN affinity_mutex' = NoClient /\ Goto(c, "push")
           ELSE UNCHANGED <<affinity_mutex, pc>>
        /\ UNCHANGED <<mainVars, client_sockets, gpuVars, backlog_threshold, affinity, rr_counter, promise,
                       sequence_id, sent, shut>>

(* The task joins the target's queue whether or not its worker is left. *)
Push(c) ==
    /\ pc[c] = "push"
    /\ queue' = [queue EXCEPT ![local[c].target] = Append(@, c)]
    /\ local' = [local EXCEPT ![c] = NoLocal]
    /\ promise' = [promise EXCEPT ![c] = "none"]
    /\ Goto(c, "get")
    /\ UNCHANGED <<mainVars, client_sockets, stopping, worker, placeVars, sequence_id, sent,
                   shut>>

(* result_future.get() *)
Get(c) ==
    /\ pc[c] = "get" /\ promise[c] # "none"
    /\ Goto(c, IF promise[c] = "value" THEN "primary" ELSE "release")
    /\ UNCHANGED <<mainVars, client_sockets, gpuVars, placeVars, local, promise, sequence_id,
                   sent, shut>>

(* send_packet.  It fails when the client has left, and always on a socket *)
(* that was shut down (in a process that survives SIGPIPE).                *)
SendPacket(c, type, next) ==
    \/ /\ c \notin shut
       /\ sent' = [sent EXCEPT ![c] = Append(@, <<type, sequence_id[c]>>)]
       /\ next
    \/ Goto(c, "release") /\ UNCHANGED <<sent, sequence_id>>

NextExchange(c) ==
    Goto(c, "top") /\ sequence_id' = [sequence_id EXCEPT ![c] = @ + 1]

Mutant_delta_from_the_start(c) == FALSE

(* There is no earlier result to subtract. *)
first_exchange(c) == sequence_id[c] = 0

SendPrimary(c) ==
    /\ pc[c] = "primary"
    /\ SendPacket(c, "primary", IF first_exchange(c) THEN NextExchange(c)
                                ELSE Goto(c, "delta") /\ UNCHANGED sequence_id)
    /\ UNCHANGED <<mainVars, client_sockets, gpuVars, placeVars, local, promise, shut>>

SendDelta(c) ==
    /\ pc[c] = "delta"
    /\ SendPacket(c, "delta", NextExchange(c))
    /\ UNCHANGED <<mainVars, client_sockets, gpuVars, placeVars, local, promise, shut>>

Mutant_release_forgotten(c) == affinity

without(c) == [x \in DOMAIN affinity \ {c} |-> affinity[x]]

(* Cleanup: release_client, then the registry, then the socket. *)
release_client(c) ==
    /\ pc[c] = "release" /\ affinity_mutex = NoClient
    /\ affinity' = without(c)
    /\ Goto(c, "erase")
    /\ UNCHANGED <<mainVars, client_sockets, gpuVars, backlog_threshold, rr_counter, affinity_mutex, local, promise,
                   sequence_id, sent, shut>>

Erase(c) ==
    /\ pc[c] = "erase"
    /\ client_sockets' = client_sockets \ {c}
    /\ Goto(c, "done")
    /\ UNCHANGED <<mainVars, gpuVars, placeVars, local, promise, sequence_id, sent, shut>>
-----------------------------------------------------------------------------
Main ==
    \/ start_workers \/ AcceptEnds \/ ThrowStopped \/ Register
    \/ JoinFlags \/ JoinSessions \/ JoinWorkers

StopBody == StopSweep \/ StopWorkers

Worker(g) == WorkerExit(g) \/ WorkerTake(g) \/ WorkerFulfil(g)

(* What a session does whether or not its client acts. *)
Session(c) ==
    \/ AssignHome(c) \/ Top(c) \/ ReadCut(c) \/ PlaceHome(c) \/ PlacePeer(c) \/ PlaceScan(c)
    \/ Push(c) \/ Get(c) \/ SendPrimary(c) \/ SendDelta(c) \/ release_client(c) \/ Erase(c)

Client(c) == ReadRequest(c) \/ ReadFails(c)

Returned == main_pc = "returned" /\ UNCHANGED vars

Next ==
    \/ Main \/ Accept \/ Throw \/ StopCall \/ StopBody \/ Returned
    \/ \E g \in Gpus : Worker(g)
    \/ \E c \in Clients : Session(c) \/ Client(c)

(* Every thread that can run does; clients may stay silent for ever. *)
Fairness ==
    /\ WF_vars(Main) /\ WF_vars(StopBody)
    /\ \A g \in Gpus : WF_vars(Worker(g))
    /\ \A c \in Clients : WF_vars(Session(c))

Spec == Init /\ [][Next]_vars

FairSpec == Spec /\ Fairness
-----------------------------------------------------------------------------
InService(c) == pc[c] \notin {"none", "accepted", "assign", "erase", "done"}

(* The placer knows exactly the clients in service: no affinity entry      *)
(* outlives its session, and place always finds one.                       *)
AffinityIsExact == DOMAIN affinity = {c \in Clients : InService(c)}

(* A task is in one place: a session in result_future.get() has its task   *)
(* in one queue, in one worker's hands, or answered, and no other session  *)
(* has a task anywhere.                                                    *)
OneTaskEach ==
    \A c \in Clients :
        LET queued == {p \in Gpus \X (1..Cardinality(Clients)) :
                         p[2] \in DOMAIN queue[p[1]] /\ queue[p[1]][p[2]] = c}
            held == {g \in Gpus : worker[g] = c}
        IN  Cardinality(queued) + Cardinality(held)
              = IF pc[c] = "get" /\ promise[c] = "none" THEN 1 ELSE 0

(* The packets of a client: one primary per exchange, in order, each but   *)
(* the first followed by its delta.                                        *)
PacketsInOrder ==
    \A c \in Clients :
        \A k \in DOMAIN sent[c] :
            sent[c][k] = IF k = 1 THEN <<"primary", 0>>
                         ELSE IF k % 2 = 0 THEN <<"primary", k \div 2>>
                         ELSE <<"delta", k \div 2>>

(* A task queued while its worker is there is answered: stop() lets the    *)
(* queue drain before the worker leaves.                                   *)
QueuedIsAnswered ==
    \A c \in Clients : \A g \in Gpus :
        (c \in Range(queue[g]) /\ worker[g] # "exited") ~> (pc[c] # "get")

(* stop() ends the server: sessions and workers are joined and run()       *)
(* returns.                                                                *)
StopEndsRun == (stop_pc = "sweep") ~> (main_pc = "returned")
=============================================================================
