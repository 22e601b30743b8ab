---------------------------- MODULE BrokerServer ----------------------------
(***************************************************************************)
(* The broker's listener (BrokerServer::Impl): the thread in run(), the    *)
(* session threads it starts, the descriptors the process hands out and    *)
(* reuses, and stop(), called by another thread or by a signal handler on  *)
(* the thread in run().  BrokerSession models the inside of a session.     *)
(***************************************************************************)
EXTENDS Integers, FiniteSets

CONSTANTS
    Conns,         \* the connections clients may open
    NumFds,        \* bound: the descriptors of the process
    max_clients,   \* config_.max_clients
    StopsOnMain    \* stop() runs in a signal handler on the thread in run()

ASSUME ServerAssumption ==
    /\ IsFiniteSet(Conns)
    /\ {"free", "listener"} \cap Conns = {}
    /\ NumFds \in Nat \ {0}
    /\ max_clients \in Nat
    /\ StopsOnMain \in BOOLEAN

Fds == 1..NumFds

VARIABLES
    running,          \* running_
    fds,              \* descriptor -> "free", "listener" or a connection
    listener_socket,  \* listener_socket_, -1 for kInvalidSocket
    listening,        \* the listening socket has not been shut down
    client_sockets,   \* client_sockets_
    client_mutex,     \* the holder of client_mutex_: "none", "main"
    main_pc,          \* where the thread in run() is
    conn,             \* the connection it is admitting, and its descriptor
    session_threads,  \* session_threads_
    session,          \* per connection: where its session is
    fd_of,            \* per connection: the session's client_socket
    shut,             \* the connections whose socket has been shut down
    stop_pc,          \* how far the one effective call of stop() is
    stop_by           \* the thread it runs on: "none", "other", "main"

mainVars == <<main_pc, conn, session_threads>>
sessVars == <<session, fd_of, shut>>
stopVars == <<stop_pc, stop_by>>
sockVars == <<fds, listener_socket, listening, client_sockets, client_mutex>>
serverVars == <<running, sockVars, mainVars, sessVars, stopVars>>

NoConn == [id |-> "free", fd |-> -1]

FreeFds == {f \in Fds : fds[f] = "free"}

(* A new descriptor is the lowest one that is free. *)
NewFd == CHOOSE f \in FreeFds : \A g \in FreeFds : f <= g

(* close(fd): whatever the number refers to now; -1 and a free number are  *)
(* errors without effect.                                                  *)
Closed(fd) == IF fd \in Fds THEN [fds EXCEPT ![fd] = "free"] ELSE fds

(* shutdown(listener_socket_) ends listening if the number still names the *)
(* listener.                                                               *)
ListeningAfterShutdown ==
    listening /\ ~(listener_socket \in Fds /\ fds[listener_socket] = "listener")

(* The thread in run() takes no step while stop() runs on top of it. *)
MainRuns == stop_by = "main" => stop_pc = "returned"

ServerInit ==
    /\ running = FALSE
    /\ fds = [f \in Fds |-> "free"] /\ listener_socket = -1 /\ listening = FALSE
    /\ client_sockets = {} /\ client_mutex = "none"
    /\ main_pc = "start" /\ conn = NoConn /\ session_threads = {}
    /\ session = [c \in Conns |-> "none"] /\ fd_of = [c \in Conns |-> -1] /\ shut = {}
    /\ stop_pc = "idle" /\ stop_by = "none"
-----------------------------------------------------------------------------
(* run(): the compare-and-exchange, then open_listener, which may fail. *)
Start ==
    /\ main_pc = "start"
    /\ running' = TRUE /\ main_pc' = "open"
    /\ UNCHANGED <<sockVars, conn, session_threads, sessVars, stopVars>>

open_listener ==
    /\ main_pc = "open" /\ MainRuns
    /\ \/ /\ FreeFds # {}
          /\ fds' = [fds EXCEPT ![NewFd] = "listener"]
          /\ listener_socket' = NewFd /\ listening' = TRUE /\ main_pc' = "top"
       \/ main_pc' = "throw" /\ UNCHANGED <<fds, listener_socket, listening>>
    /\ UNCHANGED <<running, client_sockets, client_mutex, conn, session_threads, sessVars,
                   stopVars>>

(* accept_loop: the flag is tested, finished sessions are joined. *)
LoopTop ==
    /\ main_pc = "top" /\ MainRuns
    /\ IF running
       THEN /\ session_threads' = {c \in session_threads : session[c] # "done"}
            /\ main_pc' = "accept"
       ELSE main_pc' = "join" /\ UNCHANGED session_threads
    /\ UNCHANGED <<running, sockVars, conn, sessVars, stopVars>>

ListenerUsable == listener_socket \in Fds /\ fds[listener_socket] = "listener" /\ listening

Accept ==
    /\ main_pc = "accept" /\ MainRuns
    /\ ListenerUsable /\ FreeFds # {}
    /\ \E c \in Conns :
         /\ session[c] = "backlog"
         /\ conn' = [id |-> c, fd |-> NewFd]
         /\ fds' = [fds EXCEPT ![NewFd] = c]
         /\ session' = [session EXCEPT ![c] = "accepted"]
    /\ main_pc' = "admit"
    /\ UNCHANGED <<running, listener_socket, listening, client_sockets, client_mutex,
                   session_threads, fd_of, shut, stopVars>>

(* accept fails: the listener is gone, or no descriptor is left; the flag  *)
(* tells the two apart.                                                    *)
AcceptFails ==
    /\ main_pc = "accept" /\ MainRuns
    /\ ~ListenerUsable \/ FreeFds = {}
    /\ main_pc' = IF running THEN "throw" ELSE "join"
    /\ UNCHANGED <<running, sockVars, conn, session_threads, sessVars, stopVars>>

(* accept fails on a connection that was reset while it was queued. *)
AcceptAborts ==
    /\ main_pc = "accept" /\ MainRuns
    /\ \E c \in Conns :
         session[c] = "backlog" /\ session' = [session EXCEPT ![c] = "done"]
    /\ main_pc' = IF running THEN "throw" ELSE "join"
    /\ UNCHANGED <<running, sockVars, conn, session_threads, fd_of, shut, stopVars>>

(* admit_client holds client_mutex_ while it refuses (with a blocking      *)
(* write) or registers the socket; setting the socket's timeout may fail.  *)
AdmitLock ==
    /\ main_pc = "admit" /\ MainRuns
    /\ client_mutex = "none"
    /\ client_mutex' = "main" /\ main_pc' = "admitting"
    /\ UNCHANGED <<running, fds, listener_socket, listening, client_sockets, conn,
                   session_threads, sessVars, stopVars>>

admit_client ==
    /\ main_pc = "admitting" /\ MainRuns
    /\ IF Cardinality(client_sockets) >= max_clients
       THEN main_pc' = "refuse" /\ UNCHANGED client_sockets
       ELSE \/ client_sockets' = client_sockets \cup {conn.fd} /\ main_pc' = "spawn"
            \/ main_pc' = "refuse" /\ UNCHANGED client_sockets
    /\ client_mutex' = "none"
    /\ UNCHANGED <<running, fds, listener_socket, listening, conn, session_threads, sessVars,
                   stopVars>>

Refuse ==
    /\ main_pc = "refuse" /\ MainRuns
    /\ fds' = Closed(conn.fd)
    /\ session' = [session EXCEPT ![conn.id] = "done"]
    /\ conn' = NoConn /\ main_pc' = "top"
    /\ UNCHANGED <<running, listener_socket, listening, client_sockets, client_mutex,
                   session_threads, fd_of, shut, stopVars>>

Spawn ==
    /\ main_pc = "spawn" /\ MainRuns
    /\ session' = [session EXCEPT ![conn.id] = "top"]
    /\ fd_of' = [fd_of EXCEPT ![conn.id] = conn.fd]
    /\ session_threads' = session_threads \cup {conn.id}
    /\ conn' = NoConn /\ main_pc' = "top"
    /\ UNCHANGED <<running, sockVars, shut, stopVars>>

(* The exception path of run() calls stop() itself. *)
Throw ==
    /\ main_pc = "throw" /\ MainRuns
    /\ main_pc' = "join"
    /\ IF running
       THEN running' = FALSE /\ stop_pc' = "shutdown" /\ stop_by' = "main"
       ELSE UNCHANGED <<running, stopVars>>
    /\ UNCHANGED <<sockVars, conn, session_threads, sessVars>>

(* join_all: close the listener again if the variable still names one,     *)
(* then wait for every session thread.                                     *)
JoinClose ==
    /\ main_pc = "join" /\ MainRuns
    /\ listening' = ListeningAfterShutdown
    /\ fds' = Closed(listener_socket) /\ main_pc' = "join_reset"
    /\ UNCHANGED <<running, listener_socket, client_sockets, client_mutex, conn,
                   session_threads, sessVars, stopVars>>

JoinReset ==
    /\ main_pc = "join_reset" /\ MainRuns
    /\ listener_socket' = -1 /\ main_pc' = "join_threads"
    /\ UNCHANGED <<running, fds, listening, client_sockets, client_mutex, conn, session_threads,
                   sessVars, stopVars>>

Mutant_join_only_finished == TRUE

all_done == \A c \in session_threads : session[c] = "done"

JoinThreads ==
    /\ main_pc = "join_threads" /\ MainRuns
    /\ all_done
    /\ session_threads' = {} /\ main_pc' = "returned"
    /\ UNCHANGED <<running, sockVars, conn, sessVars, stopVars>>
-----------------------------------------------------------------------------
(* A session thread.  It tests the flag, blocks in a read that ends when   *)
(* a frame arrives, the client leaves, a timeout fires or the socket is    *)
(* shut down, and cleans up in the order of session_loop.                  *)
SessionTop(c) ==
    /\ session[c] = "top"
    /\ session' = [session EXCEPT ![c] = IF running THEN "read" ELSE "erase"]
    /\ UNCHANGED <<running, sockVars, mainVars, fd_of, shut, stopVars>>

SessionRead(c) ==
    /\ session[c] = "read"
    /\ \E next \in {"top", "erase"} : session' = [session EXCEPT ![c] = next]
    /\ UNCHANGED <<running, sockVars, mainVars, fd_of, shut, stopVars>>

SessionCut(c) ==
    /\ session[c] = "read"
    /\ c \in shut
    /\ session' = [session EXCEPT ![c] = "erase"]
    /\ UNCHANGED <<running, sockVars, mainVars, fd_of, shut, stopVars>>

Mutant_erase_after_close(c) ==
    /\ session[c] = "erase"
    /\ fds' = Closed(fd_of[c])
    /\ session' = [session EXCEPT ![c] = "join"]
    /\ UNCHANGED <<running, listener_socket, listening, client_sockets, client_mutex, mainVars,
                   fd_of, shut, stopVars>>

Mutant_erase_skipped(fd) == client_sockets

erased(fd) == client_sockets \ {fd}

SessionErase(c) ==
    /\ session[c] = "erase"
    /\ client_mutex = "none"
    /\ client_sockets' = erased(fd_of[c])
    /\ session' = [session EXCEPT ![c] = "join"]
    /\ UNCHANGED <<running, fds, listener_socket, listening, client_mutex, mainVars, fd_of, shut,
                   stopVars>>

(* shutdown, and the join of the session's responders. *)
SessionJoin(c) ==
    /\ session[c] = "join"
    /\ shut' = shut \cup {c}
    /\ session' = [session EXCEPT ![c] = "close"]
    /\ UNCHANGED <<running, sockVars, mainVars, fd_of, stopVars>>

SessionClose(c) ==
    /\ session[c] = "close"
    /\ fds' = Closed(fd_of[c])
    /\ session' = [session EXCEPT ![c] = "done"]
    /\ UNCHANGED <<running, listener_socket, listening, client_sockets, client_mutex, mainVars,
                   fd_of, shut, stopVars>>
-----------------------------------------------------------------------------
(* stop(): only the call that clears the flag goes on. *)
StopCall ==
    /\ running /\ stop_pc = "idle"
    /\ main_pc # "returned"
    /\ running' = FALSE /\ stop_pc' = "shutdown"
    /\ stop_by' = IF StopsOnMain THEN "main" ELSE "other"
    /\ UNCHANGED <<sockVars, mainVars, sessVars>>

StopShutdown ==
    /\ stop_pc = "shutdown"
    /\ listening' = ListeningAfterShutdown
    /\ stop_pc' = "close"
    /\ UNCHANGED <<running, fds, listener_socket, client_sockets, client_mutex, mainVars,
                   sessVars, stop_by>>

StopClose ==
    /\ stop_pc = "close"
    /\ fds' = Closed(listener_socket) /\ stop_pc' = "reset"
    /\ UNCHANGED <<running, listener_socket, listening, client_sockets, client_mutex, mainVars,
                   sessVars, stop_by>>

StopReset ==
    /\ stop_pc = "reset"
    /\ listener_socket' = -1 /\ stop_pc' = "sweep"
    /\ UNCHANGED <<running, fds, listening, client_sockets, client_mutex, mainVars, sessVars,
                   stop_by>>

Mutant_stop_skips_sweep == {}

Mutant_sweep_unregistered == {c \in Conns : \E f \in Fds : fds[f] = c}

swept == {c \in Conns : \E f \in client_sockets : fds[f] = c}

StopSweep ==
    /\ stop_pc = "sweep"
    /\ client_mutex = "none"
    /\ shut' = shut \cup swept
    /\ stop_pc' = "returned"
    /\ UNCHANGED <<running, sockVars, mainVars, session, fd_of, stop_by>>
-----------------------------------------------------------------------------
(* Clients connect while the listener listens. *)
Connect(c) ==
    /\ session[c] = "none" /\ listening
    /\ session' = [session EXCEPT ![c] = "backlog"]
    /\ UNCHANGED <<running, sockVars, mainVars, fd_of, shut, stopVars>>

Main ==
    \/ Start \/ open_listener \/ LoopTop \/ Accept \/ AcceptFails \/ AdmitLock \/ admit_client
    \/ Refuse \/ Spawn \/ Throw \/ JoinClose \/ JoinReset \/ JoinThreads

(* What a session does whether or not its client ever acts again. *)
SessionSteps(c) ==
    SessionTop(c) \/ SessionCut(c) \/ SessionErase(c) \/ SessionJoin(c) \/ SessionClose(c)

StopBody == StopShutdown \/ StopClose \/ StopReset \/ StopSweep

Returned == main_pc = "returned" /\ UNCHANGED serverVars

ServerNext ==
    \/ Main \/ AcceptAborts \/ StopCall \/ StopBody \/ Returned
    \/ \E c \in Conns : Connect(c) \/ SessionSteps(c) \/ SessionRead(c)

(* Threads that can run do; nothing is assumed of the clients. *)
ServerFairness ==
    /\ WF_serverVars(Main) /\ WF_serverVars(StopBody)
    /\ \A c \in Conns : WF_serverVars(SessionSteps(c))

ServerSpec == ServerInit /\ [][ServerNext]_serverVars

FairServerSpec == ServerSpec /\ ServerFairness
-----------------------------------------------------------------------------
Live(c) == session[c] \in {"top", "read", "erase", "join", "close"}

(* A session's descriptor is its own until the session closes it, however  *)
(* numbers are reused around it.                                           *)
SessionOwnsFd == \A c \in Conns : Live(c) => fds[fd_of[c]] = c

(* What stop() shuts down is exactly live: every registered descriptor     *)
(* belongs to a session that has not begun its cleanup, or to the          *)
(* connection being admitted, and every session able to block in a read is *)
(* registered.  So what max_clients bounds is the sessions themselves.     *)
RegistryIsExact ==
    /\ \A f \in client_sockets :
         \/ \E c \in Conns : fd_of[c] = f /\ session[c] \in {"top", "read", "erase"}
         \/ main_pc = "spawn" /\ conn.fd = f
    /\ \A c \in Conns : session[c] \in {"top", "read", "erase"} => fd_of[c] \in client_sockets
    /\ Cardinality({c \in Conns : session[c] \in {"top", "read", "erase"}}) <= max_clients

(* When run() has returned no session thread is left and no client         *)
(* descriptor is open.                                                     *)
ReturnedMeansQuiet ==
    main_pc = "returned" => \A c \in Conns : ~Live(c) /\ \A f \in Fds : fds[f] # c

InRegistry(c) == \E f \in client_sockets : fds[f] = c

Phase(c) == IF session[c] \in {"backlog", "accepted"} THEN "none" ELSE session[c]

(* Connection c as SessionOutline has it. *)
Outline(c) ==
    INSTANCE SessionOutline WITH
        registered <- InRegistry(c), cut <- c \in shut, session <- Phase(c)

(* Whatever the other clients, the listener and stop() do to the registry  *)
(* and to the table of descriptors, each connection goes through its       *)
(* outline: it is registered before its thread starts and until that       *)
(* thread takes it out, and stop() cuts it only while it is.               *)
SessionsOutlined ==
    [][\A c \in Conns : Outline(c)!Next \/ UNCHANGED Outline(c)!outline]_serverVars

(* A stop() that took effect makes run() return: a client admitted while   *)
(* stop() runs is either swept or sees the flag, whatever the clients do.  *)
StopEndsRun == (stop_pc = "shutdown") ~> (main_pc = "returned")
=============================================================================
