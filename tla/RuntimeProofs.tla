--------------------------- MODULE RuntimeProofs ---------------------------
(***************************************************************************)
(* Proofs about the two servers that own their threads: the broker server, *)
(* for any set of clients, any number of descriptors and any max_clients;  *)
(* and the tensor runtime, for any clients, GPUs, lanes, models and engine *)
(* sizes.                                                                  *)
(***************************************************************************)
EXTENDS BrokerServer, TensorRuntime, FiniteSetTheorems, WellFoundedInduction, TLAPS

(* The broker server. *)

MainLabels ==
    {"start", "open", "top", "accept", "admit", "admitting", "refuse", "spawn", "throw", "join",
     "join_reset", "join_threads", "returned"}

SessionLabels ==
    {"none", "backlog", "accepted", "top", "read", "erase", "join", "close", "done"}

ServerTypeOK ==
    /\ fds \in [Fds -> {"free", "listener"} \cup Conns]
    /\ client_sockets \in SUBSET Fds
    /\ main_pc \in MainLabels
    /\ session_threads \in SUBSET Conns
    /\ session \in [Conns -> SessionLabels]
    /\ DOMAIN fd_of = Conns

(* The thread in run() holds a connection it has accepted and not yet      *)
(* refused or handed to a session.                                         *)
Holding == main_pc \in {"admit", "admitting", "refuse", "spawn"}

Held ==
    Holding => /\ conn.id \in Conns /\ session[conn.id] = "accepted"
               /\ conn.fd \in Fds /\ fds[conn.fd] = conn.id

(* Who owns an open descriptor.  The number in listener_socket_ may be     *)
(* stale, since stop() and join_all both close it, but never names a       *)
(* client: nothing is accepted once the listener is closed.                *)
Owned ==
    /\ listener_socket \in Fds => fds[listener_socket] \notin Conns
    /\ Held
    /\ \A c \in Conns : Live(c) => fd_of[c] \in Fds /\ fds[fd_of[c]] = c
    /\ \A f \in Fds, c \in Conns :
         fds[f] = c => \/ Live(c) /\ fd_of[c] = f
                       \/ Holding /\ conn.id = c /\ conn.fd = f

(* A live session's thread is among those join_all waits for. *)
Joinable ==
    /\ \A c \in Conns : Live(c) => c \in session_threads
    /\ main_pc = "returned" => session_threads = {}

Reading(c) == session[c] \in {"top", "read", "erase"}

Registered ==
    /\ \A f \in client_sockets :
         \/ \E c \in Conns : fd_of[c] = f /\ Reading(c)
         \/ main_pc = "spawn" /\ conn.fd = f
    /\ \A c \in Conns : Reading(c) => fd_of[c] \in client_sockets
    /\ main_pc = "spawn" => conn.fd \in client_sockets
    /\ Cardinality(client_sockets) <= max_clients

ServerInv == ServerTypeOK /\ Owned /\ Joinable /\ Registered
-----------------------------------------------------------------------------
(* The lowest free descriptor exists when any is free. *)
LEMMA NewFdIsFree == ASSUME FreeFds # {} PROVE NewFd \in Fds /\ fds[NewFd] = "free"
  <1>1. FreeFds \subseteq Nat
    BY ServerAssumption DEF FreeFds, Fds
  <1>2. PICK f \in FreeFds : \A g \in FreeFds : ~(<<g, f>> \in OpToRel(<, Nat))
    BY <1>1, NatLessThanWellFounded, WFMin, Zenon
  <1>3. \A g \in FreeFds : f <= g
    <2> SUFFICES ASSUME NEW g \in FreeFds, g < f PROVE FALSE
      BY <1>1
    <2>1. <<g, f>> \in Nat \X Nat
      BY <1>1, Zenon
    <2>2. <<g, f>> \in OpToRel(<, Nat)
      BY <2>1, Zenon DEF OpToRel
    <2>3. QED
      BY <1>2, <2>2, Zenon
  <1>4. NewFd \in FreeFds
    BY <1>3, Zenon DEF NewFd
  <1>5. QED
    BY <1>4, Zenon DEF FreeFds

(* What a close does to the table of descriptors. *)
LEMMA ClosedEffect ==
  ASSUME ServerTypeOK, NEW fd
  PROVE  /\ Closed(fd) \in [Fds -> {"free", "listener"} \cup Conns]
         /\ \A f \in Fds : Closed(fd)[f] = IF f = fd THEN "free" ELSE fds[f]
  BY Zenon DEF ServerTypeOK, Closed

(* The size of client_sockets_ is a number.                                *)
LEMMA SocketsFinite ==
  ASSUME ServerTypeOK
  PROVE  IsFiniteSet(client_sockets) /\ Cardinality(client_sockets) \in Nat
  <1>1. IsFiniteSet(Fds)
    BY FS_Interval, ServerAssumption DEF Fds
  <1>2. QED
    BY <1>1, FS_Subset, FS_CardinalityType, Zenon DEF ServerTypeOK

(* The server before run() satisfies the invariant.                        *)
LEMMA ServerInitInv == ServerInit => ServerInv
  <1> SUFFICES ASSUME ServerInit PROVE ServerInv
    OBVIOUS
  <1>1. ServerTypeOK
    BY Zenon DEF ServerInit, ServerTypeOK, MainLabels, SessionLabels
  <1>2. Owned /\ Joinable
    BY <1>1, ServerAssumption, Zenon DEF ServerInit, ServerTypeOK, Owned, Held, Holding,
       Joinable, Live
  <1>3. Registered
    BY FS_EmptySet, ServerAssumption DEF ServerInit, Registered, Reading
  <1>4. QED
    BY <1>1, <1>2, <1>3, Zenon DEF ServerInv

(* Every step keeps the types.                                             *)
LEMMA ServerStepTypeOK == ServerTypeOK /\ Owned /\ [ServerNext]_serverVars => ServerTypeOK'
  <1> SUFFICES ASSUME ServerTypeOK, Owned, [ServerNext]_serverVars PROVE ServerTypeOK'
    OBVIOUS
  <1> USE DEF ServerTypeOK, MainLabels, SessionLabels
  <1>1. CASE Start \/ LoopTop \/ AcceptFails \/ AdmitLock \/ Throw \/ JoinReset \/ JoinThreads
    BY <1>1, Zenon DEF Start, LoopTop, AcceptFails, AdmitLock, Throw, JoinReset, JoinThreads,
       sockVars, mainVars, sessVars
  <1>2. CASE open_listener
    BY <1>2, NewFdIsFree, Zenon DEF open_listener, sessVars
  <1>3. CASE Accept
    BY <1>3, NewFdIsFree DEF Accept
  <1>4. CASE AcceptAborts
    BY <1>4, Zenon DEF AcceptAborts, sockVars
  <1>5. CASE admit_client
    BY <1>5 DEF admit_client, sessVars, Owned, Held, Holding
  <1>6. CASE Refuse
    BY <1>6, ClosedEffect, Zenon DEF Refuse
  <1>7. CASE Spawn
    BY <1>7, Zenon DEF Spawn, sockVars, Owned, Held, Holding
  <1>8. CASE JoinClose \/ StopClose
    BY <1>8, ClosedEffect, Zenon DEF JoinClose, StopClose, mainVars, sessVars
  <1>9. CASE StopCall \/ StopShutdown \/ StopReset \/ StopSweep
    BY <1>9, Zenon DEF StopCall, StopShutdown, StopReset, StopSweep, sockVars, mainVars, sessVars
  <1>10. ASSUME NEW c \in Conns,
                Connect(c) \/ SessionTop(c) \/ SessionRead(c) \/ SessionCut(c) \/ SessionJoin(c)
         PROVE  ServerTypeOK'
    BY <1>10 DEF Connect, SessionTop, SessionRead, SessionCut, SessionJoin, sockVars, mainVars
  <1>11. ASSUME NEW c \in Conns, SessionErase(c) PROVE ServerTypeOK'
    BY <1>11, Zenon DEF SessionErase, erased, mainVars
  <1>12. ASSUME NEW c \in Conns, SessionClose(c) PROVE ServerTypeOK'
    BY <1>12, ClosedEffect, Zenon DEF SessionClose, mainVars
  <1>13. CASE UNCHANGED serverVars
    BY <1>13, Zenon DEF serverVars, sockVars, mainVars, sessVars
  <1>14. QED
    BY <1>1, <1>2, <1>3, <1>4, <1>5, <1>6, <1>7, <1>8, <1>9, <1>10, <1>11, <1>12, <1>13, Zenon
       DEF ServerNext, Main, StopBody, SessionSteps, Returned
-----------------------------------------------------------------------------
(* accept and close keep each open descriptor with one owner.              *)
LEMMA StepOwned == ServerTypeOK /\ Owned /\ [ServerNext]_serverVars => Owned'
  <1> SUFFICES ASSUME ServerTypeOK, Owned, [ServerNext]_serverVars PROVE Owned'
    OBVIOUS
  <1>0. "free" \notin Conns /\ "listener" \notin Conns
    BY ServerAssumption, Zenon
  <1> USE DEF ServerTypeOK, Owned, Held, Holding, Live
  <1>1. CASE Start \/ LoopTop \/ AcceptFails \/ AdmitLock \/ Throw \/ JoinThreads
    BY <1>1 DEF Start, LoopTop, AcceptFails, AdmitLock, Throw, JoinThreads, sockVars, mainVars,
                sessVars
  <1>2. CASE JoinReset \/ StopReset
    BY <1>2, ServerAssumption DEF JoinReset, StopReset, mainVars, sessVars, Fds
  <1>3. CASE open_listener
    <2>1. CASE main_pc' = "throw" /\ UNCHANGED <<fds, listener_socket>>
      BY <1>3, <2>1, Zenon DEF open_listener, sessVars
    <2>2. CASE FreeFds # {} /\ main_pc' = "top"
               /\ fds' = [fds EXCEPT ![NewFd] = "listener"] /\ listener_socket' = NewFd
      BY <1>0, <1>3, <2>2, NewFdIsFree DEF open_listener, sessVars
    <2>3. QED
      BY <1>3, <2>1, <2>2, Zenon DEF open_listener
  <1>4. CASE Accept
    <2>1. NewFd \in Fds /\ fds[NewFd] = "free"
      BY <1>4, NewFdIsFree, Zenon DEF Accept
    <2>2. PICK c \in Conns :
            /\ session[c] = "backlog" /\ session' = [session EXCEPT ![c] = "accepted"]
            /\ conn' = [id |-> c, fd |-> NewFd] /\ fds' = [fds EXCEPT ![NewFd] = c]
      BY <1>4, Zenon DEF Accept
    <2>3. /\ main_pc = "accept" /\ main_pc' = "admit" /\ fd_of' = fd_of
          /\ listener_socket' = listener_socket /\ listener_socket \in Fds
          /\ fds[listener_socket] = "listener"
      BY <1>4, Zenon DEF Accept, ListenerUsable
    <2>4. listener_socket # NewFd
      BY <2>1, <2>3, Zenon
    <2> HIDE DEF Fds
    <2>5. QED
      BY <1>0, <2>1, <2>2, <2>3, <2>4
  <1>5. CASE AcceptAborts
    BY <1>5 DEF AcceptAborts, sockVars
  <1>6. CASE admit_client
    BY <1>6, Zenon DEF admit_client, sessVars
  <1>7. CASE Refuse
    <2>1. /\ main_pc = "refuse" /\ main_pc' = "top" /\ fds' = Closed(conn.fd)
          /\ session' = [session EXCEPT ![conn.id] = "done"]
          /\ UNCHANGED <<fd_of, listener_socket>>
      BY <1>7, Zenon DEF Refuse
    <2>2. QED
      BY <1>0, <2>1, ClosedEffect
  <1>8. CASE Spawn
    BY <1>8, Zenon DEF Spawn, sockVars
  <1>9. CASE JoinClose \/ StopClose
    <2>1. /\ fds' = Closed(listener_socket) /\ UNCHANGED <<listener_socket, conn, session, fd_of>>
          /\ Holding' = Holding
      BY <1>9 DEF JoinClose, StopClose, mainVars, sessVars
    <2>2. QED
      BY <1>0, <2>1, ClosedEffect
  <1>10. CASE StopCall \/ StopShutdown \/ StopSweep
    BY <1>10 DEF StopCall, StopShutdown, StopSweep, sockVars, mainVars, sessVars
  <1>11. ASSUME NEW c \in Conns,
                \/ Connect(c) \/ SessionTop(c) \/ SessionRead(c) \/ SessionCut(c)
                \/ SessionErase(c) \/ SessionJoin(c)
         PROVE  Owned'
    BY <1>11 DEF Connect, SessionTop, SessionRead, SessionCut, SessionErase, SessionJoin,
                 sockVars, mainVars
  <1>12. ASSUME NEW c \in Conns, SessionClose(c) PROVE Owned'
    <2>1. /\ session[c] = "close" /\ fds' = Closed(fd_of[c])
          /\ session' = [session EXCEPT ![c] = "done"]
          /\ UNCHANGED <<fd_of, listener_socket, main_pc, conn>>
      BY <1>12, Zenon DEF SessionClose, mainVars
    <2>2. QED
      BY <1>0, <2>1, ClosedEffect
  <1>13. CASE UNCHANGED serverVars
    BY <1>13, Zenon DEF serverVars, sockVars, mainVars, sessVars
  <1>14. QED
    BY <1>1, <1>2, <1>3, <1>4, <1>5, <1>6, <1>7, <1>8, <1>9, <1>10, <1>11, <1>12, <1>13, Zenon
       DEF ServerNext, Main, StopBody, SessionSteps, Returned

(* A session thread is recorded before it is live and joined before run()  *)
(* returns.                                                                *)
LEMMA StepJoinable == ServerTypeOK /\ Owned /\ Joinable /\ [ServerNext]_serverVars => Joinable'
  <1> SUFFICES ASSUME ServerTypeOK, Owned, Joinable, [ServerNext]_serverVars PROVE Joinable'
    OBVIOUS
  <1> USE DEF ServerTypeOK, Joinable, Live
  <1>1. CASE Start \/ LoopTop \/ AcceptFails \/ AdmitLock \/ Throw
    BY <1>1, Zenon DEF Start, LoopTop, AcceptFails, AdmitLock, Throw, sessVars
  <1>2. CASE open_listener \/ Accept \/ AcceptAborts \/ admit_client
    BY <1>2, Zenon DEF open_listener, Accept, AcceptAborts, admit_client, sessVars
  <1>3. CASE Refuse \/ Spawn
    BY <1>3 DEF Refuse, Spawn, Owned, Held, Holding
  <1>4. CASE JoinClose \/ JoinReset
    BY <1>4, Zenon DEF JoinClose, JoinReset, sessVars
  <1>5. CASE JoinThreads
    BY <1>5, Zenon DEF JoinThreads, all_done, sessVars
  <1>6. CASE StopCall \/ StopShutdown \/ StopClose \/ StopReset \/ StopSweep
    BY <1>6, Zenon DEF StopCall, StopShutdown, StopClose, StopReset, StopSweep, mainVars,
       sessVars
  <1>7. ASSUME NEW c \in Conns, Connect(c) \/ SessionSteps(c) \/ SessionRead(c) PROVE Joinable'
    BY <1>7, Zenon DEF Connect, SessionSteps, SessionTop, SessionRead, SessionCut, SessionErase,
       SessionJoin, SessionClose, mainVars
  <1>8. CASE UNCHANGED serverVars
    BY <1>8, Zenon DEF serverVars, mainVars, sessVars
  <1>9. QED
    BY <1>1, <1>2, <1>3, <1>4, <1>5, <1>6, <1>7, <1>8, Zenon DEF ServerNext, Main, StopBody,
       Returned
-----------------------------------------------------------------------------
(* Admission, the erase of session_loop and stop() keep the registry       *)
(* exact.                                                                  *)
LEMMA StepRegistered == ServerTypeOK /\ Owned /\ Registered /\ [ServerNext]_serverVars => Registered'
  <1> SUFFICES ASSUME ServerTypeOK, Owned, Registered, [ServerNext]_serverVars PROVE Registered'
    OBVIOUS
  <1> USE DEF ServerTypeOK, Registered, Reading
  <1>1. CASE Start \/ LoopTop \/ AcceptFails \/ AdmitLock \/ Throw
    BY <1>1, SMTT(30) DEF Start, LoopTop, AcceptFails, AdmitLock, Throw, sockVars, sessVars
  <1>2. CASE open_listener \/ Accept \/ AcceptAborts
    BY <1>2 DEF open_listener, Accept, AcceptAborts, sockVars, sessVars
  <1>3. CASE admit_client
    <2>1. CASE client_sockets' = client_sockets /\ main_pc' = "refuse"
      BY <1>3, <2>1, Zenon DEF admit_client, sessVars
    <2>2. CASE /\ client_sockets' = client_sockets \cup {conn.fd} /\ main_pc' = "spawn"
               /\ ~(Cardinality(client_sockets) >= max_clients)
      <3>1. Cardinality(client_sockets') <= Cardinality(client_sockets) + 1
        <4>1. CASE conn.fd \in client_sockets
          <5>1. client_sockets' = client_sockets
            BY <2>2, <4>1, Zenon
          <5>2. QED
            BY <5>1, SocketsFinite
        <4>2. CASE conn.fd \notin client_sockets
          <5>1. Cardinality(client_sockets') = Cardinality(client_sockets) + 1
            BY <2>2, <4>2, SocketsFinite, FS_AddElement, Zenon
          <5>2. QED
            BY <5>1, SocketsFinite
        <4>3. QED
          BY <4>1, <4>2, Zenon
      <3>2. Cardinality(client_sockets') \in Nat
        BY <2>2, SocketsFinite, FS_AddElement, FS_CardinalityType, Zenon
      <3>3. Cardinality(client_sockets') <= max_clients
        BY <2>2, <3>1, <3>2, SocketsFinite, ServerAssumption
      <3>4. QED
        BY <1>3, <2>2, <3>3, Zenon DEF admit_client, sessVars
    <2>3. QED
      BY <1>3, <2>1, <2>2, Zenon DEF admit_client
  <1>4. CASE Refuse \/ Spawn
    BY <1>4 DEF Refuse, Spawn, sockVars, Owned, Held, Holding
  <1>5. CASE JoinClose \/ JoinReset \/ JoinThreads
    BY <1>5 DEF JoinClose, JoinReset, JoinThreads, sockVars, sessVars
  <1>6. CASE StopCall \/ StopShutdown \/ StopClose \/ StopReset \/ StopSweep
    BY <1>6, Zenon DEF StopCall, StopShutdown, StopClose, StopReset, StopSweep, sockVars,
       mainVars, sessVars
  <1>7. ASSUME NEW c \in Conns,
               \/ Connect(c) \/ SessionTop(c) \/ SessionRead(c) \/ SessionCut(c)
               \/ SessionJoin(c) \/ SessionClose(c)
        PROVE  Registered'
    <2>1. /\ UNCHANGED <<client_sockets, main_pc, conn, fd_of>>
          /\ \E l \in SessionLabels : session' = [session EXCEPT ![c] = l]
      BY <1>7, Zenon DEF Connect, SessionTop, SessionRead, SessionCut, SessionJoin, SessionClose,
         sockVars, mainVars, SessionLabels
    <2>2. Reading(c)' = Reading(c)
      BY <1>7, SMTT(30) DEF Connect, SessionTop, SessionRead, SessionCut, SessionJoin, SessionClose
    <2>3. QED
      BY <2>1, <2>2
  <1>8. ASSUME NEW c \in Conns, SessionErase(c) PROVE Registered'
    <2>1. /\ session[c] = "erase" /\ session' = [session EXCEPT ![c] = "join"]
          /\ client_sockets' = client_sockets \ {fd_of[c]}
          /\ UNCHANGED <<main_pc, conn, fd_of>>
      BY <1>8, Zenon DEF SessionErase, erased, mainVars
    <2>2. Cardinality(client_sockets') <= max_clients
      <3>1. client_sockets' \subseteq client_sockets
        BY <2>1, Zenon
      <3>2. /\ Cardinality(client_sockets') <= Cardinality(client_sockets)
            /\ Cardinality(client_sockets') \in Nat
        BY <3>1, SocketsFinite, FS_Subset, FS_CardinalityType, Zenon
      <3>3. QED
        BY <3>2, SocketsFinite, ServerAssumption
    <2>3. \A d \in Conns : d # c /\ Reading(d) => fd_of[d] # fd_of[c]
      BY <2>1 DEF Owned, Live
    <2>4. main_pc = "spawn" => conn.fd # fd_of[c]
      BY <2>1 DEF Owned, Held, Holding, Live
    <2>5. QED
      BY <2>1, <2>2, <2>3, <2>4
  <1>9. CASE UNCHANGED serverVars
    BY <1>9, Zenon DEF serverVars, sockVars, mainVars, sessVars
  <1>10. QED
    BY <1>1, <1>2, <1>3, <1>4, <1>5, <1>6, <1>7, <1>8, <1>9, Zenon DEF ServerNext, Main,
       StopBody, SessionSteps, Returned

(* The inductive invariant of the listener, its sessions and stop() always *)
(* holds.                                                                  *)
LEMMA ServerInvariant == ServerSpec => []ServerInv
  <1>1. ServerInv /\ [ServerNext]_serverVars => ServerInv'
    BY ServerStepTypeOK, StepOwned, StepJoinable, StepRegistered, Zenon DEF ServerInv
  <1>2. QED
    BY <1>1, ServerInitInv, PTL DEF ServerSpec

(* A session's descriptor stays its own until the session closes it: the   *)
(* listener's number, closed twice on the way out of run(), is never that  *)
(* of a client, and a number is reused only once its owner has closed it.  *)
THEOREM DescriptorIsOwn == ServerSpec => []SessionOwnsFd
  <1>1. ServerInv => SessionOwnsFd
    BY Zenon DEF ServerInv, Owned, SessionOwnsFd
  <1>2. QED
    BY <1>1, ServerInvariant, PTL

(* client_sockets_ names exactly the sessions that can block in a read,    *)
(* and the connection about to become one; since no two share a            *)
(* descriptor, max_clients bounds the sessions and not only the set.       *)
THEOREM RegistryExact == ServerSpec => []RegistryIsExact
  <1>1. ServerInv => RegistryIsExact
    <2> SUFFICES ASSUME ServerInv
                 PROVE  Cardinality({c \in Conns : Reading(c)}) <= max_clients
      BY Zenon DEF ServerInv, Registered, Reading, RegistryIsExact
    <2> DEFINE S == {c \in Conns : Reading(c)}
               f == [c \in S |-> fd_of[c]]
    <2>1. f \in [S -> client_sockets]
      BY Zenon DEF ServerInv, Registered
    <2>2. \A c, d \in S : f[c] = f[d] => c = d
      BY DEF ServerInv, Owned, Live, Reading
    <2>3. f \in Injection(S, client_sockets)
      BY <2>1, <2>2, Zenon DEF Injection, IsInjective
    <2>4. IsFiniteSet(S) /\ Cardinality(S) <= Cardinality(client_sockets)
      BY <2>3, SocketsFinite, FS_Injection, Zenon DEF ServerInv
    <2>5. Cardinality(S) \in Nat
      BY <2>4, FS_CardinalityType, Zenon
    <2> HIDE DEF S
    <2>6. Cardinality(S) <= max_clients
      BY <2>4, <2>5, SocketsFinite, ServerAssumption DEF ServerInv, Registered
    <2>7. QED
      BY <2>6, Zenon DEF S
  <1>2. QED
    BY <1>1, ServerInvariant, PTL

(* When run() returns, every session has ended and no descriptor of a      *)
(* client is left open, those refused or cut by stop() included.           *)
THEOREM NothingLeftBehind == ServerSpec => []ReturnedMeansQuiet
  <1>1. ServerInv => ReturnedMeansQuiet
    BY Zenon DEF ServerInv, Owned, Joinable, Holding, ReturnedMeansQuiet
  <1>2. QED
    BY <1>1, ServerInvariant, PTL
-----------------------------------------------------------------------------
(* Nothing has begun before run(), and only an effective stop() has        *)
(* cleared the flag since.                                                 *)
Started ==
    /\ main_pc = "start" => /\ stop_pc = "idle" /\ ~running /\ ~listening
                            /\ \A c \in Conns : session[c] = "none"
    /\ stop_pc # "idle" => ~running

(* run() and stop() keep it: the flag is set once, by run(), and stop()    *)
(* only clears it.                                                         *)
LEMMA StepStarted == Started /\ [ServerNext]_serverVars => Started'
  <1> SUFFICES ASSUME Started, [ServerNext]_serverVars PROVE Started'
    OBVIOUS
  <1> USE DEF Started
  <1>1. CASE \/ Start \/ LoopTop \/ AcceptFails \/ AcceptAborts \/ AdmitLock \/ Throw
             \/ JoinReset \/ JoinThreads
    BY <1>1 DEF Start, LoopTop, AcceptFails, AcceptAborts, AdmitLock, Throw, JoinReset,
                JoinThreads, stopVars
  <1>2. CASE open_listener \/ Accept \/ admit_client \/ Refuse \/ Spawn \/ JoinClose
    BY <1>2 DEF open_listener, Accept, admit_client, Refuse, Spawn, JoinClose, stopVars
  <1>3. CASE StopCall \/ StopBody
    BY <1>3, SMTT(30) DEF StopCall, StopBody, StopShutdown, StopClose, StopReset, StopSweep, mainVars
  <1>4. ASSUME NEW c \in Conns, Connect(c) \/ SessionSteps(c) \/ SessionRead(c) PROVE Started'
    BY <1>4, SMTT(30) DEF Connect, SessionSteps, SessionTop, SessionCut, SessionErase, SessionJoin,
                SessionClose, SessionRead, sockVars, mainVars, stopVars
  <1>5. CASE UNCHANGED serverVars
    BY <1>5, Zenon DEF serverVars, sockVars, mainVars, sessVars, stopVars
  <1>6. QED
    BY <1>1, <1>2, <1>3, <1>4, <1>5, Zenon DEF ServerNext, Main, Returned

(* The registry in terms of where the threads are. *)
LEMMA RegistryOf ==
  ASSUME ServerInv, NEW c \in Conns
  PROVE  InRegistry(c) <=> Reading(c) \/ (main_pc = "spawn" /\ conn.id = c)
  BY DEF ServerInv, Owned, Held, Holding, Registered, InRegistry, Reading, Live

(* Every step of the server is, for each connection, a step of the outline *)
(* or none.                                                                *)
LEMMA StepOutlined ==
  ASSUME ServerInv, ServerInv', Started, [ServerNext]_serverVars, NEW c \in Conns
  PROVE  Outline(c)!Next \/ UNCHANGED Outline(c)!outline
  <1>1. InRegistry(c) <=> Reading(c) \/ (main_pc = "spawn" /\ conn.id = c)
    BY RegistryOf, Zenon
  <1>2. InRegistry(c)' <=> Reading(c)' \/ (main_pc' = "spawn" /\ conn'.id = c)
    BY DEF ServerInv, Owned, Held, Holding, Registered, InRegistry, Reading, Live
  <1>3. InRegistry(c) \in BOOLEAN /\ InRegistry(c)' \in BOOLEAN
    BY Zenon DEF InRegistry
  <1>4. ASSUME running' = running, InRegistry(c)' = InRegistry(c), shut' = shut,
               Phase(c)' = Phase(c)
        PROVE  UNCHANGED Outline(c)!outline
    BY <1>4, Zenon DEF Outline!outline
  <1>0. session \in [Conns -> SessionLabels]
    BY Zenon DEF ServerInv, ServerTypeOK
  <1> HIDE DEF ServerInv
  <1> USE DEF SessionLabels, Phase, Reading
  <1>5. CASE \/ LoopTop \/ AcceptFails \/ AdmitLock \/ JoinReset \/ JoinThreads \/ open_listener
             \/ JoinClose \/ StopShutdown \/ StopClose \/ StopReset
    <2>1. \/ UNCHANGED <<running, session, shut>> /\ main_pc # "spawn" /\ main_pc' # "spawn"
          \/ UNCHANGED <<running, session, shut, main_pc, conn>>
      BY <1>5, Zenon DEF LoopTop, AcceptFails, AdmitLock, JoinReset, JoinThreads, open_listener,
         JoinClose, StopShutdown, StopClose, StopReset, mainVars, sessVars
    <2>2. QED
      BY <1>1, <1>2, <1>3, <1>4, <2>1, Zenon
  <1>6. CASE Start \/ Throw \/ StopCall
    <2>1. /\ UNCHANGED <<session, shut>>
          /\ (main_pc # "spawn" /\ main_pc' # "spawn") \/ UNCHANGED <<main_pc, conn>>
          /\ running' = running \/ ~running' \/ session[c] = "none"
      BY <1>6, Zenon DEF Start, Throw, StopCall, mainVars, sessVars, Started
    <2>2. InRegistry(c)' = InRegistry(c) /\ Phase(c)' = Phase(c)
      BY <1>1, <1>2, <1>3, <2>1, Zenon
    <2>3. CASE running' = running
      BY <1>4, <2>1, <2>2, <2>3, Zenon
    <2>4. CASE ~running' \/ session[c] = "none"
      <3>1. Outline(c)!Flag
        BY <2>1, <2>2, <2>4, Zenon DEF Outline!Flag
      <3>2. QED
        BY <3>1, Zenon DEF Outline!Next
    <2>5. QED
      BY <2>1, <2>3, <2>4, Zenon
  <1>7. CASE Accept
    <2>1. UNCHANGED <<running, shut>> /\ main_pc # "spawn" /\ main_pc' # "spawn"
          /\ \E d \in Conns : /\ session[d] = "backlog"
                              /\ session' = [session EXCEPT ![d] = "accepted"]
      BY <1>7, Zenon DEF Accept
    <2>2. InRegistry(c)' = InRegistry(c) /\ Phase(c)' = Phase(c)
      BY <1>0, <1>1, <1>2, <1>3, <2>1, Zenon
    <2>3. QED
      BY <1>4, <2>1, <2>2, Zenon
  <1>8. CASE admit_client
    <2>1. UNCHANGED <<running, session, shut, conn>> /\ main_pc = "admitting"
      BY <1>8, Zenon DEF admit_client, sessVars
    <2>2. Holding /\ session[conn.id] = "accepted"
      BY <2>1, Zenon DEF Holding, ServerInv, Owned, Held
    <2>3. CASE InRegistry(c)' = InRegistry(c)
      BY <1>4, <2>1, <2>3, Zenon
    <2>4. CASE InRegistry(c)' # InRegistry(c)
      <3>1. Outline(c)!Admit
        BY <1>1, <1>2, <1>3, <2>1, <2>2, <2>4 DEF Outline!Admit
      <3>2. QED
        BY <3>1, Zenon DEF Outline!Next
    <2>5. QED
      BY <2>3, <2>4, Zenon
  <1>9. CASE Refuse \/ AcceptAborts
    <2>1. PICK d \in Conns :
            /\ session[d] \in {"backlog", "accepted"}
            /\ session' = [session EXCEPT ![d] = "done"]
            /\ UNCHANGED <<running, shut>> /\ main_pc # "spawn" /\ main_pc' # "spawn"
      BY <1>9, Zenon DEF Refuse, AcceptAborts, Holding, ServerInv, Owned, Held
    <2>2. CASE c # d
      BY <1>0, <1>1, <1>2, <1>3, <1>4, <2>1, <2>2, Zenon
    <2>3. CASE c = d
      <3>1. Outline(c)!Begin
        BY <1>0, <1>1, <1>2, <1>3, <2>1, <2>3, Zenon DEF Outline!Begin
      <3>2. QED
        BY <3>1, Zenon DEF Outline!Next
    <2>4. QED
      BY <2>2, <2>3, Zenon
  <1>10. CASE Spawn
    <2>1. PICK d \in Conns :
            /\ d = conn.id /\ session[d] = "accepted" /\ session' = [session EXCEPT ![d] = "top"]
            /\ UNCHANGED <<running, shut>> /\ main_pc = "spawn" /\ main_pc' = "top"
      BY <1>10, Zenon DEF Spawn, Holding, ServerInv, Owned, Held
    <2>2. CASE c # d
      BY <1>0, <1>1, <1>2, <1>3, <1>4, <2>1, <2>2, Zenon
    <2>3. CASE c = d
      <3>1. Outline(c)!Begin
        BY <1>0, <1>1, <1>2, <1>3, <2>1, <2>3, Zenon DEF Outline!Begin
      <3>2. QED
        BY <3>1, Zenon DEF Outline!Next
    <2>4. QED
      BY <2>2, <2>3, Zenon
  <1>11. CASE StopSweep
    <2>1. /\ UNCHANGED <<running, session, main_pc, conn>> /\ ~running
          /\ shut' = shut \cup swept
      BY <1>11, Zenon DEF StopSweep, mainVars, Started
    <2>2. InRegistry(c)' = InRegistry(c) /\ Phase(c)' = Phase(c)
      BY <1>1, <1>2, <1>3, <2>1, Zenon
    <2>3. c \in swept <=> InRegistry(c)
      BY Zenon DEF swept, InRegistry
    <2>4. CASE InRegistry(c)
      <3>1. Outline(c)!Sweep
        BY <2>1, <2>2, <2>3, <2>4, Zenon DEF Outline!Sweep
      <3>2. QED
        BY <3>1, Zenon DEF Outline!Next
    <2>5. CASE ~InRegistry(c)
      <3>1. (c \in shut') = (c \in shut)
        BY <2>1, <2>3, <2>5, SMTT(30)
      <3>2. QED
        BY <2>1, <2>2, <3>1, Zenon DEF Outline!outline
    <2>6. QED
      BY <2>4, <2>5, Zenon
  <1>12. ASSUME NEW d \in Conns, Connect(d) \/ SessionSteps(d) \/ SessionRead(d)
         PROVE  Outline(c)!Next \/ UNCHANGED Outline(c)!outline
    <2>1. UNCHANGED <<running, main_pc, conn>>
      BY <1>12, Zenon DEF Connect, SessionSteps, SessionTop, SessionCut, SessionErase,
         SessionJoin, SessionClose, SessionRead, mainVars
    <2>2. /\ \E label \in SessionLabels : session' = [session EXCEPT ![d] = label]
          /\ shut' = shut \/ shut' = shut \cup {d}
      BY <1>12, Zenon DEF Connect, SessionSteps, SessionTop, SessionCut, SessionErase,
         SessionJoin, SessionClose, SessionRead
    <2>3. CASE c # d
      <3>1. session'[c] = session[c] /\ (c \in shut') = (c \in shut)
        BY <1>0, <2>2, <2>3
      <3>2. InRegistry(c)' = InRegistry(c) /\ Phase(c)' = Phase(c)
        BY <1>1, <1>2, <1>3, <2>1, <3>1, Zenon
      <3>3. QED
        BY <2>1, <3>1, <3>2, Zenon DEF Outline!outline
    <2>4. CASE c = d
      <3>0. main_pc = "spawn" /\ conn.id = c => session[c] = "accepted"
        BY Zenon DEF Holding, ServerInv, Owned, Held
      <3>1. CASE Connect(d)
        <4>1. session[c] = "none" /\ session'[c] = "backlog" /\ shut' = shut
          BY <1>0, <2>4, <3>1, Zenon DEF Connect
        <4>2. InRegistry(c)' = InRegistry(c) /\ Phase(c)' = Phase(c)
          BY <1>1, <1>2, <1>3, <2>1, <4>1, Zenon
        <4>3. QED
          BY <1>4, <2>1, <4>1, <4>2, Zenon
      <3>2. CASE SessionTop(d) \/ SessionRead(d) \/ SessionCut(d)
        <4>1. /\ shut' = shut
              /\ \/ session[c] = "top" /\ session'[c] = (IF running THEN "read" ELSE "erase")
                 \/ session[c] = "read" /\ session'[c] \in {"top", "erase"}
          BY <1>0, <2>4, <3>2, Zenon DEF SessionTop, SessionRead, SessionCut
        <4>2. InRegistry(c)' = InRegistry(c)
          BY <1>1, <1>2, <1>3, <2>1, <4>1, Zenon
        <4>3. Outline(c)!Test \/ Outline(c)!Read
          BY <2>1, <4>1, <4>2, Zenon DEF Outline!Test, Outline!Read
        <4>4. QED
          BY <4>3, Zenon DEF Outline!Next, Outline!Steps
      <3>3. CASE SessionErase(d)
        <4>1. shut' = shut /\ session[c] = "erase" /\ session'[c] = "join"
          BY <1>0, <2>4, <3>3, Zenon DEF SessionErase
        <4>2. ~InRegistry(c)'
          BY <1>2, <2>1, <3>0, <4>1, Zenon
        <4>3. Outline(c)!Erase
          BY <1>3, <2>1, <4>1, <4>2, Zenon DEF Outline!Erase
        <4>4. QED
          BY <4>3, Zenon DEF Outline!Next, Outline!Steps
      <3>4. CASE SessionJoin(d)
        <4>1. c \in shut' /\ session[c] = "join" /\ session'[c] = "close"
          BY <1>0, <2>4, <3>4, Zenon DEF SessionJoin
        <4>2. InRegistry(c)' = InRegistry(c)
          BY <1>1, <1>2, <1>3, <2>1, <4>1, Zenon
        <4>3. Outline(c)!Join
          BY <2>1, <4>1, <4>2, Zenon DEF Outline!Join
        <4>4. QED
          BY <4>3, Zenon DEF Outline!Next, Outline!Steps
      <3>5. CASE SessionClose(d)
        <4>1. shut' = shut /\ session[c] = "close" /\ session'[c] = "done"
          BY <1>0, <2>4, <3>5, Zenon DEF SessionClose
        <4>2. InRegistry(c)' = InRegistry(c)
          BY <1>1, <1>2, <1>3, <2>1, <4>1, Zenon
        <4>3. Outline(c)!Close
          BY <2>1, <4>1, <4>2, Zenon DEF Outline!Close
        <4>4. QED
          BY <4>3, Zenon DEF Outline!Next, Outline!Steps
      <3>6. QED
        BY <1>12, <3>1, <3>2, <3>3, <3>4, <3>5, Zenon DEF SessionSteps
    <2>5. QED
      BY <2>3, <2>4, Zenon
  <1>13. CASE UNCHANGED serverVars
    BY <1>1, <1>2, <1>3, <1>4, <1>13, Zenon DEF serverVars, mainVars, sessVars
  <1>14. QED
    BY <1>5, <1>6, <1>7, <1>8, <1>9, <1>10, <1>11, <1>12, <1>13, Zenon DEF ServerNext, Main,
       StopBody, Returned

(* BrokerServer's sessions are the outline that BrokerSession keeps to,    *)
(* with any number of clients and descriptors.                             *)
THEOREM SessionsKeepOutline == ServerSpec => SessionsOutlined
  <1>1. ServerInit => Started
    BY Zenon DEF ServerInit, Started
  <1>2. ServerInv /\ ServerInv' /\ Started /\ [ServerNext]_serverVars =>
          [\A c \in Conns : Outline(c)!Next \/ UNCHANGED Outline(c)!outline]_serverVars
    BY StepOutlined, Zenon
  <1>3. QED
    BY <1>1, <1>2, ServerInvariant, StepStarted, PTL DEF ServerSpec, SessionsOutlined
-----------------------------------------------------------------------------
(* The tensor runtime. *)

Engine == [input : Nat, output : Nat]

Build == [model_id : ModelIds \cup {0}, engine : Engine]

Task == [client : Clients, model_id : ModelIds]

Lane ==
    [client : Clients \cup {NoClient}, active_model_id : ModelIds \cup {0}, context : Engine,
     input_cap : Nat, output_cap : Nat, output_size : Nat, in_flight : BOOLEAN,
     status : {"idle", "busy", "success", "error"}]

TypeOK ==
    /\ models \in [ModelIds -> Engine]
    /\ queue \in [Gpus -> Seq(Task)]
    /\ lane \in [Gpus -> [Lanes -> Lane]]
    /\ at \in [Gpus -> 0..(2 * NumLanes - 1)]
    /\ rr_counter \in Nat
    /\ pc \in [Clients -> {"read", "store", "get", "closed"}]
    /\ built \in [Clients -> Build]
    /\ \A c \in Clients : pc[c] = "store" => built[c].model_id \in ModelIds
    /\ promise \in [Clients -> Int]
    /\ DOMAIN asked = Clients

(* Of a lane, free or not: its buffers hold what its context and its last  *)
(* copy need.                                                              *)
Fits(ln) ==
    /\ ln.context.input <= ln.input_cap
    /\ ln.context.output <= ln.output_cap
    /\ ln.output_size <= ln.output_cap

AllFit == \A g \in Gpus, l \in Lanes : Fits(lane[g][l])
-----------------------------------------------------------------------------
(* The sizes an engine needs are numbers.                                  *)
LEMMA Engines_are ==
  /\ Engines \subseteq Engine /\ NoEngine \in Engine
  /\ \A e \in Engine : e.input \in Nat /\ e.output \in Nat
  BY RuntimeAssumption, Zenon DEF Engine, NoEngine

(* There are GPUs, lanes and model ids, and the round robin names a GPU.   *)
LEMMA Sizes ==
  /\ NumGpus \in Nat \ {0} /\ NumLanes \in Nat \ {0} /\ ModelIds \subseteq Nat \ {0}
  /\ \A n \in Nat : n % NumGpus \in Gpus
  <1>1. NumGpus \in Nat \ {0} /\ NumLanes \in Nat \ {0} /\ ModelIds \subseteq Nat \ {0}
    BY RuntimeAssumption, Zenon
  <1>2. \A n \in Nat : n % NumGpus \in 0..(NumGpus - 1)
    BY <1>1
  <1>3. QED
    BY <1>1, <1>2, Zenon DEF Gpus

(* A lane that is launched or collected is a lane, and keeps its buffers   *)
(* large enough: a kept context is one they already held.                  *)
LEMMA LaunchedLane ==
  ASSUME NEW ln \in Lane, Fits(ln), NEW task \in Task, NEW model \in Engine
  PROVE  /\ launched(ln, task, model) \in Lane
         /\ Fits(launched(ln, task, model))
  <1> DEFINE context == IF ln.active_model_id # task.model_id \/ ln.context = NoEngine
                        THEN model ELSE ln.context
             input_cap == capacity(ln.input_cap, model.input)
             output_cap == capacity(ln.output_cap, model.output)
  <1>1. /\ ln.context \in Engine /\ ln.input_cap \in Nat /\ ln.output_cap \in Nat
        /\ task.client \in Clients /\ task.model_id \in ModelIds
    BY Zenon DEF Lane, Task
  <1>2. /\ \A e \in Engine : e.input \in Nat /\ e.output \in Nat
    BY Engines_are, Zenon
  <1>3. /\ context \in Engine /\ input_cap \in Nat /\ output_cap \in Nat
        /\ context.input <= input_cap /\ context.output <= output_cap
        /\ model.output <= output_cap /\ model.output \in Nat
    BY <1>1, <1>2 DEF capacity, Fits
  <1>4. launched(ln, task, model)
          = [ln EXCEPT !.client = task.client, !.in_flight = TRUE, !.status = "busy",
                       !.output_size = model.output, !.active_model_id = task.model_id,
                       !.context = context, !.input_cap = input_cap, !.output_cap = output_cap]
    BY Zenon DEF launched
  <1> HIDE DEF context, input_cap, output_cap
  <1>5. launched(ln, task, model) \in Lane
    BY <1>1, <1>3, <1>4, Zenon DEF Lane
  <1>6. /\ launched(ln, task, model).context = context
        /\ launched(ln, task, model).input_cap = input_cap
        /\ launched(ln, task, model).output_cap = output_cap
        /\ launched(ln, task, model).output_size = model.output
    BY <1>4, Zenon DEF Lane
  <1>7. QED
    BY <1>3, <1>5, <1>6, Zenon DEF Fits

(* Collecting a result leaves the lane's buffers large enough.             *)
LEMMA CollectedLane ==
  ASSUME NEW ln \in Lane, Fits(ln)
  PROVE  collected(ln) \in Lane /\ Fits(collected(ln))
  BY Zenon DEF Lane, collected, Fits

(* So does the answer of cudaStreamQuery.                                  *)
LEMMA QueriedLane ==
  ASSUME NEW ln \in Lane, Fits(ln), NEW status \in {"success", "error"}
  PROVE  [ln EXCEPT !.status = status] \in Lane /\ Fits([ln EXCEPT !.status = status])
  BY Zenon DEF Lane, Fits

(* What the unlocked table may yield is an engine, or none. *)
LEMMA ModelFound ==
  ASSUME TypeOK, NEW m \in ModelIds PROVE getModel(m) \subseteq Engine
  BY Engines_are DEF TypeOK, getModel, Build

(* The lane the worker looks at, and the one it goes on to, exist.         *)
LEMMA AtLane ==
  ASSUME TypeOK, NEW g \in Gpus
  PROVE  /\ at[g] < NumLanes => at[g] \in Lanes
         /\ at[g] >= NumLanes => at[g] - NumLanes \in Lanes
         /\ (at[g] + 1) % (2 * NumLanes) \in 0..(2 * NumLanes - 1)
  <1>1. at[g] \in 0..(2 * NumLanes - 1) /\ NumLanes \in Nat \ {0}
    BY Sizes, Zenon DEF TypeOK
  <1>2. at[g] \in Nat /\ 2 * NumLanes \in Nat \ {0}
    BY <1>1
  <1>3. \A a \in Nat, n \in Nat \ {0} : (a + 1) % n \in 0..(n - 1)
    OBVIOUS
  <1>4. (at[g] + 1) % (2 * NumLanes) \in 0..(2 * NumLanes - 1)
    BY <1>2, <1>3, Zenon
  <1>5. QED
    BY <1>1, <1>4 DEF Lanes
-----------------------------------------------------------------------------
(* Replacing one lane leaves the others.                                   *)
LEMMA LaneReplaced ==
  ASSUME TypeOK, AllFit, NEW g \in Gpus, NEW l \in Lanes, NEW ln \in Lane, Fits(ln),
         lane' = [lane EXCEPT ![g][l] = ln]
  PROVE  /\ lane' \in [Gpus -> [Lanes -> Lane]] /\ AllFit'
         /\ lane'[g][l] = ln
         /\ \A h \in Gpus, k \in Lanes : h # g \/ k # l => lane'[h][k] = lane[h][k]
  <1>1. lane \in [Gpus -> [Lanes -> Lane]]
    BY Zenon DEF TypeOK
  <1>2. /\ lane' \in [Gpus -> [Lanes -> Lane]] /\ lane'[g][l] = ln
        /\ \A h \in Gpus, k \in Lanes : h # g \/ k # l => lane'[h][k] = lane[h][k]
    BY <1>1, Zenon
  <1>3. AllFit'
    BY <1>2, Zenon DEF AllFit
  <1>4. QED
    BY <1>2, <1>3, Zenon

(* The step of a worker: the lane it looks at, and what becomes of it. *)
LEMMA PollEffect ==
  ASSUME TypeOK, AllFit, NEW g \in Gpus, PollLane(g)
  PROVE  \E l \in Lanes :
           \/ UNCHANGED <<promise, lane>>
           \/ /\ lane[g][l].in_flight
              /\ lane' = [lane EXCEPT ![g][l] = collected(lane[g][l])]
              /\ promise' = [promise EXCEPT ![lane[g][l].client] = lane[g][l].output_size]
  <1>1. at[g] \in Lanes
    BY AtLane, Zenon DEF PollLane
  <1>2. QED
    BY <1>1, Zenon DEF PollLane

(* What the second pass does with the head of its queue: nothing, an empty *)
(* answer when the model is missing, or a launch on an idle lane.          *)
LEMMA FillEffect ==
  ASSUME TypeOK, AllFit, NEW g \in Gpus, FillLane(g)
  PROVE  \/ UNCHANGED <<queue, lane, promise>>
         \/ /\ queue[g] # <<>> /\ queue' = [queue EXCEPT ![g] = Tail(queue[g])]
            /\ \/ /\ promise' = [promise EXCEPT ![Head(queue[g]).client] = 0]
                  /\ lane' = lane
               \/ /\ promise' = promise
                  /\ \E l \in Lanes, model \in Engine :
                       /\ ~lane[g][l].in_flight
                       /\ lane' = [lane EXCEPT ![g][l] =
                                     launched(lane[g][l], Head(queue[g]), model)]
  <1>1. at[g] - NumLanes \in Lanes
    BY AtLane, Zenon DEF FillLane
  <1>2. CASE lane[g][at[g] - NumLanes].in_flight \/ queue[g] = <<>>
    BY <1>2, Zenon DEF FillLane
  <1>3. CASE ~lane[g][at[g] - NumLanes].in_flight /\ queue[g] # <<>>
    <2>1. Head(queue[g]) \in Task
      BY <1>3 DEF TypeOK
    <2>2. Head(queue[g]).model_id \in ModelIds
      BY <2>1, Zenon DEF Task
    <2>3. getModel(Head(queue[g]).model_id) \subseteq Engine
      BY <2>2, ModelFound, Zenon
    <2>4. QED
      BY <1>1, <1>3, <2>3, Zenon DEF FillLane
  <1>4. QED
    BY <1>2, <1>3, Zenon

(* Every step keeps the types and leaves buffers large enough.             *)
LEMMA StepTypeOK == TypeOK /\ AllFit /\ [Next]_vars => TypeOK' /\ AllFit'
  <1> SUFFICES ASSUME TypeOK, AllFit, [Next]_vars PROVE TypeOK' /\ AllFit'
    OBVIOUS
  <1>1. ASSUME NEW c \in Clients, loadOnnxModel(c) PROVE TypeOK' /\ AllFit'
    <2>1. UNCHANGED <<models, queue, lane, at, rr_counter, promise>> /\ DOMAIN asked' = Clients
      BY <1>1, Zenon DEF loadOnnxModel, Read, work, TypeOK
    <2>2. \/ /\ pc' = [pc EXCEPT ![c] = "store"]
             /\ \E m \in ModelIds, e \in Engines :
                  built' = [built EXCEPT ![c] = [model_id |-> m, engine |-> e]]
          \/ UNCHANGED <<pc, built>>
      BY <1>1, Zenon DEF loadOnnxModel, Goto
    <2>3. \A m \in ModelIds, e \in Engines :
            [model_id |-> m, engine |-> e] \in Build
      BY Engines_are, Zenon DEF Build
    <2>4. /\ pc' \in [Clients -> {"read", "store", "get", "closed"}]
          /\ built' \in [Clients -> Build]
      <3>1. built' = built \/ \E b \in Build : built' = [built EXCEPT ![c] = b]
        BY <2>2, <2>3, Zenon
      <3>2. QED
        BY <2>2, <3>1, ZenonT(60) DEF TypeOK
    <2>5. \A d \in Clients : pc'[d] = "store" => built'[d].model_id \in ModelIds
      BY <2>2 DEF TypeOK
    <2>6. QED
      BY <2>1, <2>4, <2>5, Zenon DEF TypeOK, AllFit
  <1>2. ASSUME NEW c \in Clients, StoreModel(c) PROVE TypeOK' /\ AllFit'
    <2>1. UNCHANGED <<queue, lane, at, rr_counter, promise, asked>>
      BY <1>2, Zenon DEF StoreModel, work
    <2>2. models' \in [ModelIds -> Engine]
      BY <1>2, Zenon DEF StoreModel, Storing, TypeOK, Build
    <2>3. NothingBuilt \in Build
      BY Engines_are, Zenon DEF NothingBuilt, Build
    <2>4. pc' = [pc EXCEPT ![c] = "read"] /\ built' = [built EXCEPT ![c] = NothingBuilt]
      BY <1>2, Zenon DEF StoreModel, Goto
    <2>5. QED
      BY <2>1, <2>2, <2>3, <2>4, Zenon DEF TypeOK, AllFit
  <1>3. ASSUME NEW c \in Clients, PushInference(c) PROVE TypeOK' /\ AllFit'
    <2>1. PICK m \in ModelIds :
            queue' = [queue EXCEPT ![rr_counter % NumGpus] =
                        Append(@, [client |-> c, model_id |-> m])]
      BY <1>3, Zenon DEF PushInference
    <2>2. [client |-> c, model_id |-> m] \in Task /\ rr_counter % NumGpus \in Gpus
      BY Sizes, Zenon DEF Task, TypeOK
    <2>3. queue' \in [Gpus -> Seq(Task)]
      BY <2>1, <2>2 DEF TypeOK
    <2>4. /\ UNCHANGED <<models, lane, at, built, promise>> /\ rr_counter' = rr_counter + 1
          /\ pc' = [pc EXCEPT ![c] = "get"] /\ DOMAIN asked' = Clients
      BY <1>3, Zenon DEF PushInference, Goto, Read, TypeOK
    <2>5. QED
      BY <2>3, <2>4 DEF TypeOK, AllFit
  <1>4. ASSUME NEW c \in Clients, OtherOpcode(c) \/ Close(c) \/ Reply(c) PROVE TypeOK' /\ AllFit'
    <2>1. UNCHANGED <<models, queue, lane, at, rr_counter, built>> /\ DOMAIN asked' = Clients
      BY <1>4, Zenon DEF OtherOpcode, Close, Reply, Read, work, TypeOK
    <2>2. \/ pc' = pc \/ pc' = [pc EXCEPT ![c] = "closed"] \/ pc' = [pc EXCEPT ![c] = "read"]
      BY <1>4, Zenon DEF OtherOpcode, Close, Reply, Goto
    <2>3. promise' \in [Clients -> Int]
      <3>1. -1 \in Int
        OBVIOUS
      <3>2. promise' = promise \/ \E v \in Int : promise' = [promise EXCEPT ![c] = v]
        BY <1>4, <3>1, Zenon DEF OtherOpcode, Close, Reply
      <3>3. QED
        BY <3>2, Zenon DEF TypeOK
    <2>4. QED
      BY <2>1, <2>2, <2>3, Zenon DEF TypeOK, AllFit
  <1>5. ASSUME NEW g \in Gpus, gpu_worker_thread(g) PROVE TypeOK' /\ AllFit'
    <2>1. /\ UNCHANGED <<models, rr_counter, pc, asked, built>>
          /\ at' \in [Gpus -> 0..(2 * NumLanes - 1)]
      BY <1>5, AtLane, Zenon DEF gpu_worker_thread, PollLane, FillLane, Advance, TypeOK
    <2>2. CASE PollLane(g)
      <3>1. PICK l \in Lanes :
              \/ UNCHANGED <<promise, lane>>
              \/ /\ lane' = [lane EXCEPT ![g][l] = collected(lane[g][l])]
                 /\ promise' = [promise EXCEPT ![lane[g][l].client] = lane[g][l].output_size]
        BY <2>2, PollEffect, Zenon
      <3>2. lane[g][l] \in Lane /\ Fits(lane[g][l])
        BY Zenon DEF TypeOK, AllFit
      <3>3. lane' \in [Gpus -> [Lanes -> Lane]] /\ AllFit'
        <4>1. CASE lane' = lane
          BY <4>1, Zenon DEF TypeOK, AllFit
        <4>2. CASE lane' = [lane EXCEPT ![g][l] = collected(lane[g][l])]
          BY <3>2, <4>2, CollectedLane, LaneReplaced, Zenon
        <4>3. QED
          BY <3>1, <4>1, <4>2, Zenon
      <3>4. lane[g][l].output_size \in Int
        BY <3>2 DEF Lane
      <3>5. promise' \in [Clients -> Int]
        BY <3>1, <3>4, Zenon DEF TypeOK
      <3>6. queue' = queue
        BY <2>2, Zenon DEF PollLane
      <3>7. QED
        BY <2>1, <3>3, <3>5, <3>6, Zenon DEF TypeOK
    <2>3. CASE FillLane(g)
      <3>1. queue' \in [Gpus -> Seq(Task)]
        <4>1. queue' = queue
              \/ (queue[g] # <<>> /\ queue' = [queue EXCEPT ![g] = Tail(queue[g])])
          BY <2>3, FillEffect, Zenon
        <4>2. queue[g] # <<>> => Tail(queue[g]) \in Seq(Task)
          BY DEF TypeOK
        <4>3. QED
          BY <4>1, <4>2, Zenon DEF TypeOK
      <3>2. promise' \in [Clients -> Int]
        <4>1. promise' = promise \/ \E c : promise' = [promise EXCEPT ![c] = 0]
          BY <2>3, FillEffect, Zenon
        <4>2. QED
          BY <4>1 DEF TypeOK
      <3>3. lane' \in [Gpus -> [Lanes -> Lane]] /\ AllFit'
        <4>1. CASE lane' = lane
          BY <4>1, Zenon DEF TypeOK, AllFit
        <4>2. ASSUME NEW l \in Lanes, NEW model \in Engine, queue[g] # <<>>,
                     lane' = [lane EXCEPT ![g][l] = launched(lane[g][l], Head(queue[g]), model)]
              PROVE  lane' \in [Gpus -> [Lanes -> Lane]] /\ AllFit'
          <5>1. lane[g][l] \in Lane /\ Fits(lane[g][l]) /\ Head(queue[g]) \in Task
            BY <4>2 DEF TypeOK, AllFit
          <5>2. QED
            BY <4>2, <5>1, LaunchedLane, LaneReplaced, Zenon
        <4>3. QED
          BY <2>3, <4>1, <4>2, FillEffect
      <3>4. QED
        BY <2>1, <3>1, <3>2, <3>3, Zenon DEF TypeOK
    <2>4. QED
      BY <1>5, <2>2, <2>3, Zenon DEF gpu_worker_thread
  <1>6. ASSUME NEW g \in Gpus, NEW l \in Lanes, cudaStreamQuery(g, l) PROVE TypeOK' /\ AllFit'
    <2>1. PICK status \in {"success", "error"} :
            lane' = [lane EXCEPT ![g][l] = [lane[g][l] EXCEPT !.status = status]]
      BY <1>6, Zenon DEF cudaStreamQuery, TypeOK
    <2>2. lane' \in [Gpus -> [Lanes -> Lane]] /\ AllFit'
      <3>1. lane[g][l] \in Lane /\ Fits(lane[g][l])
        BY Zenon DEF TypeOK, AllFit
      <3>2. QED
        BY <2>1, <3>1, QueriedLane, LaneReplaced, Zenon
    <2>3. UNCHANGED <<models, queue, at, rr_counter, pc, built, promise, asked>>
      BY <1>6, Zenon DEF cudaStreamQuery, handler
    <2>4. QED
      BY <2>2, <2>3, Zenon DEF TypeOK
  <1>7. CASE UNCHANGED vars
    BY <1>7, Zenon DEF vars, work, handler, TypeOK, AllFit
  <1>8. QED
    BY <1>1, <1>2, <1>3, <1>4, <1>5, <1>6, <1>7, Zenon DEF Next, handle_client
-----------------------------------------------------------------------------
Packet == [type : {"primary", "delta"}, id : Nat, size : Int]

(* The last primary packet of a stream has the length kept in              *)
(* last_result_frame.                                                      *)
Recent(s, size) ==
    size # 0 => \E j \in DOMAIN s :
                  /\ s[j].type = "primary" /\ s[j].size = size
                  /\ \A i \in DOMAIN s : i > j => s[i].type = "delta"

Applies(s) ==
    \A k \in DOMAIN s :
        s[k].type = "delta" =>
            \E j \in 1..(k - 2) :
                /\ s[k - 1] = [s[k] EXCEPT !.type = "primary"]
                /\ s[j].type = "primary" /\ s[j].size = s[k].size
                /\ \A i \in (j + 1)..(k - 2) : s[i].type = "delta"

Streams ==
    /\ sequence_id \in [Clients -> Nat] /\ DOMAIN last = Clients
    /\ sent \in [Clients -> Seq(Packet)]
    /\ \A c \in Clients : Recent(sent[c], last[c]) /\ Applies(sent[c])

(* A primary packet added to a stream. *)
LEMMA PrimaryAdded ==
  ASSUME NEW s \in Seq(Packet), Applies(s), NEW p \in Packet, p.type = "primary"
  PROVE  /\ s \o <<p>> \in Seq(Packet) /\ Applies(s \o <<p>>) /\ Recent(s \o <<p>>, p.size)
  <1> DEFINE n == Len(s)
             t == s \o <<p>>
  <1>1. n \in Nat /\ DOMAIN s = 1..n
    OBVIOUS
  <1>2. t \in Seq(Packet) /\ DOMAIN t = 1..(n + 1) /\ t[n + 1] = p /\ \A i \in 1..n : t[i] = s[i]
    OBVIOUS
  <1> HIDE DEF n, t
  <1>3. Recent(t, p.size)
    <2>1. n + 1 \in DOMAIN t /\ \A i \in DOMAIN t : ~(i > n + 1)
      BY <1>1, <1>2
    <2>2. QED
      BY <1>2, <2>1, Zenon DEF Recent
  <1>4. Applies(t)
    <2> SUFFICES ASSUME NEW k \in DOMAIN t, t[k].type = "delta"
                 PROVE  \E j \in 1..(k - 2) :
                          /\ t[k - 1] = [t[k] EXCEPT !.type = "primary"]
                          /\ t[j].type = "primary" /\ t[j].size = t[k].size
                          /\ \A i \in (j + 1)..(k - 2) : t[i].type = "delta"
      BY Zenon DEF Applies
    <2>1. k \in 1..n
      BY <1>1, <1>2
    <2>2. PICK j \in 1..(k - 2) :
            /\ s[k - 1] = [s[k] EXCEPT !.type = "primary"]
            /\ s[j].type = "primary" /\ s[j].size = s[k].size
            /\ \A i \in (j + 1)..(k - 2) : s[i].type = "delta"
      BY <1>1, <1>2, <2>1, Zenon DEF Applies
    <2>3. /\ k - 1 \in 1..n /\ j \in 1..n /\ \A i \in (j + 1)..(k - 2) : i \in 1..n
      BY <1>1, <2>1, <2>2
    <2>4. /\ t[k] = s[k] /\ t[k - 1] = s[k - 1] /\ t[j] = s[j]
          /\ \A i \in (j + 1)..(k - 2) : t[i] = s[i]
      BY <1>2, <2>1, <2>3, Zenon
    <2>5. /\ t[k - 1] = [t[k] EXCEPT !.type = "primary"]
          /\ t[j].type = "primary" /\ t[j].size = t[k].size
      BY <2>2, <2>4, Zenon
    <2>6. \A i \in (j + 1)..(k - 2) : t[i].type = "delta"
      BY <2>2, <2>4, Zenon
    <2>7. QED
      BY <2>2, <2>5, <2>6, Zenon
  <1>5. QED
    BY <1>2, <1>3, <1>4, Zenon DEF t

(* A delta of the same exchange, added after its primary, when the result  *)
(* before was as long.                                                     *)
LEMMA DeltaAdded ==
  ASSUME NEW s \in Seq(Packet), Applies(s), NEW p \in Packet, NEW d \in Packet,
         p = [d EXCEPT !.type = "primary"], d.type = "delta", d.size # 0, Recent(s, d.size)
  PROVE  LET t == s \o <<p>> \o <<d>>
         IN  t \in Seq(Packet) /\ Applies(t) /\ Recent(t, d.size)
  <1> DEFINE n == Len(s)
             t == s \o <<p>> \o <<d>>
  <1>1. n \in Nat /\ DOMAIN s = 1..n
    OBVIOUS
  <1>2. /\ t \in Seq(Packet) /\ DOMAIN t = 1..(n + 2) /\ \A i \in 1..n : t[i] = s[i]
        /\ t[n + 1] = p /\ t[n + 2] = d
    OBVIOUS
  <1>p. p.type = "primary" /\ p.size = d.size
    BY Zenon DEF Packet
  <1> HIDE DEF n, t
  <1>3. Recent(t, d.size)
    <2>1. n + 1 \in DOMAIN t /\ \A i \in DOMAIN t : i > n + 1 => i = n + 2
      BY <1>1, <1>2
    <2>2. QED
      BY <1>2, <1>p, <2>1, Zenon DEF Recent
  <1>4. Applies(t)
    <2> SUFFICES ASSUME NEW k \in DOMAIN t, t[k].type = "delta"
                 PROVE  \E j \in 1..(k - 2) :
                          /\ t[k - 1] = [t[k] EXCEPT !.type = "primary"]
                          /\ t[j].type = "primary" /\ t[j].size = t[k].size
                          /\ \A i \in (j + 1)..(k - 2) : t[i].type = "delta"
      BY Zenon DEF Applies
    <2>1. k \in 1..n \/ k = n + 2
      <3>1. k \in 1..n \/ k = n + 1 \/ k = n + 2
        BY <1>1, <1>2
      <3>2. QED
        BY <1>2, <1>p, <3>1, Zenon
    <2>2. CASE k \in 1..n
      <3>2. PICK j \in 1..(k - 2) :
              /\ s[k - 1] = [s[k] EXCEPT !.type = "primary"]
              /\ s[j].type = "primary" /\ s[j].size = s[k].size
              /\ \A i \in (j + 1)..(k - 2) : s[i].type = "delta"
        BY <1>1, <1>2, <2>2, ZenonT(60) DEF Applies
      <3>3. /\ k - 1 \in 1..n /\ j \in 1..n /\ \A i \in (j + 1)..(k - 2) : i \in 1..n
        BY <1>1, <2>2, <3>2
      <3>4. /\ t[k] = s[k] /\ t[k - 1] = s[k - 1] /\ t[j] = s[j]
            /\ \A i \in (j + 1)..(k - 2) : t[i] = s[i]
        BY <1>2, <2>2, <3>3, Zenon
      <3>5. QED
        BY <3>2, <3>4, Zenon
    <2>3. CASE k = n + 2
      <3>1. PICK j \in DOMAIN s : /\ s[j].type = "primary" /\ s[j].size = d.size
                                  /\ \A i \in DOMAIN s : i > j => s[i].type = "delta"
        BY Zenon DEF Recent
      <3>2. /\ j \in 1..(k - 2) /\ j \in 1..n /\ k - 1 = n + 1
            /\ \A i \in (j + 1)..(k - 2) : i \in 1..n /\ i > j
        BY <1>1, <2>3, <3>1
      <3>3. /\ t[k] = d /\ t[k - 1] = p /\ t[j] = s[j]
            /\ \A i \in (j + 1)..(k - 2) : t[i].type = "delta"
        BY <1>1, <1>2, <2>3, <3>1, <3>2, Zenon
      <3>4. QED
        BY <3>1, <3>2, <3>3, Zenon
    <2>4. QED
      BY <2>1, <2>2, <2>3, Zenon
  <1>5. QED
    BY <1>2, <1>3, <1>4, Zenon DEF t

(* Sending a primary and its delta keeps a client's stream applicable.     *)
LEMMA StepStreams == TypeOK /\ Streams /\ [Next]_vars => Streams'
  <1> SUFFICES ASSUME TypeOK, Streams, [Next]_vars PROVE Streams'
    OBVIOUS
  <1>1. ASSUME NEW c \in Clients, Reply(c) PROVE Streams'
    <2> DEFINE size == promise[c]
               P == [type |-> "primary", id |-> sequence_id[c], size |-> size]
               D == [type |-> "delta", id |-> sequence_id[c], size |-> size]
    <2>1. /\ sent' = [sent EXCEPT ![c] = sent[c] \o <<P>>
                        \o IF has_delta(last[c], size) THEN <<D>> ELSE <<>>]
          /\ last' = [last EXCEPT ![c] = size]
          /\ sequence_id' = [sequence_id EXCEPT ![c] = sequence_id[c] + 1]
      BY <1>1, Zenon DEF Reply
    <2>2. P \in Packet /\ D \in Packet /\ P = [D EXCEPT !.type = "primary"]
      <3>1. sequence_id[c] \in Nat /\ size \in Int
        BY Zenon DEF TypeOK, Streams
      <3> HIDE DEF size
      <3>2. P \in Packet /\ D \in Packet
        BY <3>1, Zenon DEF Packet
      <3>3. P = [D EXCEPT !.type = "primary"]
        OBVIOUS
      <3>4. QED
        BY <3>2, <3>3, Zenon
    <2>3. sent[c] \in Seq(Packet) /\ Applies(sent[c]) /\ Recent(sent[c], last[c])
      BY Zenon DEF Streams
    <2>4. P.type = "primary" /\ P.size = size /\ D.type = "delta" /\ D.size = size
      OBVIOUS
    <2> HIDE DEF P, D, size
    <2>8. ASSUME sent'[c] \in Seq(Packet), Applies(sent'[c]), Recent(sent'[c], size)
          PROVE  Streams'
      <3>1. /\ DOMAIN sent' = Clients /\ DOMAIN last' = Clients /\ last'[c] = size
            /\ \A d \in Clients : d # c => sent'[d] = sent[d] /\ last'[d] = last[d]
            /\ sequence_id' \in [Clients -> Nat]
        BY <2>1 DEF Streams
      <3>2. \A d \in Clients :
              sent'[d] \in Seq(Packet) /\ Recent(sent'[d], last'[d]) /\ Applies(sent'[d])
        BY <2>8, <3>1, Zenon DEF Streams
      <3>3. sent' = [d \in Clients |-> sent'[d]]
        BY <2>1, <3>1, Zenon DEF Streams
      <3>4. sent' \in [Clients -> Seq(Packet)]
        BY <3>2, <3>3, Zenon
      <3>5. QED
        BY <3>1, <3>2, <3>4, Zenon DEF Streams
    <2>5. CASE has_delta(last[c], size)
      <3>1. size # 0 /\ last[c] = size
        BY <2>5, Zenon DEF has_delta
      <3>2. sent'[c] = sent[c] \o <<P>> \o <<D>>
        BY <2>1, <2>5, Zenon DEF Streams
      <3>3. sent'[c] \in Seq(Packet) /\ Applies(sent'[c]) /\ Recent(sent'[c], size)
        BY <2>2, <2>3, <2>4, <3>1, <3>2, DeltaAdded, Zenon
      <3>4. QED
        BY <2>8, <3>3, Zenon
    <2>6. CASE ~has_delta(last[c], size)
      <3>1. sent'[c] = sent[c] \o <<P>> \o <<>>
        BY <2>1, <2>6, Zenon DEF Streams
      <3>2. sent[c] \o <<P>> \o <<>> = sent[c] \o <<P>>
        BY <2>2, <2>3
      <3>3. sent'[c] \in Seq(Packet) /\ Applies(sent'[c]) /\ Recent(sent'[c], size)
        BY <2>2, <2>3, <2>4, <3>1, <3>2, PrimaryAdded, Zenon
      <3>4. QED
        BY <2>8, <3>3, Zenon
    <2>7. QED
      BY <2>5, <2>6, Zenon
  <1>2. ASSUME NEW c \in Clients, loadOnnxModel(c) \/ StoreModel(c) PROVE Streams'
    <2>1. UNCHANGED <<last, sent>> /\ sequence_id' \in [Clients -> Nat]
      <3>1. \/ sequence_id' = sequence_id
            \/ sequence_id' = [sequence_id EXCEPT ![c] = sequence_id[c] + 1]
        BY <1>2, Zenon DEF loadOnnxModel, StoreModel
      <3>2. QED
        BY <1>2, <3>1 DEF loadOnnxModel, StoreModel, Streams
    <2>2. QED
      BY <2>1, Zenon DEF Streams
  <1>3. ASSUME UNCHANGED stream PROVE Streams'
    BY <1>3, Zenon DEF stream, Streams
  <1>4. ASSUME NEW c \in Clients, PushInference(c) \/ OtherOpcode(c) \/ Close(c) PROVE Streams'
    BY <1>3, <1>4, Zenon DEF PushInference, OtherOpcode, Close
  <1>5. ASSUME NEW g \in Gpus, gpu_worker_thread(g) \/ \E l \in Lanes : cudaStreamQuery(g, l)
        PROVE  Streams'
    BY <1>3, <1>5, Zenon DEF gpu_worker_thread, PollLane, FillLane, cudaStreamQuery, handler
  <1>6. CASE UNCHANGED vars
    BY <1>3, <1>6, Zenon DEF vars, handler
  <1>7. QED
    BY <1>1, <1>2, <1>4, <1>5, <1>6, Zenon DEF Next, handle_client
-----------------------------------------------------------------------------
NotSet == -1

Waiting(c) == pc[c] = "get" /\ promise[c] = NotSet

(* The task of c is in the queue of g, or on a lane of g. *)
QueuedOn(g, i, c) == i \in DOMAIN queue[g] /\ queue[g][i].client = c

RunsOn(g, l, c) == lane[g][l].in_flight /\ lane[g][l].client = c

Tasks ==
    /\ \A c \in Clients : pc[c] # "get" => promise[c] = NotSet
    /\ \A g \in Gpus, l \in Lanes : lane[g][l].in_flight => lane[g][l].client \in Clients
    /\ \A c \in Clients, g \in Gpus : \A i \in DOMAIN queue[g] :
         QueuedOn(g, i, c) =>
           /\ Waiting(c)
           /\ \A h \in Gpus : \A j \in DOMAIN queue[h] : QueuedOn(h, j, c) => h = g /\ j = i
           /\ \A h \in Gpus, l \in Lanes : ~RunsOn(h, l, c)
    /\ \A c \in Clients, g \in Gpus, l \in Lanes :
         RunsOn(g, l, c) =>
           Waiting(c) /\ \A h \in Gpus, k \in Lanes : RunsOn(h, k, c) => h = g /\ k = l
    /\ \A c \in Clients :
         Waiting(c) => \E g \in Gpus : \/ \E i \in DOMAIN queue[g] : QueuedOn(g, i, c)
                                       \/ \E l \in Lanes : RunsOn(g, l, c)

(* A promise that is not set holds no length.                              *)
LEMMA NotSetBelow == NotSet \in Int /\ NotSet < 0 /\ -1 = NotSet
  BY DEF NotSet

(* The queues hold tasks of clients.                                       *)
LEMMA QueueTyped ==
  ASSUME TypeOK, NEW g \in Gpus
  PROVE  /\ queue[g] \in Seq(Task)
         /\ \A i \in DOMAIN queue[g] : queue[g][i] \in Task /\ queue[g][i].client \in Clients
  <1>1. queue[g] \in Seq(Task)
    BY Zenon DEF TypeOK
  <1>2. \A i \in DOMAIN queue[g] : queue[g][i] \in Task
    BY <1>1
  <1>3. \A t \in Task : t.client \in Clients
    BY Zenon DEF Task
  <1>4. QED
    BY <1>1, <1>2, <1>3, Zenon

(* Steps that move no task and no promise: what a lane's stream answers,   *)
(* loads, and clients that come and go.                                    *)
LEMMA TasksUnmoved ==
  ASSUME TypeOK, Tasks, queue' = queue, \A c \in Clients : Waiting(c)' = Waiting(c),
         \A g \in Gpus, l \in Lanes : /\ lane'[g][l].in_flight = lane[g][l].in_flight
                                      /\ lane'[g][l].client = lane[g][l].client,
         \A c \in Clients : pc'[c] # "get" => promise'[c] = NotSet
  PROVE  Tasks'
  <1>1. /\ \A c, g, i : QueuedOn(g, i, c)' = QueuedOn(g, i, c)
        /\ \A c \in Clients, g \in Gpus, l \in Lanes : RunsOn(g, l, c)' = RunsOn(g, l, c)
    BY Zenon DEF QueuedOn, RunsOn
  <1>2. QED
    BY <1>1 DEF Tasks

(* In particular those that change neither, nor who waits. *)
LEMMA NothingMoved ==
  ASSUME TypeOK, Tasks, queue' = queue, lane' = lane, promise' = promise,
         \A c \in Clients : (pc'[c] = "get") = (pc[c] = "get")
  PROVE  Tasks'
  <1>1. \A c \in Clients : Waiting(c)' = Waiting(c)
    BY Zenon DEF Waiting
  <1>2. \A c \in Clients : pc'[c] # "get" => promise'[c] = NotSet
    BY Zenon DEF Tasks
  <1>3. \A g \in Gpus, l \in Lanes : /\ lane'[g][l].in_flight = lane[g][l].in_flight
                                     /\ lane'[g][l].client = lane[g][l].client
    BY Zenon
  <1>4. QED
    BY <1>1, <1>2, <1>3, TasksUnmoved, Zenon

(* The task of a handler that was not waiting joins a queue. *)
LEMMA TaskPushed ==
  ASSUME TypeOK, Tasks, NEW c \in Clients, PushInference(c)
  PROVE  Tasks'
  <1> DEFINE g == rr_counter % NumGpus
             n == Len(queue[g]) + 1
  <1>1. PICK m \in ModelIds :
          queue' = [queue EXCEPT ![g] = Append(queue[g], [client |-> c, model_id |-> m])]
    BY Zenon DEF PushInference
  <1>2. /\ pc[c] = "read" /\ pc' = [pc EXCEPT ![c] = "get"] /\ UNCHANGED <<lane, promise>>
    BY Zenon DEF PushInference, Read, Goto
  <1>3. /\ g \in Gpus /\ queue[g] \in Seq(Task) /\ queue \in [Gpus -> Seq(Task)]
        /\ [client |-> c, model_id |-> m] \in Task /\ [client |-> c, model_id |-> m].client = c
    BY Sizes, QueueTyped, Zenon DEF TypeOK, Task
  <1> HIDE DEF g
  <1>4. /\ \A h \in Gpus : \A i \in DOMAIN queue[h] :
             i \in DOMAIN queue'[h] /\ queue'[h][i] = queue[h][i]
        /\ \A h \in Gpus : \A i \in DOMAIN queue'[h] :
             \/ i \in DOMAIN queue[h] /\ queue'[h][i] = queue[h][i]
             \/ h = g /\ i = n /\ queue'[h][i].client = c
        /\ n \in DOMAIN queue'[g] /\ queue'[g][n].client = c
    BY <1>1, <1>3, SMTT(30)
  <1> HIDE DEF n
  <1>5. ~Waiting(c) /\ Waiting(c)' /\ \A d \in Clients : d # c => Waiting(d)' = Waiting(d)
    BY <1>2, Zenon DEF Waiting, TypeOK, Tasks
  <1>6. \A h \in Gpus : \A i, d :
          QueuedOn(h, i, d)' <=> QueuedOn(h, i, d) \/ (d = c /\ h = g /\ i = n)
    BY <1>3, <1>4 DEF QueuedOn
  <1>7. \A h, l, d : RunsOn(h, l, d)' = RunsOn(h, l, d)
    BY <1>2, Zenon DEF RunsOn
  <1>8. \A h \in Gpus : (\A i : ~QueuedOn(h, i, c)) /\ \A l \in Lanes : ~RunsOn(h, l, c)
    BY <1>5, Zenon DEF Tasks, QueuedOn
  <1>9. \A h \in Gpus : \A i, d : QueuedOn(h, i, d)' => i \in DOMAIN queue'[h]
    BY Zenon DEF QueuedOn
  <1>10. /\ \A d \in Clients : pc'[d] # "get" => promise'[d] = NotSet
         /\ \A h \in Gpus, l \in Lanes : lane'[h][l].in_flight => lane'[h][l].client \in Clients
    BY <1>2, Zenon DEF Tasks, TypeOK
  <1>11. ASSUME NEW d \in Clients, NEW h \in Gpus, NEW i \in DOMAIN queue'[h], QueuedOn(h, i, d)'
         PROVE  /\ Waiting(d)'
                /\ \A k \in Gpus : \A j \in DOMAIN queue'[k] : QueuedOn(k, j, d)' => k = h /\ j = i
                /\ \A k \in Gpus, l \in Lanes : ~RunsOn(k, l, d)'
    <2>1. CASE d = c
      BY <1>5, <1>6, <1>7, <1>8, <1>11, <2>1, SMTT(30)
    <2>2. CASE d # c
      <3>1. QueuedOn(h, i, d) /\ i \in DOMAIN queue[h]
        BY <1>6, <1>11, <2>2 DEF QueuedOn
      <3>2. \A k \in Gpus : \A j : QueuedOn(k, j, d) => j \in DOMAIN queue[k]
        BY Zenon DEF QueuedOn
      <3>3. QED
        BY <1>5, <1>6, <1>7, <2>2, <3>1, <3>2 DEF Tasks
    <2>3. QED
      BY <2>1, <2>2, Zenon
  <1>12. ASSUME NEW d \in Clients, NEW h \in Gpus, NEW l \in Lanes, RunsOn(h, l, d)'
         PROVE  Waiting(d)' /\ \A k \in Gpus, j \in Lanes : RunsOn(k, j, d)' => k = h /\ j = l
    BY <1>5, <1>7, <1>8, <1>12, Zenon DEF Tasks
  <1>13. ASSUME NEW d \in Clients, Waiting(d)'
         PROVE  \E h \in Gpus : \/ \E i \in DOMAIN queue'[h] : QueuedOn(h, i, d)'
                                \/ \E l \in Lanes : RunsOn(h, l, d)'
    <2>1. CASE d = c
      BY <1>3, <1>4, <1>6, <2>1, SMTT(30)
    <2>2. CASE d # c
      <3>1. PICK h \in Gpus : \/ \E i \in DOMAIN queue[h] : QueuedOn(h, i, d)
                              \/ \E l \in Lanes : RunsOn(h, l, d)
        BY <1>5, <1>13, <2>2, Zenon DEF Tasks
      <3>2. QED
        BY <1>4, <1>6, <1>7, <3>1, Zenon
    <2>3. QED
      BY <2>1, <2>2, Zenon
  <1>14. QED
    BY <1>10, <1>11, <1>12, <1>13, Zenon DEF Tasks

(* The result on a lane is handed over: its client waits no longer. *)
LEMMA TaskCollected ==
  ASSUME TypeOK, AllFit, Tasks, NEW g \in Gpus, NEW l \in Lanes, lane[g][l].in_flight,
         lane' = [lane EXCEPT ![g][l] = collected(lane[g][l])],
         promise' = [promise EXCEPT ![lane[g][l].client] = lane[g][l].output_size],
         UNCHANGED <<queue, pc>>
  PROVE  Tasks'
  <1>0. PICK c \in Clients : c = lane[g][l].client
    BY Zenon DEF Tasks
  <1>1. lane[g][l] \in Lane /\ Fits(lane[g][l])
    BY Zenon DEF TypeOK, AllFit
  <1>2. ~collected(lane[g][l]).in_flight /\ lane[g][l].output_size \in Nat
    BY <1>1, Zenon DEF collected, Lane
  <1>3. /\ ~lane'[g][l].in_flight
        /\ \A h \in Gpus, k \in Lanes : h # g \/ k # l => lane'[h][k] = lane[h][k]
    BY <1>1, <1>2, Zenon DEF TypeOK
  <1>4. RunsOn(g, l, c) /\ Waiting(c)
    BY <1>0, Zenon DEF RunsOn, Tasks
  <1>5. ~Waiting(c)' /\ \A d \in Clients : d # c => Waiting(d)' = Waiting(d)
    BY <1>0, <1>2, NotSetBelow DEF Waiting, TypeOK
  <1>6. /\ \A h \in Gpus, k \in Lanes : \A d :
             /\ RunsOn(h, k, d)' => RunsOn(h, k, d) /\ (h # g \/ k # l)
             /\ RunsOn(h, k, d) /\ (h # g \/ k # l) => RunsOn(h, k, d)'
        /\ \A h, i, d : QueuedOn(h, i, d)' = QueuedOn(h, i, d)
    BY <1>3, Zenon DEF RunsOn, QueuedOn
  <1>7. /\ \A h \in Gpus : \A i \in DOMAIN queue[h] : ~QueuedOn(h, i, c)
        /\ \A h \in Gpus, k \in Lanes : RunsOn(h, k, c) => h = g /\ k = l
    BY <1>4, Zenon DEF Tasks
  <1>8. /\ \A d \in Clients : pc'[d] # "get" => promise'[d] = NotSet
        /\ \A h \in Gpus, k \in Lanes : lane'[h][k].in_flight => lane'[h][k].client \in Clients
    BY <1>0, <1>3, <1>4, SMTT(30) DEF Tasks, Waiting, TypeOK
  <1>9. ASSUME NEW d \in Clients, Waiting(d)'
        PROVE  \E h \in Gpus : \/ \E i \in DOMAIN queue[h] : QueuedOn(h, i, d)
                               \/ \E k \in Lanes : RunsOn(h, k, d)'
    <2>1. d # c /\ Waiting(d)
      BY <1>5, <1>9, Zenon
    <2>2. PICK h \in Gpus : \/ \E i \in DOMAIN queue[h] : QueuedOn(h, i, d)
                            \/ \E k \in Lanes : RunsOn(h, k, d)
      BY <2>1, Zenon DEF Tasks
    <2>3. ~RunsOn(g, l, d)
      BY <1>0, <2>1, Zenon DEF RunsOn
    <2>4. QED
      BY <1>6, <2>2, <2>3, Zenon
  <1>10. QED
    BY <1>5, <1>6, <1>7, <1>8, <1>9 DEF Tasks

(* What is left in the queues when the oldest task of one, that of c, is   *)
(* taken.                                                                  *)
Taken(g, c) ==
    /\ c = Head(queue[g]).client /\ Waiting(c)
    /\ \A h \in Gpus, k \in Lanes : ~RunsOn(h, k, c)
    /\ \A h \in Gpus : \A i \in DOMAIN queue'[h] : ~QueuedOn(h, i, c)'
    /\ \A h \in Gpus : \A i \in DOMAIN queue'[h], d \in Clients :
         QueuedOn(h, i, d)' => \E m \in DOMAIN queue[h] : QueuedOn(h, m, d)
    /\ \A h \in Gpus, d \in Clients : \A i \in DOMAIN queue'[h] : QueuedOn(h, i, d)' =>
         \A k \in Gpus : \A j \in DOMAIN queue'[k] : QueuedOn(k, j, d)' => k = h /\ j = i
    /\ \A h \in Gpus : \A m \in DOMAIN queue[h], d \in Clients :
         d # c /\ QueuedOn(h, m, d) => \E i \in DOMAIN queue'[h] : QueuedOn(h, i, d)'

(* try_pop takes one task and leaves the others in their order. *)
LEMMA Popped ==
  ASSUME TypeOK, Tasks, NEW g \in Gpus, queue[g] # <<>>,
         queue' = [queue EXCEPT ![g] = Tail(queue[g])]
  PROVE  \E c \in Clients : Taken(g, c)
  <1>1. queue[g] \in Seq(Task) /\ queue \in [Gpus -> Seq(Task)]
    BY QueueTyped, Zenon DEF TypeOK
  <1>2. 1 \in DOMAIN queue[g] /\ Head(queue[g]) = queue[g][1]
    BY <1>1
  <1>3. PICK c \in Clients : c = Head(queue[g]).client
    BY <1>2, QueueTyped, Zenon
  <1>4. QueuedOn(g, 1, c)
    BY <1>2, <1>3, Zenon DEF QueuedOn
  <1>5. /\ Waiting(c) /\ \A h \in Gpus, k \in Lanes : ~RunsOn(h, k, c)
        /\ \A h \in Gpus : \A j \in DOMAIN queue[h] : QueuedOn(h, j, c) => h = g /\ j = 1
    BY <1>2, <1>4, Zenon DEF Tasks
  <1>6. /\ \A i \in DOMAIN queue'[g] :
             i + 1 \in DOMAIN queue[g] /\ i \in Int /\ i + 1 # 1 /\ queue'[g][i] = queue[g][i + 1]
        /\ \A i \in DOMAIN queue[g] :
             i = 1 \/ (i \in Int /\ i - 1 \in DOMAIN queue'[g] /\ queue'[g][i - 1] = queue[g][i])
        /\ \A h \in Gpus : h # g => queue'[h] = queue[h]
    BY <1>1
  <1>7. \A h \in Gpus : \A i \in DOMAIN queue'[h], d \in Clients :
          QueuedOn(h, i, d)' => \E m \in DOMAIN queue[h] : /\ QueuedOn(h, m, d)
                                                           /\ m = (IF h = g THEN i + 1 ELSE i)
                                                           /\ (h = g => i \in Int /\ m # 1)
    BY <1>6 DEF QueuedOn
  <1>8. \A h \in Gpus : \A i \in DOMAIN queue'[h] : ~QueuedOn(h, i, c)'
    BY <1>5, <1>7, Zenon
  <1>9. ASSUME NEW h \in Gpus, NEW d \in Clients, NEW i \in DOMAIN queue'[h], QueuedOn(h, i, d)',
               NEW k \in Gpus, NEW j \in DOMAIN queue'[k], QueuedOn(k, j, d)'
        PROVE  k = h /\ j = i
    <2>1. PICK m \in DOMAIN queue[h] : /\ QueuedOn(h, m, d) /\ m = (IF h = g THEN i + 1 ELSE i)
                                       /\ (h = g => i \in Int)
      BY <1>7, <1>9, Zenon
    <2>2. PICK q \in DOMAIN queue[k] : /\ QueuedOn(k, q, d) /\ q = (IF k = g THEN j + 1 ELSE j)
                                       /\ (k = g => j \in Int)
      BY <1>7, <1>9, Zenon
    <2>3. k = h /\ q = m
      BY <2>1, <2>2, Zenon DEF Tasks
    <2>4. QED
      BY <2>1, <2>2, <2>3
  <1>10. ASSUME NEW h \in Gpus, NEW m \in DOMAIN queue[h], NEW d \in Clients, d # c,
                QueuedOn(h, m, d)
         PROVE  \E i \in DOMAIN queue'[h] : QueuedOn(h, i, d)'
    <2>1. CASE h # g
      BY <1>6, <1>10, <2>1, Zenon DEF QueuedOn
    <2>2. CASE h = g
      <3>1. m # 1
        BY <1>2, <1>3, <1>10, <2>2, Zenon DEF QueuedOn
      <3>2. m - 1 \in DOMAIN queue'[g] /\ queue'[g][m - 1] = queue[g][m]
        BY <1>6, <2>2, <3>1, Zenon
      <3>3. QED
        BY <1>10, <2>2, <3>2, Zenon DEF QueuedOn
    <2>3. QED
      BY <2>1, <2>2, Zenon
  <1>11. Taken(g, c)
    BY <1>3, <1>5, <1>7, <1>8, <1>9, <1>10, Zenon DEF Taken
  <1>12. QED
    BY <1>11, Zenon

(* A task that is still queued is another one, in one place as before. *)
LEMMA StillQueued ==
  ASSUME Tasks, NEW g \in Gpus, NEW c \in Clients, Taken(g, c),
         NEW d \in Clients, NEW h \in Gpus, NEW i \in DOMAIN queue'[h], QueuedOn(h, i, d)'
  PROVE  /\ d # c /\ Waiting(d) /\ \A k \in Gpus, l \in Lanes : ~RunsOn(k, l, d)
         /\ \A k \in Gpus : \A j \in DOMAIN queue'[k] : QueuedOn(k, j, d)' => k = h /\ j = i
  <1>1. /\ d # c
        /\ \A k \in Gpus : \A j \in DOMAIN queue'[k] : QueuedOn(k, j, d)' => k = h /\ j = i
    BY SMTT(30) DEF Taken
  <1>2. PICK m \in DOMAIN queue[h] : QueuedOn(h, m, d)
    BY Zenon DEF Taken
  <1>3. Waiting(d) /\ \A k \in Gpus, l \in Lanes : ~RunsOn(k, l, d)
    BY <1>2, Zenon DEF Tasks
  <1>4. QED
    BY <1>1, <1>3, Zenon

(* Nor is any other task lost. *)
LEMMA OthersLeft ==
  ASSUME Tasks, NEW g \in Gpus, NEW c \in Clients, Taken(g, c),
         NEW d \in Clients, d # c, Waiting(d)
  PROVE  \E h \in Gpus : \/ \E i \in DOMAIN queue'[h] : QueuedOn(h, i, d)'
                         \/ \E l \in Lanes : RunsOn(h, l, d)
  <1>1. PICK h \in Gpus : \/ \E i \in DOMAIN queue[h] : QueuedOn(h, i, d)
                          \/ \E l \in Lanes : RunsOn(h, l, d)
    BY Zenon DEF Tasks
  <1>2. CASE \E i \in DOMAIN queue[h] : QueuedOn(h, i, d)
    BY <1>2, Zenon DEF Taken
  <1>3. QED
    BY <1>1, <1>2, Zenon

(* A task taken from a queue is answered at once when its model is not     *)
(* loaded, and runs on the free lane otherwise.                            *)
LEMMA TaskFilled ==
  ASSUME TypeOK, AllFit, Tasks, NEW g \in Gpus, FillLane(g)
  PROVE  Tasks'
  <1>p. pc' = pc
    BY Zenon DEF FillLane
  <1>1. CASE UNCHANGED <<queue, lane, promise>>
    BY <1>p, <1>1, NothingMoved, Zenon
  <1>2. ASSUME queue[g] # <<>>, queue' = [queue EXCEPT ![g] = Tail(queue[g])],
               promise' = [promise EXCEPT ![Head(queue[g]).client] = 0], lane' = lane
        PROVE  Tasks'
    <2>1. PICK c \in Clients : Taken(g, c)
      BY <1>2, Popped, Zenon
    <2>2. c = Head(queue[g]).client /\ Waiting(c) /\ \A h \in Gpus, k \in Lanes : ~RunsOn(h, k, c)
      BY <2>1, ZenonT(60) DEF Taken
    <2>3. ~Waiting(c)' /\ \A d \in Clients : d # c => Waiting(d)' = Waiting(d)
      BY <1>p, <1>2, <2>2, NotSetBelow DEF Waiting, TypeOK
    <2>4. \A h, k, d : RunsOn(h, k, d)' = RunsOn(h, k, d)
      BY <1>2, Zenon DEF RunsOn
    <2>5. /\ \A d \in Clients : pc'[d] # "get" => promise'[d] = NotSet
          /\ \A h \in Gpus, l \in Lanes : lane'[h][l].in_flight => lane'[h][l].client \in Clients
      BY <1>p, <1>2, <2>2, Zenon DEF Tasks, Waiting, TypeOK
    <2>6. ASSUME NEW d \in Clients, NEW h \in Gpus, NEW i \in DOMAIN queue'[h], QueuedOn(h, i, d)'
          PROVE  /\ Waiting(d)'
                 /\ \A k \in Gpus : \A j \in DOMAIN queue'[k] : QueuedOn(k, j, d)' => k = h /\ j = i
                 /\ \A k \in Gpus, l \in Lanes : ~RunsOn(k, l, d)'
      BY <2>1, <2>3, <2>4, <2>6, StillQueued, Zenon
    <2>7. ASSUME NEW d \in Clients, NEW h \in Gpus, NEW l \in Lanes, RunsOn(h, l, d)'
          PROVE  Waiting(d)' /\ \A k \in Gpus, m \in Lanes : RunsOn(k, m, d)' => k = h /\ m = l
      <3>1. RunsOn(h, l, d) /\ d # c
        BY <2>2, <2>4, <2>7, Zenon
      <3>2. Waiting(d) /\ \A k \in Gpus, m \in Lanes : RunsOn(k, m, d) => k = h /\ m = l
        BY <3>1, Zenon DEF Tasks
      <3>3. QED
        BY <2>3, <2>4, <3>1, <3>2, Zenon
    <2>8. ASSUME NEW d \in Clients, Waiting(d)'
          PROVE  \E h \in Gpus : \/ \E i \in DOMAIN queue'[h] : QueuedOn(h, i, d)'
                                 \/ \E l \in Lanes : RunsOn(h, l, d)'
      <3>1. d # c /\ Waiting(d)
        BY <2>3, <2>8, Zenon
      <3>2. QED
        BY <2>1, <2>4, <3>1, OthersLeft, Zenon
    <2>9. QED
      BY <2>5, <2>6, <2>7, <2>8, Zenon DEF Tasks
  <1>3. ASSUME NEW l \in Lanes, NEW model \in Engine, queue[g] # <<>>,
               queue' = [queue EXCEPT ![g] = Tail(queue[g])], promise' = promise,
               ~lane[g][l].in_flight,
               lane' = [lane EXCEPT ![g][l] = launched(lane[g][l], Head(queue[g]), model)]
        PROVE  Tasks'
    <2>1. PICK c \in Clients : Taken(g, c)
      BY <1>3, Popped, ZenonT(60)
    <2>2. c = Head(queue[g]).client /\ Waiting(c) /\ \A h \in Gpus, k \in Lanes : ~RunsOn(h, k, c)
      BY <2>1, Zenon DEF Taken
    <2>3. lane[g][l] \in Lane /\ Fits(lane[g][l]) /\ Head(queue[g]) \in Task
      BY <1>3, SMTT(30) DEF TypeOK, AllFit
    <2>4. /\ lane'[g][l] = launched(lane[g][l], Head(queue[g]), model)
          /\ \A h \in Gpus, k \in Lanes : h # g \/ k # l => lane'[h][k] = lane[h][k]
      BY <1>3, <2>3, Zenon DEF TypeOK
    <2>5. lane'[g][l].in_flight /\ lane'[g][l].client = c
      BY <2>2, <2>3, <2>4, Zenon DEF launched, Lane
    <2>6. \A d : Waiting(d)' = Waiting(d)
      BY <1>p, <1>3, Zenon DEF Waiting
    <2>7. \A h \in Gpus, k \in Lanes : \A d :
            RunsOn(h, k, d)' <=> RunsOn(h, k, d) \/ (h = g /\ k = l /\ d = c)
      BY <1>3, <2>4, <2>5, Zenon DEF RunsOn
    <2>8. /\ \A d \in Clients : pc'[d] # "get" => promise'[d] = NotSet
          /\ \A h \in Gpus, k \in Lanes : lane'[h][k].in_flight => lane'[h][k].client \in Clients
      BY <1>p, <1>3, <2>4, <2>5 DEF Tasks
    <2>9. ASSUME NEW d \in Clients, NEW h \in Gpus, NEW i \in DOMAIN queue'[h], QueuedOn(h, i, d)'
          PROVE  /\ Waiting(d)'
                 /\ \A k \in Gpus : \A j \in DOMAIN queue'[k] : QueuedOn(k, j, d)' => k = h /\ j = i
                 /\ \A k \in Gpus, m \in Lanes : ~RunsOn(k, m, d)'
      BY <2>1, <2>6, <2>7, <2>9, StillQueued
    <2>10. ASSUME NEW d \in Clients, NEW h \in Gpus, NEW k \in Lanes, RunsOn(h, k, d)'
           PROVE  Waiting(d)' /\ \A i \in Gpus, m \in Lanes : RunsOn(i, m, d)' => i = h /\ m = k
      <3>1. CASE d = c
        BY <2>2, <2>6, <2>7, <2>10, <3>1, Zenon
      <3>2. CASE d # c
        <4>1. RunsOn(h, k, d)
          BY <2>7, <2>10, <3>2, SMTT(30)
        <4>2. Waiting(d) /\ \A i \in Gpus, m \in Lanes : RunsOn(i, m, d) => i = h /\ m = k
          BY <4>1, Zenon DEF Tasks
        <4>3. QED
          BY <2>6, <2>7, <3>2, <4>2, Zenon
      <3>3. QED
        BY <3>1, <3>2, Zenon
    <2>11. ASSUME NEW d \in Clients, Waiting(d)'
           PROVE  \E h \in Gpus : \/ \E i \in DOMAIN queue'[h] : QueuedOn(h, i, d)'
                                  \/ \E k \in Lanes : RunsOn(h, k, d)'
      <3>1. CASE d = c
        BY <2>7, <3>1, Zenon
      <3>2. CASE d # c
        <4>1. PICK h \in Gpus : \/ \E i \in DOMAIN queue'[h] : QueuedOn(h, i, d)'
                                \/ \E k \in Lanes : RunsOn(h, k, d)
          BY <2>1, <2>6, <2>11, <3>2, OthersLeft, Zenon
        <4>2. QED
          BY <2>7, <4>1, Zenon
      <3>3. QED
        BY <3>1, <3>2, Zenon
    <2>12. QED
      BY <2>8, <2>9, <2>10, <2>11, Zenon DEF Tasks
  <1>4. QED
    BY <1>1, <1>2, <1>3, FillEffect, Zenon

(* Pushing, popping and collecting a task keep it in one place.            *)
LEMMA StepTasks == TypeOK /\ AllFit /\ Tasks /\ [Next]_vars => Tasks'
  <1> SUFFICES ASSUME TypeOK, AllFit, Tasks, [Next]_vars PROVE Tasks'
    OBVIOUS
  <1>1. ASSUME NEW c \in Clients, loadOnnxModel(c) \/ StoreModel(c) \/ OtherOpcode(c) \/ Close(c)
        PROVE  Tasks'
    <2>1. /\ UNCHANGED <<queue, lane, promise>> /\ pc[c] # "get"
          /\ \/ pc' = pc
             \/ \E label \in {"store", "read", "closed"} : pc' = [pc EXCEPT ![c] = label]
      BY <1>1, Zenon DEF loadOnnxModel, StoreModel, Storing, OtherOpcode, Close, Read, Goto, work
    <2>2. \A d \in Clients : (pc'[d] = "get") = (pc[d] = "get")
      BY <2>1, Zenon DEF TypeOK
    <2>3. QED
      BY <2>1, <2>2, NothingMoved, Zenon
  <1>2. ASSUME NEW c \in Clients, PushInference(c) PROVE Tasks'
    BY <1>2, TaskPushed, Zenon
  <1>3. ASSUME NEW c \in Clients, Reply(c) PROVE Tasks'
    <2>1. /\ UNCHANGED <<queue, lane>> /\ promise[c] >= 0
          /\ promise' = [promise EXCEPT ![c] = NotSet] /\ pc' = [pc EXCEPT ![c] = "read"]
      BY <1>3, NotSetBelow, Zenon DEF Reply, Goto, work
    <2>2. ~Waiting(c) /\ ~Waiting(c)' /\ pc'[c] = "read" /\ promise'[c] = NotSet
      BY <2>1, NotSetBelow DEF Waiting, TypeOK
    <2>3. \A d \in Clients : d # c => pc'[d] = pc[d] /\ promise'[d] = promise[d]
      BY <2>1, Zenon DEF TypeOK
    <2>4. \A d \in Clients : Waiting(d)' = Waiting(d)
      BY <2>2, <2>3, SMTT(30) DEF Waiting
    <2>5. \A d \in Clients : pc'[d] # "get" => promise'[d] = NotSet
      BY <2>2, <2>3, Zenon DEF Tasks
    <2>6. QED
      BY <2>1, <2>4, <2>5, TasksUnmoved, Zenon
  <1>4. ASSUME NEW g \in Gpus, NEW l \in Lanes, cudaStreamQuery(g, l) PROVE Tasks'
    <2>1. UNCHANGED <<queue, pc, promise>>
      BY <1>4, Zenon DEF cudaStreamQuery, handler
    <2>2. \A h \in Gpus, k \in Lanes : /\ lane'[h][k].in_flight = lane[h][k].in_flight
                                       /\ lane'[h][k].client = lane[h][k].client
      <3>1. lane[g][l] \in Lane
        BY Zenon DEF TypeOK
      <3>2. DOMAIN lane[g][l] = {"client", "active_model_id", "context", "input_cap", "output_cap",
                                 "output_size", "in_flight", "status"}
        BY <3>1, Zenon DEF Lane
      <3>3. PICK status : lane' = [lane EXCEPT ![g][l] = [lane[g][l] EXCEPT !.status = status]]
        BY <1>4, Zenon DEF cudaStreamQuery
      <3>4. /\ lane'[g][l] = [lane[g][l] EXCEPT !.status = status]
            /\ \A h \in Gpus, k \in Lanes : h # g \/ k # l => lane'[h][k] = lane[h][k]
        BY <3>3, Zenon DEF TypeOK
      <3>5. /\ lane'[g][l].in_flight = lane[g][l].in_flight
            /\ lane'[g][l].client = lane[g][l].client
        BY <3>2, <3>4, Zenon
      <3>6. QED
        BY <3>4, <3>5, Zenon
    <2>3. \A c \in Clients : Waiting(c)' = Waiting(c)
      BY <2>1, Zenon DEF Waiting
    <2>4. \A c \in Clients : pc'[c] # "get" => promise'[c] = NotSet
      BY <2>1, Zenon DEF Tasks
    <2>5. QED
      BY <2>1, <2>2, <2>3, <2>4, TasksUnmoved, Zenon
  <1>5. ASSUME NEW g \in Gpus, PollLane(g) PROVE Tasks'
    <2>1. UNCHANGED <<queue, pc>>
      BY <1>5, Zenon DEF PollLane
    <2>2. CASE UNCHANGED <<promise, lane>>
      BY <2>1, <2>2, NothingMoved, Zenon
    <2>3. QED
      BY <1>5, <2>1, <2>2, PollEffect, TaskCollected, Zenon
  <1>6. ASSUME NEW g \in Gpus, FillLane(g) PROVE Tasks'
    BY <1>6, TaskFilled, Zenon
  <1>7. CASE UNCHANGED vars
    BY <1>7, NothingMoved, Zenon DEF vars, work, handler
  <1>8. QED
    BY <1>1, <1>2, <1>3, <1>4, <1>5, <1>6, <1>7, Zenon DEF Next, handle_client, gpu_worker_thread
-----------------------------------------------------------------------------
Inv == TypeOK /\ AllFit /\ Streams /\ Tasks

(* The runtime before any client satisfies the invariant.                  *)
LEMMA InitInv == Init => Inv
  <1> SUFFICES ASSUME Init PROVE Inv
    OBVIOUS
  <1>0. \A S : <<>> \in Seq(S)
    OBVIOUS
  <1>1. NoEngine \in Engine /\ NothingBuilt \in Build /\ NotSet \in Int /\ -1 = NotSet
    BY Engines_are, NotSetBelow, Zenon DEF NothingBuilt, Build
  <1>2. IdleLane \in Lane /\ Fits(IdleLane) /\ ~IdleLane.in_flight
    BY <1>1 DEF IdleLane, Lane, Fits, NoEngine
  <1>3. /\ models = [m \in ModelIds |-> NoEngine] /\ queue = [g \in Gpus |-> <<>>]
        /\ lane = [g \in Gpus |-> [l \in Lanes |-> IdleLane]] /\ at = [g \in Gpus |-> 0]
        /\ rr_counter = 0 /\ pc = [c \in Clients |-> "read"]
        /\ asked = [c \in Clients |-> 0] /\ built = [c \in Clients |-> NothingBuilt]
        /\ promise = [c \in Clients |-> NotSet]
        /\ last = [c \in Clients |-> 0] /\ sequence_id = [c \in Clients |-> 0]
        /\ sent = [c \in Clients |-> <<>>]
    BY <1>1, Zenon DEF Init
  <1>4. 0 \in 0..(2 * NumLanes - 1)
    BY RuntimeAssumption
  <1>5. queue \in [Gpus -> Seq(Task)] /\ sent \in [Clients -> Seq(Packet)]
    BY <1>0, <1>3, Zenon
  <1>6. TypeOK
    BY <1>1, <1>2, <1>3, <1>4, <1>5, Zenon DEF TypeOK
  <1>7. AllFit
    BY <1>2, <1>3, Zenon DEF AllFit
  <1>8. Streams
    BY <1>3, <1>5, SMTT(30) DEF Streams, Recent, Applies
  <1>9. Tasks
    <2>1. /\ \A g \in Gpus : DOMAIN queue[g] = {}
          /\ \A g \in Gpus, l \in Lanes : ~lane[g][l].in_flight
          /\ \A c \in Clients : pc[c] = "read" /\ promise[c] = NotSet
      BY <1>2, <1>3
    <2>2. QED
      BY <2>1, Zenon DEF Tasks, Waiting, RunsOn
  <1>10. QED
    BY <1>6, <1>7, <1>8, <1>9, Zenon DEF Inv

(* Every step keeps the whole invariant.                                   *)
LEMMA StepInv == Inv /\ [Next]_vars => Inv'
  BY StepTypeOK, StepStreams, StepTasks, Zenon DEF Inv

(* A busy lane's device buffers hold what its context and its copy out     *)
(* touch, whatever the sizes of the engines loaded under its model id.     *)
THEOREM BuffersLargeEnough == Spec => []BuffersFit
  <1>1. Inv => BuffersFit
    BY Zenon DEF Inv, AllFit, Fits, BuffersFit
  <1>2. QED
    BY <1>1, InitInv, StepInv, PTL DEF Spec

(* The client can apply every delta it is sent to the result it has: the   *)
(* inference before, however many other requests came between.             *)
THEOREM DeltasApply == Spec => []DeltaAppliesToPrevious
  <1>1. Inv => DeltaAppliesToPrevious
    BY Zenon DEF Inv, Streams, Applies, DeltaAppliesToPrevious
  <1>2. QED
    BY <1>1, InitInv, StepInv, PTL DEF Spec
-----------------------------------------------------------------------------
(* A queue holds no client twice, so it is no longer than there are        *)
(* clients.                                                                *)
LEMMA QueueBounded ==
  ASSUME TypeOK, Tasks, NEW g \in Gpus
  PROVE  DOMAIN queue[g] \subseteq 1..Cardinality(Clients)
  <1> DEFINE n == Len(queue[g])
             f == [i \in 1..n |-> queue[g][i].client]
  <1>1. n \in Nat /\ DOMAIN queue[g] = 1..n /\ \A i \in 1..n : queue[g][i].client \in Clients
    BY QueueTyped, SMTT(30)
  <1>2. \A i, j \in 1..n : f[i] = f[j] => i = j
    BY <1>1 DEF Tasks, QueuedOn
  <1>3. f \in [1..n -> Clients]
    BY <1>1, Zenon
  <1>4. f \in Injection(1..n, Clients)
    BY <1>2, <1>3, Zenon DEF Injection, IsInjective
  <1>5. Cardinality(1..n) <= Cardinality(Clients)
    BY <1>4, FS_Injection, RuntimeAssumption
  <1>6. Cardinality(Clients) \in Nat
    BY FS_CardinalityType, RuntimeAssumption, Zenon
  <1> HIDE DEF n, f
  <1>7. Cardinality(1..n) = n
    BY <1>1, FS_Interval, SMTT(30)
  <1>8. QED
    BY <1>1, <1>5, <1>6, <1>7

(* A task is in exactly one queue or on one lane until its promise is set, *)
(* and in none from then on: gpu_worker_thread neither loses a task nor    *)
(* answers one twice, whatever the streams do.                             *)
THEOREM TasksInOnePlace == Spec => []TaskInOnePlace
  <1>1. Inv => TaskInOnePlace
    <2> SUFFICES ASSUME Inv, NEW c \in Clients
                 PROVE  LET queued == {p \in Gpus \X (1..Cardinality(Clients)) :
                              p[2] \in DOMAIN queue[p[1]] /\ queue[p[1]][p[2]].client = c}
                            busy == {p \in Gpus \X Lanes :
                              lane[p[1]][p[2]].in_flight /\ lane[p[1]][p[2]].client = c}
                        IN  Cardinality(queued) + Cardinality(busy)
                              = IF pc[c] = "get" /\ promise[c] = -1 THEN 1 ELSE 0
      BY Zenon DEF TaskInOnePlace
    <2> DEFINE queued == {p \in Gpus \X (1..Cardinality(Clients)) :
                            p[2] \in DOMAIN queue[p[1]] /\ queue[p[1]][p[2]].client = c}
               busy == {p \in Gpus \X Lanes :
                             lane[p[1]][p[2]].in_flight /\ lane[p[1]][p[2]].client = c}
    <2>0. Cardinality({}) = 0 /\ \A x : Cardinality({x}) = 1
      BY FS_EmptySet, FS_Singleton, Zenon
    <2>a. /\ \A p \in queued : /\ p[1] \in Gpus /\ p[2] \in DOMAIN queue[p[1]]
                               /\ QueuedOn(p[1], p[2], c) /\ p = <<p[1], p[2]>>
          /\ \A p \in busy : /\ p[1] \in Gpus /\ p[2] \in Lanes
                                /\ RunsOn(p[1], p[2], c) /\ p = <<p[1], p[2]>>
      BY DEF QueuedOn, RunsOn
    <2>b. /\ \A g \in Gpus : \A i \in DOMAIN queue[g] : QueuedOn(g, i, c) => <<g, i>> \in queued
          /\ \A g \in Gpus, l \in Lanes : RunsOn(g, l, c) => <<g, l>> \in busy
      BY QueueBounded, Zenon DEF Inv, QueuedOn, RunsOn
    <2> HIDE DEF queued, busy
    <2>1. CASE ~Waiting(c)
      <3>1. queued = {} /\ busy = {}
        BY <2>1, <2>a, Zenon DEF Inv, Tasks
      <3>2. Cardinality(queued) = 0 /\ Cardinality(busy) = 0
        BY <2>0, <3>1, Zenon
      <3>3. Cardinality(queued) + Cardinality(busy) = 0
        BY <3>2
      <3>4. QED
        BY <2>1, <3>3, NotSetBelow, Zenon DEF Waiting, queued, busy
    <2>2. ASSUME NEW g \in Gpus, NEW l \in Lanes, RunsOn(g, l, c)
          PROVE  queued = {} /\ busy = {<<g, l>>}
      <3>1. queued = {}
        BY <2>2, <2>a, Zenon DEF Inv, Tasks
      <3>2. \A p \in busy : p = <<g, l>>
        BY <2>2, <2>a DEF Inv, Tasks
      <3>3. QED
        BY <2>2, <2>b, <3>1, <3>2, Zenon
    <2>3. ASSUME NEW g \in Gpus, NEW i \in DOMAIN queue[g], QueuedOn(g, i, c)
          PROVE  queued = {<<g, i>>} /\ busy = {}
      <3>1. busy = {}
        BY <2>3, <2>a DEF Inv, Tasks
      <3>2. \A p \in queued : p = <<g, i>>
        BY <2>3, <2>a, SMTT(30) DEF Inv, Tasks
      <3>3. QED
        BY <2>3, <2>b, <3>1, <3>2, Zenon
    <2>4. CASE Waiting(c)
      <3>1. PICK g \in Gpus : \/ \E i \in DOMAIN queue[g] : QueuedOn(g, i, c)
                              \/ \E l \in Lanes : RunsOn(g, l, c)
        BY <2>4, Zenon DEF Inv, Tasks
      <3>2. \/ queued = {} /\ \E x : busy = {x}
            \/ busy = {} /\ \E x : queued = {x}
        BY <2>2, <2>3, <3>1, Zenon
      <3>3. \/ Cardinality(queued) = 0 /\ Cardinality(busy) = 1
            \/ Cardinality(queued) = 1 /\ Cardinality(busy) = 0
        BY <2>0, <3>2, Zenon
      <3>4. Cardinality(queued) + Cardinality(busy) = 1
        BY <3>3
      <3>5. QED
        BY <2>4, <3>4, NotSetBelow, Zenon DEF Waiting, queued, busy
    <2>5. QED
      BY <2>1, <2>4, Zenon
  <1>2. QED
    BY <1>1, InitInv, StepInv, PTL DEF Spec
=============================================================================
