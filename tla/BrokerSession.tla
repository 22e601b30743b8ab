---------------------------- MODULE BrokerSession ----------------------------
(***************************************************************************)
(* One client connection of the broker (BrokerServer::Impl::session_loop): *)
(* the reader thread, one responder thread per accepted request, the       *)
(* socket they share, the client at its other end, and a stop() of the     *)
(* server.  handle_request is any computation that ends.                   *)
(***************************************************************************)
EXTENDS Integers, Sequences, FiniteSets

CONSTANTS
    Requests,                 \* the frames a client may send, in any order
    FrameKinds,               \* subset of {"request", "malformed", "oversize"}
    max_inflight_per_client,  \* config_.max_inflight_per_client
    NoOne                     \* the holder of a free write_mutex

ASSUME SessionAssumption ==
    /\ IsFiniteSet(Requests)
    /\ {"reader", NoOne} \cap Requests = {}
    /\ NoOne # "reader"
    /\ FrameKinds \subseteq {"request", "malformed", "oversize"}
    /\ max_inflight_per_client \in Nat \ {0}

VARIABLES
    inbox,           \* frames sent by the client and not yet read
    unsent,          \* frames the client has not sent yet
    client,          \* the client's end: "open" or "closed"
    running,         \* running_
    registered,      \* client_socket is in client_sockets_
    socket,          \* the server's end: "open", "shutdown" or "closed"
    pc,              \* where the reader is
    frame,           \* the frame the reader is working on
    pending,         \* pending_responses
    responder,       \* per request: how far its responder thread is
    writes_enabled,  \* writes_enabled
    write_mutex,     \* the holder of write_mutex, or NoOne
    wire,            \* what was written to the socket, in order
    left             \* why the reader left its loop (for the properties)

net == <<inbox, unsent, client>>
server == <<running, registered>>
vars == <<net, server, socket, pc, frame, pending, responder, writes_enabled, write_mutex, wire,
          left>>

NoFrame == [id |-> NoOne, kind |-> "none"]

(* A write of one frame: all of it reached the stream, or a part of it. *)
Written(id, what, part) == [id |-> id, what |-> what, part |-> part]

Init ==
    /\ inbox = <<>> /\ unsent = Requests /\ client = "open"
    /\ running = TRUE /\ registered = TRUE /\ socket = "open"
    /\ pc = "top" /\ frame = NoFrame
    /\ pending = {} /\ responder = [r \in Requests |-> "none"]
    /\ writes_enabled = TRUE /\ write_mutex = NoOne
    /\ wire = <<>> /\ left = ""
-----------------------------------------------------------------------------
(* The frames whose reply reached the stream whole. *)
Answered == {w.id : w \in {wire[i] : i \in {j \in DOMAIN wire : wire[j].part = "whole"}}}

(* The client pipelines frames, and may close its end at any time. *)
ClientSend ==
    /\ client = "open"
    /\ \E r \in unsent, kind \in FrameKinds :
         /\ inbox' = Append(inbox, [id |-> r, kind |-> kind])
         /\ unsent' = unsent \ {r}
    /\ UNCHANGED <<client, server, socket, pc, frame, pending, responder, writes_enabled,
                   write_mutex, wire, left>>

ClientClose ==
    /\ client = "open"
    /\ client' = "closed"
    /\ UNCHANGED <<inbox, unsent, server, socket, pc, frame, pending, responder, writes_enabled,
                   write_mutex, wire, left>>

(* stop() as this connection sees it: the flag first, then, under          *)
(* client_mutex_, a shutdown of every registered socket.                   *)
StopFlag ==
    /\ running
    /\ running' = FALSE
    /\ UNCHANGED <<net, registered, socket, pc, frame, pending, responder, writes_enabled,
                   write_mutex, wire, left>>

Mutant_stop_forgets_clients == FALSE

swept == registered /\ socket = "open"

StopShutdown ==
    /\ ~running
    /\ swept
    /\ socket' = "shutdown"
    /\ UNCHANGED <<net, server, pc, frame, pending, responder, writes_enabled, write_mutex, wire,
                   left>>
-----------------------------------------------------------------------------
Alive(r) == responder[r] \in {"handling", "ready", "writing", "exiting"}

(* The head of the loop: the flag is tested and finished responders are    *)
(* joined, before the reader blocks.                                       *)
LoopTop ==
    /\ pc = "top"
    /\ IF running
       THEN /\ pending' = {r \in pending : responder[r] # "done"}
            /\ pc' = "read" /\ UNCHANGED left
       ELSE /\ pc' = "disable" /\ left' = "stopped" /\ UNCHANGED pending
    /\ UNCHANGED <<net, server, socket, frame, responder, writes_enabled, write_mutex, wire>>

(* A whole frame arrives. *)
ReadFrame ==
    /\ pc = "read"
    /\ inbox # <<>>
    /\ frame' = Head(inbox)
    /\ inbox' = Tail(inbox)
    /\ pc' = "decode"
    /\ UNCHANGED <<unsent, client, server, socket, pending, responder, writes_enabled,
                   write_mutex, wire, left>>

Mutant_read_ignores_shutdown == client = "closed" /\ inbox = <<>>

stream_ends == (client = "closed" /\ inbox = <<>>) \/ socket = "shutdown"

(* The stream ends: the client has closed, or stop() has shut it down. *)
ReadEnds ==
    /\ pc = "read"
    /\ stream_ends
    /\ pc' = "disable" /\ left' = "eof"
    /\ UNCHANGED <<net, server, socket, frame, pending, responder, writes_enabled, write_mutex,
                   wire>>

(* SO_RCVTIMEO: no frame for socket_timeout_ms. *)
ReadTimesOut ==
    /\ pc = "read"
    /\ inbox = <<>> /\ client = "open" /\ socket = "open"
    /\ pc' = "disable" /\ left' = "timeout"
    /\ UNCHANGED <<net, server, socket, frame, pending, responder, writes_enabled, write_mutex,
                   wire>>

Mutant_cap_off_by_one == Cardinality(pending) <= max_inflight_per_client

below_cap == Cardinality(pending) < max_inflight_per_client

(* The frame is refused by the length check, by the decoder or by the cap  *)
(* on pending responses, or a responder is started for it.                 *)
Decode ==
    /\ pc = "decode"
    /\ IF frame.kind = "request" /\ below_cap
       THEN /\ responder' = [responder EXCEPT ![frame.id] = "handling"]
            /\ pending' = pending \cup {frame.id}
            /\ pc' = "top" /\ frame' = NoFrame
       ELSE /\ pc' = "refuse"
            /\ UNCHANGED <<frame, pending, responder>>
    /\ UNCHANGED <<net, server, socket, writes_enabled, write_mutex, wire, left>>

(* write_exact of one frame: complete, or cut short by SO_SNDTIMEO, a      *)
(* closed client or a shutdown socket after any number of bytes.           *)
WriteFrame(id, what) ==
    \/ /\ socket = "open"
       /\ wire' = Append(wire, Written(id, what, "whole"))
    \/ wire' = Append(wire, Written(id, what, "partial"))
    \/ UNCHANGED wire

(* The reader's own replies: send_protocol_error_locked and its BRK2 form. *)
RefuseLock ==
    /\ pc = "refuse"
    /\ write_mutex = NoOne
    /\ write_mutex' = "reader" /\ pc' = "refusing"
    /\ UNCHANGED <<net, server, socket, frame, pending, responder, writes_enabled, wire, left>>

RefuseWrite ==
    /\ pc = "refusing"
    /\ WriteFrame(frame.id, IF frame.kind = "request" THEN "reject" ELSE "error")
    /\ write_mutex' = NoOne /\ frame' = NoFrame
    /\ IF frame.kind = "oversize" THEN pc' = "disable" /\ left' = "oversize"
                                  ELSE pc' = "top" /\ UNCHANGED left
    /\ UNCHANGED <<net, server, socket, pending, responder, writes_enabled>>
-----------------------------------------------------------------------------
(* A responder thread: handle_request returns, the flag is tested and the  *)
(* response encoded (which may throw); the flag is tested again under      *)
(* write_mutex; the frame is written; done is set last.                    *)
Handled(r) ==
    /\ responder[r] = "handling"
    /\ \/ writes_enabled /\ responder' = [responder EXCEPT ![r] = "ready"]
       \/ responder' = [responder EXCEPT ![r] = "exiting"]
    /\ UNCHANGED <<net, server, socket, pc, frame, pending, writes_enabled, write_mutex, wire,
                   left>>

Mutant_write_without_recheck == TRUE

may_write == writes_enabled

WriteLock(r) ==
    /\ responder[r] = "ready"
    /\ write_mutex = NoOne
    /\ IF may_write
       THEN write_mutex' = r /\ responder' = [responder EXCEPT ![r] = "writing"]
       ELSE UNCHANGED write_mutex /\ responder' = [responder EXCEPT ![r] = "exiting"]
    /\ UNCHANGED <<net, server, socket, pc, frame, pending, writes_enabled, wire, left>>

Mutant_write_again == "ready"

after_write == "exiting"

Write(r) ==
    /\ responder[r] = "writing"
    /\ WriteFrame(r, "response")
    /\ write_mutex' = NoOne
    /\ responder' = [responder EXCEPT ![r] = after_write]
    /\ UNCHANGED <<net, server, socket, pc, frame, pending, writes_enabled, left>>

SetDone(r) ==
    /\ responder[r] = "exiting"
    /\ responder' = [responder EXCEPT ![r] = "done"]
    /\ UNCHANGED <<net, server, socket, pc, frame, pending, writes_enabled, write_mutex, wire,
                   left>>
-----------------------------------------------------------------------------
(* Cleanup, in the order of the code: no new writes, out of                *)
(* client_sockets_, shutdown, join every responder, close.                 *)
Disable ==
    /\ pc = "disable"
    /\ writes_enabled' = FALSE /\ pc' = "erase"
    /\ UNCHANGED <<net, server, socket, frame, pending, responder, write_mutex, wire, left>>

Erase ==
    /\ pc = "erase"
    /\ registered' = FALSE /\ pc' = "shutdown"
    /\ UNCHANGED <<net, running, socket, frame, pending, responder, writes_enabled,
                   write_mutex, wire, left>>

Shutdown ==
    /\ pc = "shutdown"
    /\ socket' = "shutdown" /\ pc' = "join"
    /\ UNCHANGED <<net, server, frame, pending, responder, writes_enabled, write_mutex, wire, left>>

Mutant_join_skips_unfinished == TRUE

all_joined == \A r \in pending : responder[r] = "done"

Join ==
    /\ pc = "join"
    /\ all_joined
    /\ pending' = {} /\ pc' = "close"
    /\ UNCHANGED <<net, server, socket, frame, responder, writes_enabled, write_mutex, wire, left>>

Close ==
    /\ pc = "close"
    /\ socket' = "closed" /\ pc' = "ended"
    /\ UNCHANGED <<net, server, frame, pending, responder, writes_enabled, write_mutex, wire, left>>

Reader ==
    \/ LoopTop \/ ReadFrame \/ ReadEnds \/ Decode \/ RefuseLock \/ RefuseWrite
    \/ Disable \/ Erase \/ Shutdown \/ Join \/ Close

Respond(r) == Handled(r) \/ WriteLock(r) \/ Write(r) \/ SetDone(r)

(* The session is over; only the client and stop() remain. *)
Ended == pc = "ended" /\ UNCHANGED vars

Next ==
    \/ ClientSend \/ ClientClose \/ StopFlag \/ StopShutdown
    \/ Reader \/ ReadTimesOut \/ Ended
    \/ \E r \in Requests : Respond(r)

(* Threads that can run do: a blocked write ends by SO_SNDTIMEO, a mutex   *)
(* that is free is taken, and stop() finishes what it began.               *)
Fairness ==
    /\ WF_vars(Reader)
    /\ WF_vars(StopShutdown)
    /\ \A r \in Requests : WF_vars(Respond(r))

Spec == Init /\ [][Next]_vars

FairSpec == Spec /\ Fairness
-----------------------------------------------------------------------------
(* The descriptor outlives its users: no responder thread is alive when    *)
(* the socket is closed, and stop() finds no closed descriptor (which the  *)
(* system may have given to another connection) in client_sockets_.        *)
NoUseAfterClose ==
    /\ socket = "closed" => \A r \in Requests : ~Alive(r)
    /\ registered => socket # "closed"

(* At most max_inflight_per_client requests of a connection are in         *)
(* processing, and every responder thread is one the reader will join.     *)
InflightBounded ==
    /\ Cardinality({r \in Requests : Alive(r)}) <= max_inflight_per_client
    /\ \A r \in Requests : Alive(r) => r \in pending

(* No request is answered twice: not by its responder and a refusal, nor   *)
(* by two writes.                                                          *)
OneReplyEach == \A i, j \in DOMAIN wire : wire[i].id = wire[j].id => i = j

(* Frames are never interleaved on the stream: a responder starts to write *)
(* only while nobody else writes, the reader's refusals included, and only *)
(* while the reader has not begun to clean up.                             *)
WritesOneAtATime ==
    [][\A r \in Requests :
         responder[r] # "writing" /\ responder'[r] = "writing" =>
             /\ writes_enabled /\ pc # "refusing"
             /\ \A q \in Requests : responder[q] # "writing"]_vars

(* A stop() of the server, and a client that goes away, end the session    *)
(* and all its threads.                                                    *)
SessionEnds == (~running \/ client = "closed") ~> pc = "ended"

(* Where the reader is, to the listener: an oversize frame is the last. *)
Phase ==
    CASE pc = "top" -> "top"
      [] pc = "read" -> "read"
      [] pc \in {"decode", "refuse", "refusing"} ->
           IF frame.kind = "oversize" THEN "erase" ELSE "top"
      [] pc \in {"disable", "erase"} -> "erase"
      [] pc = "shutdown" -> "join"
      [] pc \in {"join", "close"} -> "close"
      [] pc = "ended" -> "done"

Outline == INSTANCE SessionOutline WITH cut <- socket # "open", session <- Phase

(* Seen from the listener and from stop(), the reader, its responders and  *)
(* the client together behave as the outline that BrokerServer has of a    *)
(* session, and make progress whenever the outline does.                   *)
ActsAsOutlined == Outline!FairSpec

Accepted == {r \in Requests : responder[r] # "none"}
-----------------------------------------------------------------------------
(* A client that stays connected to a running broker gets a reply to every *)
(* request the broker has accepted: its response, or a timeout at the      *)
(* request's deadline.                                                     *)
AcceptedIsAnswered ==
    pc = "ended" /\ client = "open" /\ running /\ left = "timeout" =>
        Accepted \subseteq Answered
=============================================================================
