---------------------------- MODULE SessionOutline ----------------------------
(***************************************************************************)
(* What the listener and stop() rely on in a session of the broker: it     *)
(* tests the flag before it blocks, wakes up when its socket is cut, and   *)
(* leaves the registry before it closes the descriptor.  BrokerServer has  *)
(* its sessions as this outline, and BrokerSession is a session in full.   *)
(***************************************************************************)
VARIABLES
    running,     \* running_
    registered,  \* the session's descriptor is in client_sockets_
    cut,         \* its socket has been shut down
    session      \* where it is

outline == <<running, registered, cut, session>>

(* A session may be watched from before its thread is started. *)
Init ==
    /\ running \in BOOLEAN /\ ~cut
    /\ session \in {"none", "top"}
    /\ registered = (session = "top")

(* The connection is admitted and its thread started, or it is refused. *)
Admit ==
    /\ session = "none"
    /\ registered' = TRUE
    /\ UNCHANGED <<running, cut, session>>

Begin ==
    /\ session = "none"
    /\ session' = IF registered THEN "top" ELSE "done"
    /\ UNCHANGED <<running, registered, cut>>

Test ==
    /\ session = "top"
    /\ session' = IF running THEN "read" ELSE "erase"
    /\ UNCHANGED <<running, registered, cut>>

(* A read ends with a frame, or the session with it. *)
Read ==
    /\ session = "read"
    /\ session' \in {"top", "erase"}
    /\ UNCHANGED <<running, registered, cut>>

Wake ==
    /\ session = "read" /\ cut
    /\ session' = "erase"
    /\ UNCHANGED <<running, registered, cut>>

Erase ==
    /\ session = "erase"
    /\ session' = "join" /\ registered' = FALSE
    /\ UNCHANGED <<running, cut>>

Join ==
    /\ session = "join"
    /\ session' = "close" /\ cut' = TRUE
    /\ UNCHANGED <<running, registered>>

Close ==
    /\ session = "close"
    /\ session' = "done"
    /\ UNCHANGED <<running, registered, cut>>

(* run() and stop(): a session that has begun sees the flag fall once, and *)
(* only then is its socket cut from outside, while it is registered.       *)
Flag ==
    /\ session # "none" => ~running'
    /\ UNCHANGED <<registered, cut, session>>

Sweep ==
    /\ ~running /\ registered
    /\ cut' = TRUE
    /\ UNCHANGED <<running, registered, session>>

Steps == Test \/ Wake \/ Erase \/ Join \/ Close

Next == Admit \/ Begin \/ Steps \/ Read \/ Flag \/ Sweep

Spec == Init /\ [][Next]_outline

(* Steps is enabled. *)
Due == session \in {"top", "erase", "join", "close"} \/ (session = "read" /\ cut)

(* WF_outline(Steps). *)
Fairness == []<>~Due \/ []<><<Steps>>_outline

FairSpec == Spec /\ Fairness
===============================================================================
