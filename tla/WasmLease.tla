----------------------------- MODULE WasmLease -----------------------------
(***************************************************************************)
(* What the WASM module manager promises to its callers, without counters, *)
(* leases or replies: the set of tasks that run on each module version,    *)
(* and whether that version still takes new ones.  A version that was      *)
(* closed takes no task until it has been removed and opened anew, and it  *)
(* is removed only while no task runs on it.                               *)
(***************************************************************************)
CONSTANTS Keys, Threads

VARIABLES
    phase,    \* per key: "absent", "open", "closing" or "closed"
    running   \* per key: the threads whose task runs on it

leaseVars == <<phase, running>>

LeaseInit ==
    /\ phase = [k \in Keys |-> "absent"]
    /\ running = [k \in Keys |-> {}]

Open(k) ==
    /\ phase[k] = "absent"
    /\ phase' = [phase EXCEPT ![k] = "open"]
    /\ UNCHANGED running

Enter(k, t) ==
    /\ phase[k] = "open"
    /\ \A j \in Keys : t \notin running[j]
    /\ running' = [running EXCEPT ![k] = @ \cup {t}]
    /\ UNCHANGED phase

Leave(k, t) ==
    /\ t \in running[k]
    /\ running' = [running EXCEPT ![k] = @ \ {t}]
    /\ phase' = [phase EXCEPT ![k] =
                   IF @ = "closing" /\ running[k] = {t} THEN "closed" ELSE @]

Close(k) ==
    /\ phase[k] # "absent"
    /\ phase' = [phase EXCEPT ![k] = IF running[k] = {} THEN "closed" ELSE "closing"]
    /\ UNCHANGED running

Remove(k) ==
    /\ phase[k] # "absent"
    /\ running[k] = {}
    /\ phase' = [phase EXCEPT ![k] = "absent"]
    /\ UNCHANGED running

LeaseNext ==
    \E k \in Keys :
        \/ Open(k) \/ Close(k) \/ Remove(k)
        \/ \E t \in Threads : Enter(k, t) \/ Leave(k, t)

LeaseSpec == LeaseInit /\ [][LeaseNext]_leaseVars
=============================================================================
