---------------------------- MODULE EthosExecutor ----------------------------
(***************************************************************************)
(* The Ethos-U85 executor (ethosu_u85_drm_executor.cpp): the bundle it     *)
(* loads, the device it opens, and run(), called by any number of request  *)
(* threads, with every ioctl failing or not.  A buffer object has an       *)
(* identity; a GEM handle is a number the kernel gives out again once it   *)
(* is closed.  A job the device has not finished keeps its objects alive.  *)
(***************************************************************************)
EXTENDS Integers, Sequences, FiniteSets, FiniteSetsExt

CONSTANTS
    Threads,    \* request threads
    NoThread,   \* the holder of a free mutex
    Files,      \* the bundle files there may be
    NodeLists,  \* the render nodes there may be, from renderD128 on
    MaxU32,     \* UINT32_MAX
    kMaxRegions, kMaxCommandBytes, kMaxRegionBytes,
    MaxCalls    \* bound: calls of run() by each thread

ASSUME ExecutorAssumption ==
    /\ NoThread \notin Threads
    /\ {MaxU32, kMaxRegions, kMaxCommandBytes, kMaxRegionBytes} \subseteq Nat \ {0}
    /\ kMaxRegionBytes <= MaxU32
    /\ MaxCalls \in Nat
    /\ \A f \in Files :   \* the fields of a file are unsigned integers
         /\ f.regions \in Seq(Nat)
         /\ {f.input_region, f.input_offset, f.input_elements} \subseteq Nat
         /\ {f.output_region, f.output_offset, f.output_elements} \subseteq Nat

VARIABLES
    bundle,   \* Impl::bundle, or NoBundle while there is no executor
    nodes,    \* the render nodes
    fd,       \* Impl::fd: the node it is open on, or -1
    mutex,    \* Impl::mutex
    gem,      \* the kernel's handle table of fd: handle -> object
    objects,  \* how many objects have been made
    mapped,   \* the objects mapped into the process
    jobs,     \* the jobs submitted: [objects, done]
    pc,       \* each thread: where it is
    run,      \* each thread: the locals of run()
    calls     \* each thread: its calls

kernel == <<gem, objects, mapped, jobs>>
vars == <<bundle, nodes, fd, mutex, kernel, pc, run, calls>>

NoBundle == [regions |-> <<>>]

(* handles, maps: the vectors of run(), maps by object; written: the input *)
(* is in the buffer; read: the job whose output was read, 0 for none.      *)
NoRun == [handles |-> <<>>, maps |-> <<>>, command |-> 0, job |-> 0, written |-> FALSE, read |-> 0]

Init ==
    /\ bundle = NoBundle /\ nodes \in NodeLists /\ fd = -1
    /\ mutex = NoThread
    /\ gem = <<>> /\ objects = 0 /\ mapped = {} /\ jobs = <<>>
    /\ pc = [t \in Threads |-> "idle"]
    /\ run = [t \in Threads |-> NoRun]
    /\ calls = [t \in Threads |-> 0]
-----------------------------------------------------------------------------
Mutant_range_wraps(start, elements, bytes) == (start + elements) % (MaxU32 + 1) <= bytes

(* The sum is taken in 64 bits. *)
range_fits(start, elements, bytes) == start + elements <= bytes

(* load_bundle does not throw.  sound: magic, version and scales are right *)
(* and the file is neither too short nor too long for what it declares.    *)
load_bundle(f) ==
    /\ f.sound
    /\ f.cmd_size \in 1..kMaxCommandBytes
    /\ Len(f.regions) \in 1..kMaxRegions
    /\ f.sram_size > 0
    /\ f.input_region < Len(f.regions) /\ f.output_region < Len(f.regions)
    /\ f.input_elements > 0 /\ f.output_elements > 0
    /\ \A i \in DOMAIN f.regions : f.regions[i] \in 1..kMaxRegionBytes
    /\ range_fits(f.input_offset, f.input_elements, f.regions[f.input_region + 1])
    /\ range_fits(f.output_offset, f.output_elements, f.regions[f.output_region + 1])

(* The node asked for, or the first that may be read and written, whatever *)
(* device it is; 0 when there is none.                                     *)
find_device(requested) ==
    LET allowed == {i \in DOMAIN nodes : nodes[i] # "forbidden"}
    IN  IF requested # 0 THEN requested ELSE IF allowed = {} THEN 0 ELSE Min(allowed)

(* A node that cannot be opened or does not answer the query is no device. *)
open_ethosu(i) == IF i # 0 /\ nodes[i] = "ethosu" THEN i ELSE -1

(* The constructor; when the bundle cannot be loaded it throws. *)
Construct ==
    /\ bundle = NoBundle
    /\ \E f \in Files : load_bundle(f) /\ bundle' = f
    /\ \E requested \in 0..Len(nodes) : fd' = open_ethosu(find_device(requested))
    /\ UNCHANGED <<nodes, mutex, kernel, pc, run, calls>>
-----------------------------------------------------------------------------
Goto(t, label) == pc' = [pc EXCEPT ![t] = label]

(* An exception, or the end of run(): the destructors follow. *)
Unwind(t) == Goto(t, "close_command")

(* run() is called with an input as long as the model's, or not. *)
Call(t) ==
    /\ pc[t] = "idle" /\ bundle # NoBundle /\ calls[t] < MaxCalls
    /\ mutex = NoThread
    /\ mutex' = t
    /\ calls' = [calls EXCEPT ![t] = @ + 1]
    /\ run' = [run EXCEPT ![t] = NoRun]
    /\ \/ fd # -1 /\ Goto(t, "create")
       \/ Unwind(t)
    /\ UNCHANGED <<bundle, nodes, fd, kernel>>

(* The lowest number that is free. *)
FreeHandle == Min((1..(Cardinality(DOMAIN gem) + 1)) \ DOMAIN gem)

Opened(h) == [x \in DOMAIN gem \cup {h} |-> IF x = h THEN objects + 1 ELSE gem[x]]

(* BO_CREATE for the next region. *)
CreateBuffer(t) ==
    /\ pc[t] = "create"
    /\ \/ /\ gem' = Opened(FreeHandle)
          /\ objects' = objects + 1
          /\ run' = [run EXCEPT ![t].handles = Append(@, FreeHandle)]
          /\ Goto(t, "map")
       \/ Unwind(t) /\ UNCHANGED <<gem, objects, run>>
    /\ UNCHANGED <<bundle, nodes, fd, mutex, mapped, jobs, calls>>

(* Mapping: BO_MMAP_OFFSET and mmap, and the region's bytes are copied.    *)
MapBuffer(t) ==
    LET handles == run[t].handles
        object == gem[handles[Len(handles)]]
    IN  /\ pc[t] = "map"
        /\ \/ /\ mapped' = mapped \cup {object}
              /\ run' = [run EXCEPT ![t].maps = Append(@, object)]
              /\ Goto(t, IF Len(run'[t].maps) = Len(bundle.regions) THEN "input" ELSE "create")
           \/ Unwind(t) /\ UNCHANGED <<mapped, run>>
        /\ UNCHANGED <<bundle, nodes, fd, mutex, gem, objects, jobs, calls>>

(* The input is quantized into its region, unless it is not finite. *)
WriteInput(t) ==
    /\ pc[t] = "input"
    /\ \/ run' = [run EXCEPT ![t].written = TRUE] /\ Goto(t, "command")
       \/ Unwind(t) /\ UNCHANGED run
    /\ UNCHANGED <<bundle, nodes, fd, mutex, kernel, calls>>

CreateCommand(t) ==
    /\ pc[t] = "command"
    /\ \/ /\ gem' = Opened(FreeHandle)
          /\ objects' = objects + 1
          /\ run' = [run EXCEPT ![t].command = FreeHandle]
          /\ Goto(t, "submit")
       \/ Unwind(t) /\ UNCHANGED <<gem, objects, run>>
    /\ UNCHANGED <<bundle, nodes, fd, mutex, mapped, jobs, calls>>

(* The kernel looks the handles up and queues a job on their objects. *)
Submit(t) ==
    /\ pc[t] = "submit"
    /\ \/ /\ jobs' = Append(jobs, [objects |-> [i \in DOMAIN run[t].handles |-> gem[run[t].handles[i]]],
                                   done |-> FALSE])
          /\ run' = [run EXCEPT ![t].job = Len(jobs')]
          /\ Goto(t, "wait")
       \/ Unwind(t) /\ UNCHANGED <<jobs, run>>
    /\ UNCHANGED <<bundle, nodes, fd, mutex, gem, objects, mapped, calls>>

(* The device finishes the oldest job. *)
JobDone ==
    /\ \E j \in DOMAIN jobs :
         /\ ~jobs[j].done /\ \A i \in 1..(j - 1) : jobs[i].done
         /\ jobs' = [jobs EXCEPT ![j].done = TRUE]
    /\ UNCHANGED <<bundle, nodes, fd, mutex, gem, objects, mapped, pc, run, calls>>

(* No unfinished job uses the object. *)
idle(object) == \A j \in DOMAIN jobs : object \in Range(jobs[j].objects) => jobs[j].done

Mutant_wait_result_ignored(object) == {"output"}

Mutant_no_deadline(object) == IF idle(object) THEN {"output"} ELSE {}

(* Where BO_WAIT leads: to the output once the object is idle, out of      *)
(* run() when the deadline has passed or the call failed.                  *)
BO_WAIT(object) == {"close_command"} \cup (IF idle(object) THEN {"output"} ELSE {})

(* It waits for the buffer of the output region alone. *)
Wait(t) ==
    /\ pc[t] = "wait"
    /\ \E label \in BO_WAIT(gem[run[t].handles[bundle.output_region + 1]]) : Goto(t, label)
    /\ UNCHANGED <<bundle, nodes, fd, mutex, kernel, run, calls>>

(* The output is read where it is mapped: it is that of a job which has    *)
(* written the object, or the bytes of the bundle.                         *)
ReadOutput(t) ==
    LET object == run[t].maps[bundle.output_region + 1]
        writers == {j \in DOMAIN jobs : jobs[j].done /\ jobs[j].objects[bundle.output_region + 1] = object}
    IN  /\ pc[t] = "output"
        /\ run' = [run EXCEPT ![t].read = IF writers = {} THEN 0 ELSE Max(writers)]
        /\ Unwind(t)
        /\ UNCHANGED <<bundle, nodes, fd, mutex, kernel, calls>>
-----------------------------------------------------------------------------
Closed(h) == [x \in DOMAIN gem \ {h} |-> gem[x]]

(* The destructors of run()'s locals, last declared first: the handle of   *)
(* the command stream, the mappings, the handles, the lock.                *)
CloseCommand(t) ==
    /\ pc[t] = "close_command"
    /\ gem' = Closed(run[t].command)
    /\ run' = [run EXCEPT ![t].command = 0]
    /\ Goto(t, "unmap")
    /\ UNCHANGED <<bundle, nodes, fd, mutex, objects, mapped, jobs, calls>>

Unmap(t) ==
    /\ pc[t] = "unmap"
    /\ IF run[t].maps = <<>> THEN Goto(t, "close") /\ UNCHANGED <<mapped, run>>
       ELSE /\ mapped' = mapped \ {Head(run[t].maps)}
            /\ run' = [run EXCEPT ![t].maps = Tail(@)]
            /\ UNCHANGED pc
    /\ UNCHANGED <<bundle, nodes, fd, mutex, gem, objects, jobs, calls>>

Mutant_last_handle_kept(handles) == Len(handles) <= 1

all_closed(handles) == handles = <<>>

CloseHandle(t) ==
    /\ pc[t] = "close"
    /\ IF all_closed(run[t].handles)
       THEN mutex' = NoThread /\ Goto(t, "idle") /\ UNCHANGED <<gem, run>>
       ELSE /\ gem' = Closed(Head(run[t].handles))
            /\ run' = [run EXCEPT ![t].handles = Tail(@)]
            /\ UNCHANGED <<mutex, pc>>
    /\ UNCHANGED <<bundle, nodes, fd, objects, mapped, jobs, calls>>

Step(t) ==
    \/ CreateBuffer(t) \/ MapBuffer(t) \/ WriteInput(t) \/ CreateCommand(t) \/ Submit(t)
    \/ Wait(t) \/ ReadOutput(t) \/ CloseCommand(t) \/ Unmap(t) \/ CloseHandle(t)

Next == Construct \/ JobDone \/ \E t \in Threads : Call(t) \/ Step(t)

Spec == Init /\ [][Next]_vars

(* A thread in run() goes on.  The device owes nothing: a job may hang for *)
(* ever, and BO_WAIT then ends at its deadline.                            *)
FairSpec == Spec /\ \A t \in Threads : WF_vars(Step(t))
-----------------------------------------------------------------------------
(* Every handle and every mapping belongs to the one run() that holds the  *)
(* mutex and to one of its vectors, at every step and on every error path: *)
(* nothing leaks, nothing is closed twice, and no mapping outlives run().  *)
BuffersAccounted ==
    LET Held(t) == Range(run[t].handles) \cup ({run[t].command} \ {0})
    IN  /\ DOMAIN gem = UNION {Held(t) : t \in Threads}
        /\ mapped = UNION {Range(run[t].maps) : t \in Threads}
        /\ \A t \in Threads :
             /\ mutex # t => Held(t) = {} /\ run[t].maps = <<>>
             /\ \A i, j \in DOMAIN run[t].handles : run[t].handles[i] = run[t].handles[j] => i = j
             /\ run[t].command \notin Range(run[t].handles)

(* The output a run() returns is that of its own job, finished, and of the *)
(* input it wrote: never the bytes of the bundle, nor what a job that      *)
(* outlived an earlier run() writes.                                       *)
OutputIsOwn ==
    \A t \in Threads :
        /\ pc[t] = "output" => run[t].job # 0 /\ jobs[run[t].job].done
        /\ pc[t] = "output" => run[t].maps = jobs[run[t].job].objects
        /\ run[t].read # 0 => run[t].read = run[t].job /\ run[t].written

(* The input is written and the output read inside the mapped region,      *)
(* whatever the bundle's file said, and a job has no more regions than its *)
(* array of handles.                                                       *)
TensorsInside ==
    \A t \in Threads :
        /\ pc[t] \in {"input", "command", "submit", "wait", "output"} =>
             /\ Len(run[t].maps) = Len(bundle.regions) /\ Len(run[t].handles) <= kMaxRegions
             /\ bundle.input_region + 1 \in DOMAIN run[t].maps
             /\ bundle.input_offset + bundle.input_elements <= bundle.regions[bundle.input_region + 1]
             /\ bundle.output_region + 1 \in DOMAIN run[t].maps
             /\ bundle.output_offset + bundle.output_elements
                  <= bundle.regions[bundle.output_region + 1]

(* Every run() ends and gives the mutex back, even if the device never     *)
(* finishes a job: a stuck device cannot stop the broker's threads for     *)
(* ever.                                                                   *)
RunEnds == \A t \in Threads : pc[t] # "idle" ~> pc[t] = "idle"
=============================================================================
