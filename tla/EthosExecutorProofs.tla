------------------------- MODULE EthosExecutorProofs -------------------------
(***************************************************************************)
(* Proofs about EthosExecutor, for any threads, bundle files, render nodes *)
(* and limits.                                                             *)
(***************************************************************************)
EXTENDS EthosExecutor, FiniteSetTheorems, WellFoundedInduction, TLAPS

Job == [objects : Seq(Nat), done : BOOLEAN]

Locals ==
    [handles : Seq(Nat), maps : Seq(Nat), command : Nat, job : Nat, written : BOOLEAN, read : Nat]

(* The labels of run() up to its last use of the buffers, and those of its *)
(* destructors.                                                            *)
Forward == {"create", "map", "input", "command", "submit", "wait", "output"}
Backward == {"close_command", "unmap", "close"}

TypeOK ==
    /\ bundle \in Files \cup {NoBundle}
    /\ mutex \in Threads \cup {NoThread}
    /\ pc \in [Threads -> {"idle"} \cup Forward \cup Backward]
    /\ run \in [Threads -> Locals]

(* The kernel's tables: no object has two handles, and a job is on objects *)
(* that exist, one for each region.                                        *)
Kernel ==
    /\ objects \in Nat /\ mapped \subseteq Nat /\ jobs \in Seq(Job)
    /\ gem \in [DOMAIN gem -> 1..objects]
    /\ DOMAIN gem \subseteq Nat \ {0} /\ IsFiniteSet(DOMAIN gem)
    /\ \A g, h \in DOMAIN gem : gem[g] = gem[h] => g = h
    /\ \A j \in DOMAIN jobs : /\ Len(jobs[j].objects) = Len(bundle.regions)
                              /\ \A i \in DOMAIN jobs[j].objects : jobs[j].objects[i] <= objects

(* A bundle is one load_bundle took; before there is one nothing has run. *)
Loaded ==
    IF bundle = NoBundle THEN jobs = <<>> /\ \A t \in Threads : pc[t] = "idle"
    ELSE load_bundle(bundle)

(* Only the holder of the mutex is in run(). *)
Exclusive ==
    /\ \A t \in Threads : (pc[t] = "idle") <=> (mutex # t)
    /\ \A t \in Threads : pc[t] = "idle" =>
         run[t].handles = <<>> /\ run[t].maps = <<>> /\ run[t].command = 0
    /\ mutex = NoThread => DOMAIN gem = {} /\ mapped = {}

Held(t) == Range(run[t].handles) \cup ({run[t].command} \ {0})

Distinct(s) == \A i, j \in DOMAIN s : s[i] = s[j] => i = j

(* What is open or mapped is what the thread has in its vectors, once. *)
Accounted(t) ==
    /\ DOMAIN gem = Held(t) /\ mapped = Range(run[t].maps)
    /\ Distinct(run[t].handles) /\ Distinct(run[t].maps)
    /\ run[t].command \notin Range(run[t].handles)

(* How far its vectors have come where the thread is. *)
Progress(t) ==
    /\ pc[t] = "create" =>
         Len(run[t].handles) = Len(run[t].maps) /\ Len(run[t].maps) < Len(bundle.regions)
    /\ pc[t] = "map" =>
         Len(run[t].handles) = Len(run[t].maps) + 1 /\ Len(run[t].handles) <= Len(bundle.regions)
    /\ pc[t] \in Forward \ {"create", "map"} =>
         Len(run[t].handles) = Len(bundle.regions) /\ Len(run[t].maps) = Len(bundle.regions)
    /\ pc[t] \notin {"submit", "wait", "output", "close_command"} => run[t].command = 0
    /\ pc[t] = "close" => run[t].maps = <<>>

(* A buffer is mapped where its handle says; the objects the thread has    *)
(* open are in its own job alone, and in none before it submits.           *)
Buffers(t) ==
    pc[t] \in Forward =>
        /\ \A i \in DOMAIN run[t].maps : run[t].maps[i] = gem[run[t].handles[i]]
        /\ \A j \in DOMAIN jobs, h \in DOMAIN gem : gem[h] \in Range(jobs[j].objects) =>
             pc[t] \in {"wait", "output"} /\ j = run[t].job

(* What run() has done by the time it is where it is. *)
Achieved(t) ==
    /\ pc[t] \in {"command", "submit", "wait", "output"} => run[t].written
    /\ pc[t] \in {"wait", "output"} =>
         run[t].job \in DOMAIN jobs /\ run[t].maps = jobs[run[t].job].objects
    /\ pc[t] = "output" => jobs[run[t].job].done
    /\ pc[t] \in Forward => run[t].read = 0

ReadIsOwn(t) == run[t].read # 0 => run[t].read = run[t].job /\ run[t].written

Holder(t) == Accounted(t) /\ Progress(t) /\ Buffers(t) /\ Achieved(t)

Inv ==
    /\ TypeOK /\ Kernel /\ Loaded /\ Exclusive
    /\ \A t \in Threads : mutex = t => Holder(t)
    /\ \A t \in Threads : ReadIsOwn(t)
-----------------------------------------------------------------------------
(* The natural numbers of a set that has any have a least one.             *)
LEMMA LeastNatural ==
  ASSUME NEW T, T \subseteq Nat, T # {}
  PROVE  \E n \in T : \A m \in T : n <= m
  <1> DEFINE R == {p \in Nat \X Nat : p[1] < p[2]}
  <1>1. IsWellFoundedOn(R, Nat)
    BY NatLessThanWellFounded, Zenon DEF OpToRel
  <1>2. PICK n \in T : \A m \in T : <<m, n>> \notin R
    <2> HIDE DEF R
    <2>1. QED
      BY <1>1, WFMin, Zenon
  <1>3. ASSUME NEW m \in T, m < n PROVE FALSE
    <2>1. <<m, n>> \in Nat \X Nat /\ <<m, n>>[1] = m /\ <<m, n>>[2] = n
      OBVIOUS
    <2>2. <<m, n>> \in R
      BY <1>3, <2>1, Zenon
    <2>3. QED
      BY <1>2, <2>2, Zenon
  <1>4. QED
    BY <1>2, <1>3

(* The kernel gives out a handle that is not in use, and never 0: of one   *)
(* more number than there are handles, one is free.                        *)
LEMMA FreeHandleIsFree ==
  ASSUME DOMAIN gem \subseteq Nat \ {0}, IsFiniteSet(DOMAIN gem)
  PROVE  FreeHandle \in Nat \ {0} /\ FreeHandle \notin DOMAIN gem
  <1> DEFINE n == Cardinality(DOMAIN gem)
             free == (1..(n + 1)) \ DOMAIN gem
  <1>1. n \in Nat
    BY FS_CardinalityType, Zenon
  <1>2. IsFiniteSet(1..(n + 1)) /\ Cardinality(1..(n + 1)) = n + 1
    BY <1>1, FS_Interval
  <1>3. free # {}
    <2>1. SUFFICES ASSUME 1..(n + 1) \subseteq DOMAIN gem PROVE FALSE
      OBVIOUS
    <2>2. Cardinality(1..(n + 1)) <= n
      BY <2>1, FS_Subset, Zenon
    <2>3. QED
      BY <1>1, <1>2, <2>2
  <1>4. free \subseteq Nat
    BY <1>1
  <1>5. \E h \in free : \A m \in free : h <= m
    BY <1>3, <1>4, LeastNatural, Zenon
  <1>6. FreeHandle = Min(free)
    BY Zenon DEF FreeHandle
  <1> HIDE DEF free
  <1>7. FreeHandle \in free
    BY <1>5, <1>6, Zenon DEF Min
  <1>8. QED
    BY <1>1, <1>7 DEF free

(* What appending to a vector does to its elements.                        *)
LEMMA Appended ==
  ASSUME NEW s \in Seq(Nat), NEW x \in Nat
  PROVE  /\ Append(s, x) \in Seq(Nat) /\ Len(Append(s, x)) = Len(s) + 1
         /\ Range(Append(s, x)) = Range(s) \cup {x}
         /\ Distinct(s) /\ x \notin Range(s) => Distinct(Append(s, x))
         /\ \A i \in DOMAIN s : i \in DOMAIN Append(s, x) /\ Append(s, x)[i] = s[i]
         /\ DOMAIN Append(s, x) = DOMAIN s \cup {Len(s) + 1} /\ Append(s, x)[Len(s) + 1] = x
  <1>1. /\ Append(s, x) \in Seq(Nat) /\ Len(Append(s, x)) = Len(s) + 1
        /\ \A i \in DOMAIN s : i \in DOMAIN Append(s, x) /\ Append(s, x)[i] = s[i]
        /\ DOMAIN Append(s, x) = DOMAIN s \cup {Len(s) + 1} /\ Append(s, x)[Len(s) + 1] = x
    OBVIOUS
  <1>2. Range(Append(s, x)) = Range(s) \cup {x}
    BY <1>1 DEF Range
  <1>3. ASSUME Distinct(s), x \notin Range(s) PROVE Distinct(Append(s, x))
    BY <1>1, <1>3, Zenon DEF Distinct, Range
  <1>4. QED
    BY <1>1, <1>2, <1>3, Zenon

(* What removing the first element of a vector does to the others.         *)
LEMMA Removed ==
  ASSUME NEW s \in Seq(Nat), s # <<>>
  PROVE  /\ Head(s) \in Nat /\ Tail(s) \in Seq(Nat)
         /\ Range(s) = {Head(s)} \cup Range(Tail(s))
         /\ Distinct(s) => Distinct(Tail(s)) /\ Head(s) \notin Range(Tail(s))
  <1>1. /\ Head(s) \in Nat /\ Tail(s) \in Seq(Nat) /\ Head(s) = s[1] /\ 1 \in DOMAIN s
        /\ DOMAIN Tail(s) = 1..(Len(s) - 1) /\ DOMAIN s = 1..Len(s) /\ Len(s) \in Nat
        /\ \A i \in DOMAIN Tail(s) : Tail(s)[i] = s[i + 1]
    OBVIOUS
  <1>2. \A i \in DOMAIN s : i = 1 \/ (i - 1 \in DOMAIN Tail(s) /\ Tail(s)[i - 1] = s[i])
    BY <1>1
  <1>3. \A i \in DOMAIN Tail(s) : i + 1 \in DOMAIN s
    BY <1>1
  <1>4. Range(s) = {Head(s)} \cup Range(Tail(s))
    <2>1. ASSUME NEW i \in DOMAIN s PROVE s[i] \in {Head(s)} \cup Range(Tail(s))
      BY <1>1, <1>2, Zenon DEF Range
    <2>2. ASSUME NEW i \in DOMAIN Tail(s) PROVE Tail(s)[i] \in Range(s)
      BY <1>1, <1>3, Zenon DEF Range
    <2>3. Head(s) \in Range(s)
      BY <1>1, Zenon DEF Range
    <2>4. Range(s) \subseteq {Head(s)} \cup Range(Tail(s))
      BY <2>1, Zenon DEF Range
    <2>5. Range(Tail(s)) \subseteq Range(s)
      BY <2>2, Zenon DEF Range
    <2>6. QED
      BY <2>3, <2>4, <2>5, Zenon
  <1>5. ASSUME Distinct(s) PROVE Distinct(Tail(s)) /\ Head(s) \notin Range(Tail(s))
    <2>1. \A i, j \in DOMAIN s : s[i] = s[j] => i = j
      BY <1>5, Zenon DEF Distinct
    <2>2. ASSUME NEW i \in DOMAIN Tail(s), NEW j \in DOMAIN Tail(s), Tail(s)[i] = Tail(s)[j]
          PROVE  i = j
      <3>1. i \in Int /\ j \in Int
        BY <1>1
      <3>2. i + 1 = j + 1
        BY <1>1, <1>3, <2>1, <2>2, Zenon
      <3>3. QED
        BY <3>1, <3>2
    <2>3. ASSUME NEW i \in DOMAIN Tail(s) PROVE Head(s) # Tail(s)[i]
      <3>1. i + 1 # 1
        BY <1>1
      <3>2. QED
        BY <1>1, <1>3, <2>1, <3>1, Zenon
    <2>4. Distinct(Tail(s))
      BY <2>2, Zenon DEF Distinct
    <2>5. Head(s) \notin Range(Tail(s))
      BY <2>3, Zenon DEF Range
    <2>6. QED
      BY <2>4, <2>5, Zenon
  <1>6. QED
    BY <1>1, <1>4, <1>5, Zenon
-----------------------------------------------------------------------------
(* A thread in run() holds the mutex; there is a bundle, and the others    *)
(* are idle with empty vectors.                                            *)
LEMMA HolderIsAlone ==
  ASSUME Inv, NEW t \in Threads, pc[t] # "idle"
  PROVE  /\ mutex = t /\ Holder(t) /\ bundle # NoBundle /\ load_bundle(bundle)
         /\ run[t] \in Locals
         /\ \A u \in Threads \ {t} : pc[u] = "idle"
  BY Zenon DEF Inv, TypeOK, Exclusive, Loaded

(* A step of the thread in run() that stays in it: it is enough to look at *)
(* that thread and at the kernel.                                          *)
LEMMA HolderMoves ==
  ASSUME Inv, NEW t \in Threads, pc[t] # "idle",
         NEW l \in Forward \cup Backward, NEW r \in Locals,
         UNCHANGED <<bundle, mutex>>, pc' = [pc EXCEPT ![t] = l], run' = [run EXCEPT ![t] = r],
         Kernel', Holder(t)', r.read # 0 => r.read = r.job /\ r.written
  PROVE  Inv'
  <1>1. /\ mutex = t /\ bundle # NoBundle /\ load_bundle(bundle)
        /\ \A u \in Threads \ {t} : pc[u] = "idle"
    BY HolderIsAlone, Zenon
  <1>2. TypeOK'
    BY Zenon DEF Inv, TypeOK
  <1>3. /\ pc'[t] = l /\ l # "idle" /\ run'[t] = r
        /\ \A u \in Threads \ {t} : pc'[u] = pc[u] /\ run'[u] = run[u]
    BY Zenon DEF Inv, TypeOK, Forward, Backward
  <1>4. Loaded'
    BY <1>1, Zenon DEF Loaded, load_bundle, range_fits
  <1>5. t # NoThread
    BY ExecutorAssumption, Zenon
  <1>6. Exclusive'
    BY <1>1, <1>3, <1>5 DEF Inv, Exclusive
  <1>7. \A u \in Threads : ReadIsOwn(u)'
    BY <1>3 DEF Inv, ReadIsOwn
  <1>8. \A u \in Threads : (mutex = u => Holder(u))'
    BY <1>1, Zenon
  <1>9. QED
    BY <1>2, <1>4, <1>6, <1>7, <1>8, Zenon DEF Inv

(* Creating an object: its handle and its number are new.                  *)
LEMMA ObjectCreated ==
  ASSUME Kernel, gem' = Opened(FreeHandle), objects' = objects + 1,
         UNCHANGED <<bundle, mapped, jobs>>
  PROVE  /\ Kernel' /\ FreeHandle \in Nat \ {0} /\ FreeHandle \notin DOMAIN gem
         /\ DOMAIN gem' = DOMAIN gem \cup {FreeHandle} /\ gem'[FreeHandle] = objects + 1
         /\ \A h \in DOMAIN gem : gem'[h] = gem[h]
         /\ \A j \in DOMAIN jobs : objects + 1 \notin Range(jobs[j].objects)
  <1>1. FreeHandle \in Nat \ {0} /\ FreeHandle \notin DOMAIN gem
    BY FreeHandleIsFree, Zenon DEF Kernel
  <1>2. /\ DOMAIN gem' = DOMAIN gem \cup {FreeHandle} /\ gem'[FreeHandle] = objects + 1
        /\ \A h \in DOMAIN gem : gem'[h] = gem[h]
    BY <1>1, Zenon DEF Opened
  <1> HIDE DEF FreeHandle
  <1>3. \A h \in DOMAIN gem : gem[h] \in 1..objects
    BY Zenon DEF Kernel
  <1>4. \A j \in DOMAIN jobs, i \in Nat :
            i \in DOMAIN jobs[j].objects => jobs[j].objects[i] <= objects /\ jobs[j].objects[i] \in Nat
    <2>1. \A j \in DOMAIN jobs : jobs[j] \in Job
      BY DEF Kernel
    <2>2. \A j \in DOMAIN jobs : jobs[j].objects \in Seq(Nat)
      BY <2>1, Zenon DEF Job
    <2>3. QED
      BY <2>2 DEF Kernel
  <1>5. \A j \in DOMAIN jobs : objects + 1 \notin Range(jobs[j].objects)
    <2>1. \A j \in DOMAIN jobs : DOMAIN jobs[j].objects \subseteq Nat
      BY DEF Kernel, Job
    <2>2. QED
      BY <1>4, <2>1 DEF Range, Kernel
  <1>6. gem' \in [DOMAIN gem' -> 1..objects']
    <2>1. gem' = [x \in DOMAIN gem' |-> gem'[x]]
      BY <1>2, Zenon DEF Opened
    <2>2. \A x \in DOMAIN gem' : gem'[x] \in 1..(objects + 1)
      BY <1>2, <1>3 DEF Kernel
    <2>3. QED
      BY <2>1, <2>2, Zenon
  <1>7. DOMAIN gem' \subseteq Nat \ {0} /\ IsFiniteSet(DOMAIN gem')
    BY <1>1, <1>2, FS_AddElement DEF Kernel
  <1>8. \A g, h \in DOMAIN gem' : gem'[g] = gem'[h] => g = h
    BY <1>2, <1>3 DEF Kernel
  <1>9. objects' \in Nat /\ mapped' \subseteq Nat /\ jobs' \in Seq(Job)
    BY DEF Kernel
  <1>10. \A j \in DOMAIN jobs' : /\ Len(jobs'[j].objects) = Len(bundle'.regions)
                                 /\ \A i \in DOMAIN jobs'[j].objects : jobs'[j].objects[i] <= objects'
    <2>1. \A j \in DOMAIN jobs : DOMAIN jobs[j].objects \subseteq Nat
      BY DEF Kernel, Job
    <2>2. \A j \in DOMAIN jobs, i \in Nat : i \in DOMAIN jobs[j].objects => jobs[j].objects[i] <= objects + 1
      BY <1>4 DEF Kernel
    <2>3. QED
      BY <2>1, <2>2, Zenon DEF Kernel
  <1>11. QED
    BY <1>1, <1>2, <1>5, <1>6, <1>7, <1>8, <1>9, <1>10, Zenon DEF Kernel

(* Closing a handle leaves the others; closing 0 leaves all.               *)
LEMMA HandleClosed ==
  ASSUME Kernel, NEW h, gem' = Closed(h), UNCHANGED <<bundle, objects, jobs>>, mapped' \subseteq Nat
  PROVE  Kernel' /\ DOMAIN gem' = DOMAIN gem \ {h}
  <1>1. DOMAIN gem' = DOMAIN gem \ {h} /\ \A x \in DOMAIN gem' : gem'[x] = gem[x]
    BY Zenon DEF Closed
  <1>2. IsFiniteSet(DOMAIN gem')
    BY <1>1, FS_RemoveElement DEF Kernel
  <1>3. gem' \in [DOMAIN gem' -> 1..objects']
    BY <1>1, Zenon DEF Closed, Kernel
  <1>4. QED
    BY <1>1, <1>2, <1>3, Zenon DEF Kernel

(* What the kernel holds does not change.                                  *)
LEMMA KernelKept == Kernel /\ UNCHANGED <<kernel, bundle>> => Kernel'
  BY Zenon DEF Kernel, kernel

(* An error, or the end of run(): the vectors are kept for the destructors.*)
LEMMA UnwindKeeps ==
  ASSUME Inv, NEW t \in Threads, pc[t] \in Forward, Unwind(t),
         UNCHANGED <<bundle, mutex, kernel, run>>
  PROVE  Inv'
  <1>1. pc[t] # "idle" /\ Kernel /\ Kernel'
    BY KernelKept, Zenon DEF Forward, Inv
  <1>2. mutex = t /\ Holder(t) /\ run[t] \in Locals
    BY <1>1, HolderIsAlone, Zenon
  <1>3. pc' = [pc EXCEPT ![t] = "close_command"] /\ run' = [run EXCEPT ![t] = run[t]]
    BY Zenon DEF Unwind, Goto, Inv, TypeOK
  <1>4. pc'[t] = "close_command" /\ run'[t] = run[t]
    BY <1>3, Zenon DEF Inv, TypeOK
  <1>5. Accounted(t)'
    BY <1>2, Zenon DEF Holder, Accounted, Held, kernel
  <1>6. Progress(t)' /\ Buffers(t)' /\ Achieved(t)'
    BY <1>4, Zenon DEF Progress, Buffers, Achieved, Forward
  <1>7. ReadIsOwn(t)
    BY Zenon DEF Inv
  <1>8. QED
    BY <1>1, <1>2, <1>3, <1>5, <1>6, <1>7, HolderMoves, Zenon DEF Holder, ReadIsOwn, Backward
-----------------------------------------------------------------------------
(* BO_CREATE for the next region.                                          *)
LEMMA CreateBufferKeeps == ASSUME Inv, NEW t \in Threads, CreateBuffer(t) PROVE Inv'
  <1>1. pc[t] = "create" /\ pc[t] # "idle" /\ UNCHANGED <<bundle, mutex, mapped, jobs>> /\ Kernel
    BY Zenon DEF CreateBuffer, Inv
  <1>2. mutex = t /\ Holder(t) /\ run[t] \in Locals
    BY <1>1, HolderIsAlone, Zenon
  <1>3. CASE Unwind(t) /\ UNCHANGED <<gem, objects, run>>
    BY <1>1, <1>3, UnwindKeeps, Zenon DEF kernel, Forward
  <1>4. CASE /\ gem' = Opened(FreeHandle) /\ objects' = objects + 1
             /\ run' = [run EXCEPT ![t].handles = Append(@, FreeHandle)] /\ Goto(t, "map")
    <2> DEFINE r == [run[t] EXCEPT !.handles = Append(run[t].handles, FreeHandle)]
    <2>1. /\ Kernel' /\ FreeHandle \in Nat \ {0} /\ FreeHandle \notin DOMAIN gem
          /\ DOMAIN gem' = DOMAIN gem \cup {FreeHandle} /\ gem'[FreeHandle] = objects + 1
          /\ \A h \in DOMAIN gem : gem'[h] = gem[h]
          /\ \A j \in DOMAIN jobs : objects + 1 \notin Range(jobs[j].objects)
      BY <1>1, <1>4, ObjectCreated, Zenon
    <2> HIDE DEF FreeHandle
    <2>2. run[t].handles \in Seq(Nat) /\ run[t].maps \in Seq(Nat)
      BY <1>2, Zenon DEF Locals
    <2>3. r \in Locals
      BY <1>2, <2>1, <2>2, Appended, Zenon DEF Locals
    <2>4. /\ r.handles = Append(run[t].handles, FreeHandle) /\ r.maps = run[t].maps
          /\ r.command = run[t].command /\ r.job = run[t].job /\ r.written = run[t].written
          /\ r.read = run[t].read
      BY <1>2, Zenon DEF Locals
    <2>5. pc' = [pc EXCEPT ![t] = "map"] /\ run' = [run EXCEPT ![t] = r]
      BY <1>4, Zenon DEF Goto, Inv, TypeOK
    <2>6. pc'[t] = "map" /\ run'[t] = r
      BY <2>5, Zenon DEF Inv, TypeOK
    <2> HIDE DEF r
    <2>7. /\ run[t].command = 0 /\ Len(run[t].handles) = Len(run[t].maps)
          /\ Len(run[t].maps) < Len(bundle.regions)
      BY <1>1, <1>2, Zenon DEF Holder, Progress
    <2>8. Len(bundle.regions) \in Nat
      BY <1>1, HolderIsAlone, ExecutorAssumption DEF load_bundle
    <2>9. Accounted(t)'
      <3>1. FreeHandle \notin Range(run[t].handles) /\ DOMAIN gem = Range(run[t].handles)
        BY <1>2, <2>1, <2>7, Zenon DEF Holder, Accounted, Held
      <3>2. Distinct(r.handles) /\ Range(r.handles) = Range(run[t].handles) \cup {FreeHandle}
        BY <1>2, <2>1, <2>2, <2>4, <3>1, Appended DEF Holder, Accounted
      <3>3. DOMAIN gem' = Held(t)'
        BY <2>1, <2>4, <2>6, <2>7, <3>1, <3>2, Zenon DEF Held
      <3>4. QED
        BY <1>1, <1>2, <2>1, <2>4, <2>6, <2>7, <3>2, <3>3, Zenon DEF Holder, Accounted
    <2>10. Progress(t)'
      <3>1. Len(r.handles) = Len(run[t].handles) + 1 /\ Len(run[t].maps) \in Nat
        BY <2>1, <2>2, <2>4, Appended
      <3>2. Len(r.handles) = Len(r.maps) + 1 /\ Len(r.handles) <= Len(bundle.regions)
        BY <2>4, <2>7, <2>8, <3>1
      <3>3. QED
        BY <1>1, <2>4, <2>6, <2>7, <3>2, Zenon DEF Progress, Forward
    <2>11. Buffers(t)'
      <3>1. ASSUME NEW i \in DOMAIN run[t].maps PROVE r.maps[i] = gem'[r.handles[i]]
        <4>1. i \in DOMAIN run[t].handles
          BY <2>2, <2>7
        <4>2. run[t].handles[i] \in DOMAIN gem
          BY <1>2, <4>1, Zenon DEF Holder, Accounted, Held, Range
        <4>3. r.handles[i] = run[t].handles[i]
          BY <2>1, <2>2, <2>4, <4>1, Appended
        <4>4. run[t].maps[i] = gem[run[t].handles[i]]
          BY <1>1, <1>2, Zenon DEF Holder, Buffers, Forward
        <4>5. QED
          BY <2>1, <2>4, <4>2, <4>3, <4>4, Zenon
      <3>2. ASSUME NEW j \in DOMAIN jobs, NEW h \in DOMAIN gem' PROVE gem'[h] \notin Range(jobs[j].objects)
        BY <1>1, <1>2, <2>1 DEF Holder, Buffers, Forward
      <3>3. QED
        BY <1>1, <2>4, <2>6, <3>1, <3>2, Zenon DEF Buffers
    <2>12. Achieved(t)'
      BY <1>1, <1>2, <2>4, <2>6, Zenon DEF Holder, Achieved, Forward
    <2>13. r.read # 0 => r.read = r.job /\ r.written
      BY <2>4, Zenon DEF Inv, ReadIsOwn
    <2>14. QED
      BY <1>1, <2>1, <2>3, <2>5, <2>9, <2>10, <2>11, <2>12, <2>13, HolderMoves, Zenon DEF Holder,
         Forward
  <1>5. QED
    BY <1>3, <1>4, Zenon DEF CreateBuffer

(* BO_MMAP_OFFSET and mmap.                                                *)
LEMMA MapBufferKeeps == ASSUME Inv, NEW t \in Threads, MapBuffer(t) PROVE Inv'
  <1> DEFINE handles == run[t].handles
             object == gem[handles[Len(handles)]]
  <1>1. pc[t] = "map" /\ pc[t] # "idle" /\ UNCHANGED <<bundle, mutex, gem, objects, jobs>> /\ Kernel
    BY Zenon DEF MapBuffer, Inv
  <1>2. mutex = t /\ Holder(t) /\ run[t] \in Locals
    BY <1>1, HolderIsAlone, Zenon
  <1>3. CASE Unwind(t) /\ UNCHANGED <<mapped, run>>
    BY <1>1, <1>3, UnwindKeeps, Zenon DEF kernel, Forward
  <1>4. CASE /\ mapped' = mapped \cup {object}
             /\ run' = [run EXCEPT ![t].maps = Append(@, object)]
             /\ Goto(t, IF Len(run'[t].maps) = Len(bundle.regions) THEN "input" ELSE "create")
    <2> DEFINE r == [run[t] EXCEPT !.maps = Append(run[t].maps, object)]
               l == IF Len(r.maps) = Len(bundle.regions) THEN "input" ELSE "create"
    <2>1. run[t].handles \in Seq(Nat) /\ run[t].maps \in Seq(Nat)
      BY <1>2, Zenon DEF Locals
    <2>2. /\ run[t].command = 0 /\ Len(run[t].handles) = Len(run[t].maps) + 1
          /\ Len(run[t].handles) <= Len(bundle.regions)
      BY <1>1, <1>2, Zenon DEF Holder, Progress
    <2>3. /\ Len(run[t].handles) \in DOMAIN run[t].handles
          /\ run[t].handles[Len(run[t].handles)] \in DOMAIN gem
      <3>1. Len(run[t].handles) \in DOMAIN run[t].handles
        BY <2>1, <2>2
      <3>2. QED
        BY <1>2, <3>1, Zenon DEF Holder, Accounted, Held, Range
    <2>4. object \in Nat /\ object \in 1..objects
      BY <1>1, <2>3 DEF Kernel
    <2> HIDE DEF object
    <2>5. r \in Locals
      BY <1>2, <2>1, <2>4, Appended, Zenon DEF Locals
    <2>6. /\ r.handles = run[t].handles /\ r.maps = Append(run[t].maps, object)
          /\ r.command = run[t].command /\ r.job = run[t].job /\ r.written = run[t].written
          /\ r.read = run[t].read
      BY <1>2, Zenon DEF Locals
    <2>7. run' = [run EXCEPT ![t] = r] /\ run'[t] = r
      BY <1>4, Zenon DEF Inv, TypeOK
    <2>8. pc' = [pc EXCEPT ![t] = l] /\ pc'[t] = l
      BY <1>4, <2>7, Zenon DEF Goto, Inv, TypeOK
    <2>9. Len(bundle.regions) \in Nat
      BY <1>1, HolderIsAlone, ExecutorAssumption DEF load_bundle
    <2>10. /\ l \in {"input", "create"} /\ Len(r.maps) = Len(r.handles)
           /\ l = "create" => Len(r.maps) < Len(bundle.regions)
           /\ l = "input" => Len(r.maps) = Len(bundle.regions)
      BY <2>1, <2>2, <2>4, <2>6, <2>9, Appended
    <2> HIDE DEF r, l
    <2>11. \A i \in DOMAIN run[t].maps : /\ i \in DOMAIN run[t].handles /\ i < Len(run[t].handles)
                                         /\ run[t].maps[i] = gem[run[t].handles[i]]
                                         /\ run[t].handles[i] \in DOMAIN gem
      <3>1. \A i \in DOMAIN run[t].maps : i \in DOMAIN run[t].handles /\ i < Len(run[t].handles)
        BY <2>1, <2>2
      <3>2. QED
        BY <1>1, <1>2, <3>1, Zenon DEF Holder, Buffers, Forward, Accounted, Held, Range
    <2>12. object \notin Range(run[t].maps)
      <3>1. ASSUME NEW i \in DOMAIN run[t].maps, run[t].maps[i] = object PROVE FALSE
        <4>1. run[t].handles[i] = run[t].handles[Len(run[t].handles)]
          BY <1>1, <2>3, <2>11, <3>1, Zenon DEF object, Kernel
        <4>2. i = Len(run[t].handles)
          BY <1>2, <2>3, <2>11, <4>1, Zenon DEF Holder, Accounted, Distinct
        <4>3. QED
          BY <2>1, <2>11, <4>2
      <3>2. QED
        BY <3>1, Zenon DEF Range
    <2>13. Accounted(t)'
      <3>1. Range(r.maps) = Range(run[t].maps) \cup {object} /\ Distinct(r.maps)
        BY <1>2, <2>1, <2>4, <2>6, <2>12, Appended DEF Holder, Accounted
      <3>2. QED
        BY <1>1, <1>2, <1>4, <2>6, <2>7, <3>1, Zenon DEF Holder, Accounted, Held
    <2>14. Progress(t)'
      BY <1>1, <2>2, <2>6, <2>7, <2>8, <2>10, Zenon DEF Progress, Forward
    <2>15. Buffers(t)'
      <3>1. ASSUME NEW i \in DOMAIN r.maps PROVE r.maps[i] = gem[r.handles[i]]
        <4>1. CASE i \in DOMAIN run[t].maps
          BY <2>1, <2>4, <2>6, <2>11, <4>1, Appended
        <4>2. CASE i = Len(run[t].maps) + 1
          BY <2>1, <2>2, <2>3, <2>4, <2>6, <4>2, Appended DEF object
        <4>3. QED
          BY <2>1, <2>4, <2>6, <4>1, <4>2, Appended
      <3>2. ASSUME NEW j \in DOMAIN jobs, NEW h \in DOMAIN gem PROVE gem[h] \notin Range(jobs[j].objects)
        BY <1>1, <1>2, Zenon DEF Holder, Buffers, Forward
      <3>3. QED
        BY <1>1, <2>7, <3>1, <3>2, Zenon DEF Buffers
    <2>16. Achieved(t)'
      BY <1>1, <1>2, <2>6, <2>7, <2>8, <2>10, Zenon DEF Holder, Achieved, Forward
    <2>17. r.read # 0 => r.read = r.job /\ r.written
      BY <2>6, Zenon DEF Inv, ReadIsOwn
    <2>18. Kernel'
      BY <1>1, <1>4, <2>4, Zenon DEF Kernel
    <2>19. QED
      BY <1>1, <2>5, <2>7, <2>8, <2>10, <2>13, <2>14, <2>15, <2>16, <2>17, <2>18, HolderMoves,
         Zenon DEF Holder, Forward
  <1>5. QED
    BY <1>3, <1>4, Zenon DEF MapBuffer

(* The input is written, or is not finite.                                 *)
LEMMA WriteInputKeeps == ASSUME Inv, NEW t \in Threads, WriteInput(t) PROVE Inv'
  <1>1. /\ pc[t] = "input" /\ pc[t] # "idle" /\ UNCHANGED <<bundle, mutex, kernel>> /\ Kernel
        /\ UNCHANGED <<gem, objects, mapped, jobs>>
    BY Zenon DEF WriteInput, Inv, kernel
  <1>2. mutex = t /\ Holder(t) /\ run[t] \in Locals
    BY <1>1, HolderIsAlone, Zenon
  <1>3. CASE Unwind(t) /\ UNCHANGED run
    BY <1>1, <1>3, UnwindKeeps, Zenon DEF Forward
  <1>4. CASE run' = [run EXCEPT ![t].written = TRUE] /\ Goto(t, "command")
    <2> DEFINE r == [run[t] EXCEPT !.written = TRUE]
    <2>1. /\ r \in Locals /\ r.handles = run[t].handles /\ r.maps = run[t].maps
          /\ r.command = run[t].command /\ r.job = run[t].job /\ r.written /\ r.read = run[t].read
      BY <1>2, Zenon DEF Locals
    <2>2. /\ pc' = [pc EXCEPT ![t] = "command"] /\ run' = [run EXCEPT ![t] = r]
          /\ pc'[t] = "command" /\ run'[t] = r
      BY <1>4, Zenon DEF Goto, Inv, TypeOK
    <2> HIDE DEF r
    <2>3. Accounted(t)'
      BY <1>1, <1>2, <2>1, <2>2, Zenon DEF Holder, Accounted, Held
    <2>4. Progress(t)'
      BY <1>1, <1>2, <2>1, <2>2, Zenon DEF Holder, Progress, Forward
    <2>5. Buffers(t)'
      BY <1>1, <1>2, <2>1, <2>2 DEF Holder, Buffers, Forward
    <2>6. Achieved(t)' /\ r.read = 0
      BY <1>1, <1>2, <2>1, <2>2, Zenon DEF Holder, Achieved, Forward
    <2>7. QED
      BY <1>1, <2>1, <2>2, <2>3, <2>4, <2>5, <2>6, KernelKept, HolderMoves, Zenon DEF Holder,
         Forward
  <1>5. QED
    BY <1>3, <1>4, Zenon DEF WriteInput

(* BO_CREATE for the command stream.                                       *)
LEMMA CreateCommandKeeps == ASSUME Inv, NEW t \in Threads, CreateCommand(t) PROVE Inv'
  <1>1. pc[t] = "command" /\ pc[t] # "idle" /\ UNCHANGED <<bundle, mutex, mapped, jobs>> /\ Kernel
    BY Zenon DEF CreateCommand, Inv
  <1>2. mutex = t /\ Holder(t) /\ run[t] \in Locals
    BY <1>1, HolderIsAlone, Zenon
  <1>3. CASE Unwind(t) /\ UNCHANGED <<gem, objects, run>>
    BY <1>1, <1>3, UnwindKeeps, Zenon DEF kernel, Forward
  <1>4. CASE /\ gem' = Opened(FreeHandle) /\ objects' = objects + 1
             /\ run' = [run EXCEPT ![t].command = FreeHandle] /\ Goto(t, "submit")
    <2> DEFINE r == [run[t] EXCEPT !.command = FreeHandle]
    <2>1. /\ Kernel' /\ FreeHandle \in Nat \ {0} /\ FreeHandle \notin DOMAIN gem
          /\ DOMAIN gem' = DOMAIN gem \cup {FreeHandle} /\ gem'[FreeHandle] = objects + 1
          /\ \A h \in DOMAIN gem : gem'[h] = gem[h]
          /\ \A j \in DOMAIN jobs : objects + 1 \notin Range(jobs[j].objects)
      BY <1>1, <1>4, ObjectCreated, Zenon
    <2> HIDE DEF FreeHandle
    <2>2. /\ r \in Locals /\ r.handles = run[t].handles /\ r.maps = run[t].maps
          /\ r.command = FreeHandle /\ r.job = run[t].job /\ r.written = run[t].written
          /\ r.read = run[t].read
      BY <1>2, <2>1, Zenon DEF Locals
    <2>3. /\ pc' = [pc EXCEPT ![t] = "submit"] /\ run' = [run EXCEPT ![t] = r]
          /\ pc'[t] = "submit" /\ run'[t] = r
      BY <1>4, Zenon DEF Goto, Inv, TypeOK
    <2> HIDE DEF r
    <2>4. run[t].command = 0
      BY <1>1, <1>2, Zenon DEF Holder, Progress
    <2>5. Accounted(t)'
      <3>1. DOMAIN gem = Range(run[t].handles)
        BY <1>2, <2>4, Zenon DEF Holder, Accounted, Held
      <3>2. QED
        BY <1>1, <1>2, <2>1, <2>2, <2>3, <3>1, Zenon DEF Holder, Accounted, Held
    <2>6. Progress(t)'
      BY <1>1, <1>2, <2>2, <2>3, Zenon DEF Holder, Progress, Forward
    <2>7. Buffers(t)'
      <3>1. ASSUME NEW i \in DOMAIN run[t].maps PROVE r.maps[i] = gem'[r.handles[i]]
        <4>1. run[t].handles \in Seq(Nat) /\ run[t].maps \in Seq(Nat)
          BY <1>2, Zenon DEF Locals
        <4>2. Len(run[t].handles) = Len(run[t].maps)
          BY <1>1, <1>2, Zenon DEF Holder, Progress, Forward
        <4>3. i \in DOMAIN run[t].handles
          BY <4>1, <4>2
        <4>4. run[t].handles[i] \in DOMAIN gem
          BY <1>2, <4>3, Zenon DEF Holder, Accounted, Held, Range
        <4>5. run[t].maps[i] = gem[run[t].handles[i]]
          BY <1>1, <1>2, Zenon DEF Holder, Buffers, Forward
        <4>6. QED
          BY <2>1, <2>2, <4>4, <4>5, Zenon
      <3>2. ASSUME NEW j \in DOMAIN jobs, NEW h \in DOMAIN gem' PROVE gem'[h] \notin Range(jobs[j].objects)
        BY <1>1, <1>2, <2>1 DEF Holder, Buffers, Forward
      <3>3. QED
        BY <1>1, <2>2, <2>3, <3>1, <3>2, Zenon DEF Buffers
    <2>8. Achieved(t)' /\ r.read = 0
      BY <1>1, <1>2, <2>2, <2>3, Zenon DEF Holder, Achieved, Forward
    <2>9. QED
      BY <1>1, <2>1, <2>2, <2>3, <2>5, <2>6, <2>7, <2>8, HolderMoves, Zenon DEF Holder, Forward
  <1>5. QED
    BY <1>3, <1>4, Zenon DEF CreateCommand

(* The job is queued on the objects the handles name.                      *)
LEMMA SubmitKeeps == ASSUME Inv, NEW t \in Threads, Submit(t) PROVE Inv'
  <1> DEFINE on == [i \in DOMAIN run[t].handles |-> gem[run[t].handles[i]]]
             job == [objects |-> on, done |-> FALSE]
  <1>1. /\ pc[t] = "submit" /\ pc[t] # "idle" /\ Kernel
        /\ UNCHANGED <<bundle, mutex, gem, objects, mapped>>
    BY Zenon DEF Submit, Inv
  <1>2. mutex = t /\ Holder(t) /\ run[t] \in Locals
    BY <1>1, HolderIsAlone, Zenon
  <1>3. CASE Unwind(t) /\ UNCHANGED <<jobs, run>>
    BY <1>1, <1>3, UnwindKeeps, Zenon DEF kernel, Forward
  <1>4. CASE jobs' = Append(jobs, job) /\ run' = [run EXCEPT ![t].job = Len(jobs')] /\ Goto(t, "wait")
    <2> DEFINE r == [run[t] EXCEPT !.job = Len(jobs')]
    <2>1. /\ run[t].handles \in Seq(Nat) /\ run[t].maps \in Seq(Nat) /\ jobs \in Seq(Job)
          /\ Len(run[t].handles) = Len(bundle.regions) /\ Len(run[t].maps) = Len(bundle.regions)
      BY <1>1, <1>2, Zenon DEF Locals, Holder, Progress, Forward, Kernel
    <2>2. \A i \in DOMAIN run[t].handles :
            run[t].handles[i] \in DOMAIN gem /\ gem[run[t].handles[i]] \in 1..objects
      <3>1. \A i \in DOMAIN run[t].handles : run[t].handles[i] \in DOMAIN gem
        BY <1>2, Zenon DEF Holder, Accounted, Held, Range
      <3>2. QED
        BY <1>1, <3>1, Zenon DEF Kernel
    <2>3. on = run[t].maps
      <3>1. DOMAIN run[t].handles = DOMAIN run[t].maps
        BY <2>1
      <3>2. \A i \in DOMAIN run[t].maps : run[t].maps[i] = gem[run[t].handles[i]]
        BY <1>1, <1>2, Zenon DEF Holder, Buffers, Forward
      <3>3. run[t].maps = [i \in DOMAIN run[t].maps |-> run[t].maps[i]]
        BY <2>1
      <3>4. QED
        BY <3>1, <3>2, <3>3, Zenon
    <2>4. job \in Job
      BY <2>1, <2>3, Zenon DEF Job
    <2>5. /\ jobs' \in Seq(Job) /\ Len(jobs') = Len(jobs) + 1 /\ Len(jobs') \in Nat
          /\ DOMAIN jobs' = DOMAIN jobs \cup {Len(jobs')} /\ jobs'[Len(jobs')] = job
          /\ \A j \in DOMAIN jobs : jobs'[j] = jobs[j] /\ j # Len(jobs')
      BY <1>4, <2>1, <2>4
    <2>6. job.objects = run[t].maps /\ ~job.done
      BY <2>3, Zenon
    <2>7. \A i \in DOMAIN run[t].maps : run[t].maps[i] <= objects
      <3>1. \A i \in DOMAIN run[t].maps : on[i] \in 1..objects
        BY <2>1, <2>2
      <3>2. objects \in Nat
        BY <1>1, Zenon DEF Kernel
      <3>3. QED
        BY <2>3, <3>1, <3>2
    <2> HIDE DEF job, on
    <2>8. Kernel'
      <3>1. ASSUME NEW j \in DOMAIN jobs'
            PROVE  /\ Len(jobs'[j].objects) = Len(bundle.regions)
                   /\ \A i \in DOMAIN jobs'[j].objects : jobs'[j].objects[i] <= objects
        <4>1. CASE j \in DOMAIN jobs
          BY <1>1, <2>5, <4>1, Zenon DEF Kernel
        <4>2. CASE j = Len(jobs')
          BY <2>1, <2>5, <2>6, <2>7, <4>2, Zenon
        <4>3. QED
          BY <2>5, <4>1, <4>2, Zenon
      <3>2. QED
        BY <1>1, <2>5, <3>1, Zenon DEF Kernel
    <2>9. /\ r \in Locals /\ r.handles = run[t].handles /\ r.maps = run[t].maps
          /\ r.command = run[t].command /\ r.job = Len(jobs') /\ r.written = run[t].written
          /\ r.read = run[t].read
      BY <1>2, <2>5, Zenon DEF Locals
    <2>10. /\ pc' = [pc EXCEPT ![t] = "wait"] /\ run' = [run EXCEPT ![t] = r]
           /\ pc'[t] = "wait" /\ run'[t] = r
      BY <1>4, Zenon DEF Goto, Inv, TypeOK
    <2> HIDE DEF r
    <2>11. Accounted(t)'
      BY <1>1, <1>2, <2>9, <2>10, Zenon DEF Holder, Accounted, Held
    <2>12. Progress(t)'
      BY <1>1, <1>2, <2>9, <2>10, Zenon DEF Holder, Progress, Forward
    <2>13. Buffers(t)'
      <3>1. \A i \in DOMAIN run[t].maps : run[t].maps[i] = gem[run[t].handles[i]]
        BY <1>1, <1>2, Zenon DEF Holder, Buffers, Forward
      <3>2. ASSUME NEW j \in DOMAIN jobs', NEW h \in DOMAIN gem, gem[h] \in Range(jobs'[j].objects)
            PROVE  j = Len(jobs')
        BY <1>1, <1>2, <2>5, <3>2, Zenon DEF Holder, Buffers, Forward
      <3>3. QED
        BY <1>1, <2>9, <2>10, <3>1, <3>2 DEF Buffers
    <2>14. Achieved(t)' /\ r.read = 0
      <3>1. run[t].written /\ run[t].read = 0
        BY <1>1, <1>2, Zenon DEF Holder, Achieved, Forward
      <3>2. r.job \in DOMAIN jobs' /\ r.maps = jobs'[r.job].objects
        BY <2>5, <2>6, <2>9, Zenon
      <3>3. QED
        BY <2>9, <2>10, <3>1, <3>2, Zenon DEF Achieved
    <2>15. QED
      BY <1>1, <2>8, <2>9, <2>10, <2>11, <2>12, <2>13, <2>14, HolderMoves, Zenon DEF Holder,
         Forward
  <1>5. QED
    BY <1>3, <1>4, Zenon DEF Submit

(* The regions of the input and the output are regions of the bundle.      *)
LEMMA RegionsExist ==
  ASSUME TypeOK, bundle # NoBundle, load_bundle(bundle)
  PROVE  /\ Len(bundle.regions) \in 1..kMaxRegions
         /\ bundle.input_region + 1 \in 1..Len(bundle.regions)
         /\ bundle.output_region + 1 \in 1..Len(bundle.regions)
  <1>1. bundle \in Files
    BY Zenon DEF TypeOK
  <1>2. /\ bundle.regions \in Seq(Nat) /\ bundle.input_region \in Nat /\ bundle.output_region \in Nat
    BY <1>1, ExecutorAssumption, Zenon
  <1>3. QED
    <2>1. /\ Len(bundle.regions) \in 1..kMaxRegions
          /\ bundle.input_region < Len(bundle.regions)
          /\ bundle.output_region < Len(bundle.regions)
      BY Zenon DEF load_bundle
    <2>2. Len(bundle.regions) \in Nat
      BY <1>2
    <2>3. QED
      BY <1>2, <2>1, <2>2

(* The buffer BO_WAIT waits for is one of the job's: when it is idle the   *)
(* job is done.                                                            *)
LEMMA WaitKeeps == ASSUME Inv, NEW t \in Threads, Wait(t) PROVE Inv'
  <1> DEFINE o == bundle.output_region + 1
             object == gem[run[t].handles[o]]
  <1>1. /\ pc[t] = "wait" /\ pc[t] # "idle" /\ Kernel
        /\ UNCHANGED <<bundle, mutex, kernel, run>> /\ UNCHANGED <<gem, objects, mapped, jobs>>
    BY Zenon DEF Wait, Inv, kernel
  <1>2. mutex = t /\ Holder(t) /\ run[t] \in Locals
    BY <1>1, HolderIsAlone, Zenon
  <1>3. PICK label \in BO_WAIT(object) : Goto(t, label)
    BY Zenon DEF Wait
  <1>4. CASE label = "close_command"
    BY <1>1, <1>3, <1>4, UnwindKeeps, Zenon DEF Forward, Unwind
  <1>5. CASE label = "output" /\ idle(object)
    <2>1. /\ run[t].maps \in Seq(Nat) /\ Len(run[t].maps) = Len(bundle.regions)
          /\ o \in 1..Len(bundle.regions)
      BY <1>1, <1>2, HolderIsAlone, RegionsExist, Zenon DEF Locals, Holder, Progress, Forward,
         Inv
    <2>2. o \in DOMAIN run[t].maps
      BY <2>1
    <2>3. run[t].maps[o] = object
      BY <1>1, <1>2, <2>2, Zenon DEF Holder, Buffers, Forward
    <2>4. run[t].job \in DOMAIN jobs /\ run[t].maps = jobs[run[t].job].objects
      BY <1>1, <1>2, Zenon DEF Holder, Achieved
    <2>5. object \in Range(jobs[run[t].job].objects)
      BY <2>2, <2>3, <2>4, Zenon DEF Range
    <2>6. jobs[run[t].job].done
      BY <1>5, <2>4, <2>5, Zenon DEF idle
    <2>7. /\ pc' = [pc EXCEPT ![t] = "output"] /\ run' = [run EXCEPT ![t] = run[t]]
          /\ pc'[t] = "output" /\ run'[t] = run[t]
      BY <1>1, <1>3, <1>5, Zenon DEF Goto, Inv, TypeOK
    <2>8. Accounted(t)'
      BY <1>1, <1>2, Zenon DEF Holder, Accounted, Held
    <2>9. Progress(t)'
      BY <1>1, <1>2, <2>7, Zenon DEF Holder, Progress, Forward
    <2>10. Buffers(t)'
      BY <1>1, <1>2, <2>7, Zenon DEF Holder, Buffers, Forward
    <2>11. Achieved(t)' /\ run[t].read = 0
      BY <1>1, <1>2, <2>6, <2>7, Zenon DEF Holder, Achieved, Forward
    <2>12. QED
      BY <1>1, <1>2, <2>7, <2>8, <2>9, <2>10, <2>11, KernelKept, HolderMoves, Zenon DEF Holder,
         Forward
  <1>6. QED
    BY <1>3, <1>4, <1>5, Zenon DEF BO_WAIT

(* Of the jobs that are done, its own alone has written the buffer the     *)
(* thread reads.                                                           *)
LEMMA ReadOutputKeeps == ASSUME Inv, NEW t \in Threads, ReadOutput(t) PROVE Inv'
  <1> DEFINE o == bundle.output_region + 1
             object == run[t].maps[o]
             writers == {j \in DOMAIN jobs : jobs[j].done /\ jobs[j].objects[o] = object}
  <1>1. /\ pc[t] = "output" /\ pc[t] # "idle" /\ Kernel /\ Unwind(t)
        /\ UNCHANGED <<bundle, mutex, kernel>> /\ UNCHANGED <<gem, objects, mapped, jobs>>
        /\ run' = [run EXCEPT ![t].read = IF writers = {} THEN 0 ELSE Max(writers)]
    BY Zenon DEF ReadOutput, Inv, kernel
  <1>2. mutex = t /\ Holder(t) /\ run[t] \in Locals
    BY <1>1, HolderIsAlone, Zenon
  <1>3. /\ run[t].maps \in Seq(Nat) /\ run[t].handles \in Seq(Nat)
        /\ Len(run[t].maps) = Len(bundle.regions) /\ Len(run[t].handles) = Len(bundle.regions)
        /\ o \in 1..Len(bundle.regions)
    BY <1>1, <1>2, HolderIsAlone, RegionsExist, Zenon DEF Locals, Holder, Progress, Forward, Inv
  <1>4. o \in DOMAIN run[t].maps /\ o \in DOMAIN run[t].handles
    BY <1>3
  <1>5. run[t].handles[o] \in DOMAIN gem /\ object = gem[run[t].handles[o]]
    BY <1>1, <1>2, <1>4, Zenon DEF Holder, Buffers, Forward, Accounted, Held, Range
  <1>6. /\ run[t].job \in DOMAIN jobs /\ jobs[run[t].job].done /\ run[t].written
        /\ run[t].maps = jobs[run[t].job].objects
    BY <1>1, <1>2, Zenon DEF Holder, Achieved
  <1>7. ASSUME NEW j \in writers PROVE j = run[t].job
    <2>1. jobs[j].objects \in Seq(Nat) /\ Len(jobs[j].objects) = Len(bundle.regions)
      <3>1. jobs[j] \in Job
        BY <1>1, <1>7 DEF Kernel
      <3>2. QED
        BY <1>1, <1>7, <3>1, Zenon DEF Kernel, Job
    <2>2. object \in Range(jobs[j].objects)
      BY <1>3, <1>7, <2>1 DEF Range
    <2>3. QED
      BY <1>1, <1>2, <1>5, <1>7, <2>2, Zenon DEF Holder, Buffers, Forward
  <1>8. writers = {run[t].job}
    BY <1>6, <1>7, Zenon
  <1>9. run[t].job \in Nat \ {0}
    BY <1>1, <1>6 DEF Kernel
  <1> HIDE DEF writers
  <1>10. Max(writers) = run[t].job
    BY <1>8, <1>9 DEF Max
  <1> DEFINE r == [run[t] EXCEPT !.read = run[t].job]
  <1>11. /\ r \in Locals /\ r.handles = run[t].handles /\ r.maps = run[t].maps
         /\ r.command = run[t].command /\ r.job = run[t].job /\ r.written = run[t].written
         /\ r.read = run[t].job
    BY <1>2, <1>9, Zenon DEF Locals
  <1>12. /\ pc' = [pc EXCEPT ![t] = "close_command"] /\ run' = [run EXCEPT ![t] = r]
         /\ pc'[t] = "close_command" /\ run'[t] = r
    BY <1>1, <1>8, <1>10, Zenon DEF Unwind, Goto, Inv, TypeOK
  <1> HIDE DEF r
  <1>13. Accounted(t)'
    BY <1>1, <1>2, <1>11, <1>12, Zenon DEF Holder, Accounted, Held
  <1>14. Progress(t)' /\ Buffers(t)' /\ Achieved(t)'
    BY <1>12, Zenon DEF Progress, Buffers, Achieved, Forward
  <1>15. QED
    BY <1>1, <1>6, <1>11, <1>12, <1>13, <1>14, KernelKept, HolderMoves DEF Holder, Backward
-----------------------------------------------------------------------------
(* The handle of the command stream is closed, if there is one.            *)
LEMMA CloseCommandKeeps == ASSUME Inv, NEW t \in Threads, CloseCommand(t) PROVE Inv'
  <1> DEFINE r == [run[t] EXCEPT !.command = 0]
  <1>1. /\ pc[t] = "close_command" /\ pc[t] # "idle" /\ Kernel /\ gem' = Closed(run[t].command)
        /\ UNCHANGED <<bundle, mutex, objects, mapped, jobs>>
    BY Zenon DEF CloseCommand, Inv
  <1>2. mutex = t /\ Holder(t) /\ run[t] \in Locals /\ ReadIsOwn(t)
    BY <1>1, HolderIsAlone, Zenon DEF Inv
  <1>3. Kernel' /\ DOMAIN gem' = DOMAIN gem \ {run[t].command} /\ 0 \notin DOMAIN gem
    BY <1>1, HandleClosed, Zenon DEF Kernel
  <1>4. /\ r \in Locals /\ r.handles = run[t].handles /\ r.maps = run[t].maps
        /\ r.command = 0 /\ r.job = run[t].job /\ r.written = run[t].written
        /\ r.read = run[t].read
    BY <1>2, Zenon DEF Locals
  <1>5. /\ pc' = [pc EXCEPT ![t] = "unmap"] /\ run' = [run EXCEPT ![t] = r]
        /\ pc'[t] = "unmap" /\ run'[t] = r
    BY Zenon DEF CloseCommand, Goto, Inv, TypeOK
  <1> HIDE DEF r
  <1>6. Accounted(t)'
    BY <1>1, <1>2, <1>3, <1>4, <1>5, Zenon DEF Holder, Accounted, Held
  <1>7. Progress(t)' /\ Buffers(t)' /\ Achieved(t)'
    BY <1>4, <1>5, Zenon DEF Progress, Buffers, Achieved, Forward
  <1>8. QED
    BY <1>1, <1>2, <1>3, <1>4, <1>5, <1>6, <1>7, HolderMoves, Zenon DEF Holder, ReadIsOwn,
       Backward

(* The mappings go, first mapped first.                                    *)
LEMMA UnmapKeeps == ASSUME Inv, NEW t \in Threads, Unmap(t) PROVE Inv'
  <1>1. /\ pc[t] = "unmap" /\ pc[t] # "idle" /\ Kernel
        /\ UNCHANGED <<bundle, mutex, gem, objects, jobs>>
    BY Zenon DEF Unmap, Inv
  <1>2. mutex = t /\ Holder(t) /\ run[t] \in Locals /\ ReadIsOwn(t)
    BY <1>1, HolderIsAlone, Zenon DEF Inv
  <1>3. run[t].maps \in Seq(Nat) /\ run[t].command = 0
    BY <1>1, <1>2, Zenon DEF Locals, Holder, Progress
  <1>4. CASE run[t].maps = <<>>
    <2>1. /\ pc' = [pc EXCEPT ![t] = "close"] /\ run' = [run EXCEPT ![t] = run[t]]
          /\ pc'[t] = "close" /\ run'[t] = run[t] /\ mapped' = mapped
      BY <1>4, Zenon DEF Unmap, Goto, Inv, TypeOK
    <2>2. Accounted(t)'
      BY <1>1, <1>2, <2>1, Zenon DEF Holder, Accounted, Held
    <2>3. Progress(t)' /\ Buffers(t)' /\ Achieved(t)'
      BY <1>3, <1>4, <2>1, Zenon DEF Progress, Buffers, Achieved, Forward
    <2>4. Kernel'
      BY <1>1, <2>1, Zenon DEF Kernel
    <2>5. QED
      BY <1>1, <1>2, <2>1, <2>2, <2>3, <2>4, HolderMoves, Zenon DEF Holder, ReadIsOwn, Backward
  <1>5. CASE run[t].maps # <<>>
    <2> DEFINE r == [run[t] EXCEPT !.maps = Tail(run[t].maps)]
    <2>1. /\ Tail(run[t].maps) \in Seq(Nat)
          /\ Range(run[t].maps) = {Head(run[t].maps)} \cup Range(Tail(run[t].maps))
          /\ Distinct(Tail(run[t].maps)) /\ Head(run[t].maps) \notin Range(Tail(run[t].maps))
      BY <1>2, <1>3, <1>5, Removed, Zenon DEF Holder, Accounted
    <2>2. /\ r \in Locals /\ r.handles = run[t].handles /\ r.maps = Tail(run[t].maps)
          /\ r.command = run[t].command /\ r.job = run[t].job /\ r.written = run[t].written
          /\ r.read = run[t].read
      BY <1>2, <2>1, Zenon DEF Locals
    <2>3. /\ pc' = [pc EXCEPT ![t] = "unmap"] /\ run' = [run EXCEPT ![t] = r]
          /\ pc'[t] = "unmap" /\ run'[t] = r /\ mapped' = mapped \ {Head(run[t].maps)}
      BY <1>1, <1>5, Zenon DEF Unmap, Inv, TypeOK
    <2> HIDE DEF r
    <2>4. mapped' = Range(r.maps)
      BY <1>2, <2>1, <2>2, <2>3, Zenon DEF Holder, Accounted
    <2>5. Accounted(t)'
      BY <1>1, <1>2, <2>1, <2>2, <2>3, <2>4, Zenon DEF Holder, Accounted, Held
    <2>6. Progress(t)' /\ Buffers(t)' /\ Achieved(t)'
      BY <1>3, <2>2, <2>3, Zenon DEF Progress, Buffers, Achieved, Forward
    <2>7. Kernel'
      BY <1>1, <2>3, Zenon DEF Kernel
    <2>8. QED
      BY <1>1, <1>2, <2>2, <2>3, <2>5, <2>6, <2>7, HolderMoves, Zenon DEF Holder, ReadIsOwn,
         Backward
  <1>6. QED
    BY <1>4, <1>5, Zenon

(* The handles go, first opened first, and then the mutex.                 *)
LEMMA CloseHandleKeeps == ASSUME Inv, NEW t \in Threads, CloseHandle(t) PROVE Inv'
  <1>1. /\ pc[t] = "close" /\ pc[t] # "idle" /\ Kernel
        /\ UNCHANGED <<bundle, objects, mapped, jobs>>
    BY Zenon DEF CloseHandle, Inv
  <1>2. /\ mutex = t /\ Holder(t) /\ run[t] \in Locals /\ ReadIsOwn(t)
        /\ bundle # NoBundle /\ load_bundle(bundle) /\ \A u \in Threads \ {t} : pc[u] = "idle"
    BY <1>1, HolderIsAlone, Zenon DEF Inv
  <1>3. run[t].handles \in Seq(Nat) /\ run[t].command = 0 /\ run[t].maps = <<>>
    BY <1>1, <1>2, Zenon DEF Locals, Holder, Progress
  <1>4. CASE run[t].handles = <<>>
    <2>1. mutex' = NoThread /\ pc' = [pc EXCEPT ![t] = "idle"] /\ UNCHANGED <<gem, run>>
      BY <1>4, Zenon DEF CloseHandle, all_closed, Goto
    <2>2. \A u \in Threads : pc'[u] = "idle" /\ u # NoThread
      BY <1>2, <2>1, ExecutorAssumption, Zenon DEF Inv, TypeOK
    <2>3. TypeOK'
      BY <1>1, <2>1, Zenon DEF Inv, TypeOK
    <2>4. DOMAIN gem = {} /\ mapped = {}
      BY <1>2, <1>3, <1>4 DEF Holder, Accounted, Held, Range
    <2>5. \A u \in Threads : run[u].handles = <<>> /\ run[u].maps = <<>> /\ run[u].command = 0
      BY <1>2, <1>3, <1>4, Zenon DEF Inv, Exclusive
    <2>6. Exclusive'
      BY <1>1, <2>1, <2>2, <2>4, <2>5, Zenon DEF Exclusive
    <2>7. Kernel' /\ Loaded'
      BY <1>1, <1>2, <2>1, Zenon DEF Kernel, Loaded, load_bundle, range_fits
    <2>8. \A u \in Threads : ReadIsOwn(u)' /\ mutex' # u
      BY <2>1, <2>2, Zenon DEF Inv, ReadIsOwn
    <2>9. QED
      BY <2>3, <2>6, <2>7, <2>8, Zenon DEF Inv
  <1>5. CASE run[t].handles # <<>>
    <2> DEFINE h == Head(run[t].handles)
               r == [run[t] EXCEPT !.handles = Tail(run[t].handles)]
    <2>1. /\ Tail(run[t].handles) \in Seq(Nat) /\ Range(run[t].handles) = {h} \cup Range(Tail(run[t].handles))
          /\ Distinct(Tail(run[t].handles)) /\ h \notin Range(Tail(run[t].handles))
      BY <1>2, <1>3, <1>5, Removed, Zenon DEF Holder, Accounted
    <2>2. /\ r \in Locals /\ r.handles = Tail(run[t].handles) /\ r.maps = run[t].maps
          /\ r.command = run[t].command /\ r.job = run[t].job /\ r.written = run[t].written
          /\ r.read = run[t].read
      BY <1>2, <2>1, Zenon DEF Locals
    <2>3. /\ pc' = [pc EXCEPT ![t] = "close"] /\ run' = [run EXCEPT ![t] = r]
          /\ pc'[t] = "close" /\ run'[t] = r /\ gem' = Closed(h) /\ UNCHANGED mutex
      BY <1>1, <1>5, Zenon DEF CloseHandle, all_closed, Inv, TypeOK
    <2>4. Kernel' /\ DOMAIN gem' = DOMAIN gem \ {h}
      BY <1>1, <2>3, HandleClosed, Zenon DEF Kernel
    <2> HIDE DEF r, h
    <2>5. Accounted(t)'
      <3>1. DOMAIN gem' = Range(r.handles)
        BY <1>2, <1>3, <2>1, <2>2, <2>4, Zenon DEF Holder, Accounted, Held
      <3>2. 0 \notin Range(r.handles)
        BY <1>2, <1>3, <2>1, <2>2, Zenon DEF Holder, Accounted
      <3>3. QED
        BY <1>1, <1>2, <1>3, <2>1, <2>2, <2>3, <3>1, <3>2, Zenon DEF Holder, Accounted, Held
    <2>6. Progress(t)' /\ Buffers(t)' /\ Achieved(t)'
      BY <1>3, <2>2, <2>3, Zenon DEF Progress, Buffers, Achieved, Forward
    <2>7. QED
      BY <1>1, <1>2, <2>2, <2>3, <2>4, <2>5, <2>6, HolderMoves, Zenon DEF Holder, ReadIsOwn,
         Backward
  <1>6. QED
    BY <1>4, <1>5, Zenon

(* run() is called: the mutex is free, so nothing is open or mapped.       *)
LEMMA CallKeeps == ASSUME Inv, NEW t \in Threads, Call(t) PROVE Inv'
  <1>1. /\ pc[t] = "idle" /\ bundle # NoBundle /\ mutex = NoThread /\ mutex' = t
        /\ run' = [run EXCEPT ![t] = NoRun] /\ UNCHANGED <<bundle, kernel>>
        /\ UNCHANGED <<gem, objects, mapped, jobs>>
    BY Zenon DEF Call, kernel
  <1>2. PICK l \in {"create", "close_command"} : pc' = [pc EXCEPT ![t] = l]
    BY Zenon DEF Call, Unwind, Goto
  <1>3. /\ \A u \in Threads : u # NoThread /\ pc[u] = "idle"
        /\ DOMAIN gem = {} /\ mapped = {}
    BY <1>1, ExecutorAssumption, Zenon DEF Inv, Exclusive
  <1>4. /\ NoRun \in Locals /\ NoRun.handles = <<>> /\ NoRun.maps = <<>> /\ NoRun.command = 0
        /\ NoRun.read = 0
    BY DEF NoRun, Locals
  <1>5. /\ pc'[t] = l /\ run'[t] = NoRun
        /\ \A u \in Threads \ {t} : pc'[u] = pc[u] /\ run'[u] = run[u]
    BY <1>1, <1>2, Zenon DEF Inv, TypeOK
  <1>6. TypeOK'
    BY <1>1, <1>2, <1>4, Zenon DEF Inv, TypeOK, Forward, Backward
  <1>7. Kernel' /\ Loaded'
    BY <1>1, Zenon DEF Inv, Kernel, Loaded, load_bundle, range_fits
  <1>8. Exclusive'
    BY <1>1, <1>2, <1>3, <1>5 DEF Inv, Exclusive
  <1>9. \A u \in Threads : ReadIsOwn(u)'
    BY <1>4, <1>5, Zenon DEF Inv, ReadIsOwn
  <1>10. Accounted(t)'
    BY <1>1, <1>3, <1>4, <1>5 DEF Accounted, Held, Range, Distinct
  <1>11. Progress(t)'
    <2>1. Len(bundle.regions) \in 1..kMaxRegions /\ load_bundle(bundle)
      BY <1>1, RegionsExist, Zenon DEF Inv, Loaded
    <2>2. 0 < Len(bundle.regions) /\ Len(NoRun.handles) = 0 /\ Len(NoRun.maps) = 0
      BY <1>4, <2>1, ExecutorAssumption
    <2>3. QED
      BY <1>1, <1>2, <1>4, <1>5, <2>2, Zenon DEF Progress, Forward
  <1>12. Buffers(t)' /\ Achieved(t)'
    BY <1>1, <1>2, <1>3, <1>4, <1>5 DEF Buffers, Achieved
  <1>13. QED
    BY <1>1, <1>6, <1>7, <1>8, <1>9, <1>10, <1>11, <1>12, Zenon DEF Inv, Holder

(* The device finishes a job, whoever waits for it.                        *)
LEMMA JobDoneKeeps == ASSUME Inv, JobDone PROVE Inv'
  <1>1. PICK n \in DOMAIN jobs : jobs' = [jobs EXCEPT ![n].done = TRUE]
    BY Zenon DEF JobDone
  <1>2. UNCHANGED <<bundle, mutex, gem, objects, mapped, pc, run>>
    BY Zenon DEF JobDone
  <1>3. jobs \in Seq(Job) /\ jobs[n] \in Job
    BY <1>1 DEF Inv, Kernel
  <1>4. [jobs[n] EXCEPT !.done = TRUE] \in Job /\ [jobs[n] EXCEPT !.done = TRUE].objects = jobs[n].objects
        /\ [jobs[n] EXCEPT !.done = TRUE].done
    BY <1>3, Zenon DEF Job
  <1>5. /\ jobs' \in Seq(Job) /\ DOMAIN jobs' = DOMAIN jobs
        /\ \A j \in DOMAIN jobs : /\ jobs'[j].objects = jobs[j].objects
                                  /\ jobs[j].done => jobs'[j].done
    <2>1. jobs' = [jobs EXCEPT ![n] = [jobs[n] EXCEPT !.done = TRUE]]
      BY <1>1, Zenon
    <2>2. QED
      BY <1>3, <1>4, <2>1
  <1>6. TypeOK' /\ Exclusive' /\ \A t \in Threads : ReadIsOwn(t)'
    BY <1>2, Zenon DEF Inv, TypeOK, Exclusive, ReadIsOwn
  <1>7. Kernel'
    BY <1>2, <1>5, Zenon DEF Inv, Kernel
  <1>8. Loaded'
    <2>1. bundle # NoBundle
      BY <1>1 DEF Inv, Loaded
    <2>2. QED
      BY <1>2, <2>1, Zenon DEF Inv, Loaded, load_bundle, range_fits
  <1>9. ASSUME NEW t \in Threads, mutex = t PROVE Holder(t)'
    <2>1. Holder(t)
      BY <1>9, Zenon DEF Inv
    <2>2. Accounted(t)' /\ Progress(t)'
      BY <1>2, <2>1, Zenon DEF Holder, Accounted, Held, Progress
    <2>3. Buffers(t)'
      BY <1>2, <1>5, <2>1, Zenon DEF Holder, Buffers
    <2>4. Achieved(t)'
      BY <1>2, <1>5, <2>1, Zenon DEF Holder, Achieved
    <2>5. QED
      BY <2>2, <2>3, <2>4, Zenon DEF Holder
  <1>10. QED
    BY <1>2, <1>6, <1>7, <1>8, <1>9, Zenon DEF Inv

(* The executor is built: nothing has run yet.                             *)
LEMMA ConstructKeeps == ASSUME Inv, Construct PROVE Inv'
  <1>1. bundle = NoBundle /\ UNCHANGED <<mutex, gem, objects, mapped, jobs, pc, run>>
    BY Zenon DEF Construct, kernel
  <1>2. PICK f \in Files : load_bundle(f) /\ bundle' = f
    BY Zenon DEF Construct
  <1>3. jobs = <<>> /\ \A t \in Threads : pc[t] = "idle" /\ mutex # t
    BY <1>1, Zenon DEF Inv, Loaded, Exclusive
  <1>4. TypeOK' /\ Exclusive' /\ \A t \in Threads : ReadIsOwn(t)'
    BY <1>1, <1>2, Zenon DEF Inv, TypeOK, Exclusive, ReadIsOwn
  <1>5. Kernel'
    BY <1>1, <1>3 DEF Inv, Kernel
  <1>6. load_bundle(bundle)'
    BY <1>2, Zenon DEF load_bundle, range_fits
  <1>7. Loaded'
    BY <1>1, <1>3, <1>6, Zenon DEF Loaded
  <1>8. QED
    BY <1>1, <1>3, <1>4, <1>5, <1>7, Zenon DEF Inv
-----------------------------------------------------------------------------
(* Nothing is open before the first run().                                 *)
LEMMA InitInv == Init => Inv
  <1>1. SUFFICES ASSUME Init PROVE Inv
    OBVIOUS
  <1>2. NoRun \in Locals /\ NoRun.handles = <<>> /\ NoRun.maps = <<>> /\ NoRun.command = 0
        /\ NoRun.read = 0
    BY DEF NoRun, Locals
  <1>3. TypeOK
    BY <1>1, <1>2, Zenon DEF Init, TypeOK
  <1>4. Kernel
    <2>1. DOMAIN gem = {} /\ gem = [x \in {} |-> 0]
      BY <1>1 DEF Init
    <2>2. IsFiniteSet({})
      BY FS_EmptySet, Zenon
    <2>3. QED
      BY <1>1, <2>1, <2>2 DEF Init, Kernel
  <1>5. Loaded /\ Exclusive
    BY <1>1, <1>2, ExecutorAssumption DEF Init, Loaded, Exclusive
  <1>6. \A t \in Threads : mutex # t /\ ReadIsOwn(t)
    BY <1>1, <1>2, ExecutorAssumption, Zenon DEF Init, ReadIsOwn
  <1>7. QED
    BY <1>3, <1>4, <1>5, <1>6, Zenon DEF Inv

(* Every step of every thread and of the device keeps the invariant.       *)
LEMMA StepInv == Inv /\ [Next]_vars => Inv'
  <1>1. SUFFICES ASSUME Inv, [Next]_vars PROVE Inv'
    OBVIOUS
  <1>2. CASE UNCHANGED vars
    <2>1. TypeOK' /\ Kernel' /\ Exclusive'
      BY <1>1, <1>2, Zenon DEF vars, kernel, Inv, TypeOK, Kernel, Exclusive
    <2>2. Loaded'
      BY <1>1, <1>2, Zenon DEF vars, kernel, Inv, Loaded, load_bundle, range_fits
    <2>3. ASSUME NEW t \in Threads PROVE (mutex' = t => Holder(t)') /\ ReadIsOwn(t)'
      <3>1. UNCHANGED <<bundle, mutex, gem, mapped, jobs, pc, run>>
        BY <1>2, Zenon DEF vars, kernel
      <3>2. ReadIsOwn(t)' /\ (mutex' = t => mutex = t /\ Holder(t))
        BY <1>1, <3>1, Zenon DEF Inv, ReadIsOwn
      <3>3. Accounted(t) /\ Progress(t) => Accounted(t)' /\ Progress(t)'
        BY <3>1, Zenon DEF Accounted, Held, Progress
      <3>4. Buffers(t) /\ Achieved(t) => Buffers(t)' /\ Achieved(t)'
        BY <3>1, Zenon DEF Buffers, Achieved
      <3>5. QED
        BY <3>2, <3>3, <3>4, Zenon DEF Holder
    <2>4. QED
      BY <2>1, <2>2, <2>3, Zenon DEF Inv
  <1>3. CASE Construct
    BY <1>1, <1>3, ConstructKeeps, Zenon
  <1>4. CASE JobDone
    BY <1>1, <1>4, JobDoneKeeps, Zenon
  <1>5. ASSUME NEW t \in Threads, Call(t) PROVE Inv'
    BY <1>1, <1>5, CallKeeps, Zenon
  <1>6. ASSUME NEW t \in Threads, Step(t) PROVE Inv'
    <2>1. CASE CreateBuffer(t) \/ MapBuffer(t) \/ WriteInput(t) \/ CreateCommand(t) \/ Submit(t)
      BY <1>1, <2>1, CreateBufferKeeps, MapBufferKeeps, WriteInputKeeps, CreateCommandKeeps,
         SubmitKeeps, Zenon
    <2>2. CASE Wait(t) \/ ReadOutput(t)
      BY <1>1, <2>2, WaitKeeps, ReadOutputKeeps, Zenon
    <2>3. CASE CloseCommand(t) \/ Unmap(t) \/ CloseHandle(t)
      BY <1>1, <2>3, CloseCommandKeeps, UnmapKeeps, CloseHandleKeeps, Zenon
    <2>4. QED
      BY <1>6, <2>1, <2>2, <2>3, Zenon DEF Step
  <1>7. QED
    BY <1>1, <1>2, <1>3, <1>4, <1>5, <1>6, Zenon DEF Next

(* The inductive invariant of the executor.                                *)
LEMMA Invariant == Spec => []Inv
  BY InitInv, StepInv, PTL DEF Spec

(* Every handle and every mapping belongs to the run() that holds the      *)
(* mutex, at every step and on every error path, however many regions the  *)
(* bundle has and whichever ioctl fails.                                   *)
THEOREM EveryBufferAccounted == Spec => []BuffersAccounted
  <1>1. Inv => BuffersAccounted
    <2>1. SUFFICES ASSUME Inv PROVE BuffersAccounted
      OBVIOUS
    <2>2. ASSUME NEW t \in Threads, mutex # t
          PROVE  Held(t) = {} /\ run[t].maps = <<>> /\ Range(run[t].maps) = {}
                 /\ run[t].handles = <<>> /\ run[t].command = 0 /\ Range(run[t].handles) = {}
      <3>1. run[t].handles = <<>> /\ run[t].maps = <<>> /\ run[t].command = 0
        BY <2>1, <2>2, Zenon DEF Inv, Exclusive
      <3>2. Range(<<>>) = {}
        BY DEF Range
      <3>3. QED
        BY <3>1, <3>2, Zenon DEF Held
    <2>3. ASSUME NEW t \in Threads
          PROVE  /\ mutex # t => Held(t) = {} /\ run[t].maps = <<>>
                 /\ Distinct(run[t].handles)
                 /\ run[t].command \notin Range(run[t].handles)
      <3>1. CASE mutex # t
        <4>1. Distinct(<<>>)
          BY DEF Distinct
        <4>2. QED
          BY <2>2, <3>1, <4>1, Zenon
      <3>2. CASE mutex = t
        BY <2>1, <3>2, Zenon DEF Inv, Holder, Accounted
      <3>3. QED
        BY <3>1, <3>2, Zenon
    <2>4. /\ DOMAIN gem = UNION {Held(t) : t \in Threads}
          /\ mapped = UNION {Range(run[t].maps) : t \in Threads}
      <3>1. CASE mutex = NoThread
        BY <2>1, <2>2, <3>1, ExecutorAssumption, Zenon DEF Inv, Exclusive
      <3>2. CASE mutex \in Threads
        <4>1. DOMAIN gem = Held(mutex) /\ mapped = Range(run[mutex].maps)
          BY <2>1, <3>2, Zenon DEF Inv, Holder, Accounted
        <4>2. QED
          BY <2>2, <3>2, <4>1
      <3>3. QED
        BY <2>1, <3>1, <3>2, Zenon DEF Inv, TypeOK
    <2>5. QED
      BY <2>3, <2>4, Zenon DEF BuffersAccounted, Held, Distinct
  <1>2. QED
    BY Invariant, <1>1, PTL

(* What a run() returns as its output was written by its own job, which    *)
(* has finished, from its own input: the object it waits for is in no job  *)
(* that outlived an earlier run(), though its handle's number may be one   *)
(* an earlier run() had.                                                   *)
THEOREM EveryOutputIsOwn == Spec => []OutputIsOwn
  <1>1. Inv => OutputIsOwn
    <2>1. SUFFICES ASSUME Inv, NEW t \in Threads
                   PROVE  /\ pc[t] = "output" => run[t].job # 0 /\ jobs[run[t].job].done
                          /\ pc[t] = "output" => run[t].maps = jobs[run[t].job].objects
                          /\ run[t].read # 0 => run[t].read = run[t].job /\ run[t].written
      BY Zenon DEF OutputIsOwn
    <2>2. ReadIsOwn(t) /\ (pc[t] = "output" => Achieved(t)) /\ jobs \in Seq(Job)
      BY <2>1, Zenon DEF Inv, Exclusive, Holder, Kernel
    <2>3. QED
      BY <2>2 DEF ReadIsOwn, Achieved
  <1>2. QED
    BY Invariant, <1>1, PTL

(* Whatever bundle was loaded, run() writes its input and reads its output *)
(* inside a region it has mapped, and hands the kernel at most kMaxRegions *)
(* handles.                                                                *)
THEOREM EveryTensorInside == Spec => []TensorsInside
  <1>1. Inv => TensorsInside
    <2>1. SUFFICES ASSUME Inv, NEW t \in Threads,
                          pc[t] \in {"input", "command", "submit", "wait", "output"}
                   PROVE  /\ Len(run[t].maps) = Len(bundle.regions) /\ Len(run[t].handles) <= kMaxRegions
                          /\ bundle.input_region + 1 \in DOMAIN run[t].maps
                          /\ bundle.input_offset + bundle.input_elements
                               <= bundle.regions[bundle.input_region + 1]
                          /\ bundle.output_region + 1 \in DOMAIN run[t].maps
                          /\ bundle.output_offset + bundle.output_elements
                               <= bundle.regions[bundle.output_region + 1]
      BY Zenon DEF TensorsInside
    <2>2. mutex = t /\ Holder(t) /\ run[t] \in Locals /\ bundle # NoBundle
      BY <2>1, Zenon DEF Inv, Exclusive, TypeOK, Loaded
    <2>3. /\ Len(run[t].handles) = Len(bundle.regions) /\ Len(run[t].maps) = Len(bundle.regions)
          /\ run[t].maps \in Seq(Nat)
      BY <2>1, <2>2, Zenon DEF Holder, Progress, Forward, Locals
    <2>4. /\ load_bundle(bundle)
          /\ Len(bundle.regions) \in 1..kMaxRegions
          /\ bundle.input_region + 1 \in 1..Len(bundle.regions)
          /\ bundle.output_region + 1 \in 1..Len(bundle.regions)
      BY <2>1, <2>2, RegionsExist, Zenon DEF Inv, Loaded
    <2>5. /\ bundle.input_offset + bundle.input_elements <= bundle.regions[bundle.input_region + 1]
          /\ bundle.output_offset + bundle.output_elements
               <= bundle.regions[bundle.output_region + 1]
      BY <2>4, Zenon DEF load_bundle, range_fits
    <2>6. DOMAIN run[t].maps = 1..Len(run[t].maps)
      BY <2>3
    <2>7. Len(run[t].handles) <= kMaxRegions
      BY <2>3, <2>4, ExecutorAssumption
    <2>8. QED
      BY <2>3, <2>4, <2>5, <2>6, <2>7, Zenon
  <1>2. QED
    BY Invariant, <1>1, PTL
=============================================================================
