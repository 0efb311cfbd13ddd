------------------------------ MODULE Shipping ------------------------------
(***************************************************************************)
(* The driver and the parallel back end (main.c, threading.c, shipping.c,  *)
(* mempool.c).  The main thread compiles the inputs into a work list and   *)
(* starts worker threads.  Each worker claims modules under work_lock,     *)
(* optimises them, writes assembly to a temporary file, runs the system    *)
(* compiler on it and records the object file at the module's index.  The  *)
(* main thread joins the workers, links, and unlinks every name that was   *)
(* put into unlink_pool.                                                   *)
(*                                                                         *)
(* Each critical section is two steps, the read under the lock and the     *)
(* write before the unlock, so that a missing lock shows as a lost update. *)
(***************************************************************************)
EXTENDS Integers, Sequences, FiniteSets

CONSTANTS
    Threads,    \* the worker threads, enough for one per module
    None,       \* no thread, no name
    NInputs,    \* source files and --code strings on the command line
    NGiven,     \* object files on the command line
    ThreadCts,  \* possible values of --threads (0: the default)
    Modes,      \* "link", "-c", "-S": the output the command line asks for
    Failures    \* TRUE: fork and the system compiler may fail

ASSUME ShippingAssumption ==
    /\ IsFiniteSet(Threads) /\ Cardinality(Threads) > NInputs
    /\ None \notin Threads \cup Nat
    /\ NInputs \in Nat /\ NGiven \in Nat
    /\ ThreadCts \subseteq Nat
    /\ Modes \subseteq {"link", "-c", "-S"}
    /\ Failures \in BOOLEAN

\* The number of threads thr_pthread_sys_count chooses.
DefaultThreads == 4

(* A file name.  Temporary names carry the number thr_request_number gave   *)
(* and the base name of the input, which two inputs may share: only the     *)
(* number tells them apart.  Output names (-c, -S) are those of the input.  *)
Temp(kind, n) == [k |-> kind, n |-> n]
Out(u)   == [k |-> "out", n |-> u]
Given(i) == [k |-> "given", n |-> i]
TempKinds == {"s", "o"}
Names == [k : TempKinds \cup {"out", "given"}, n : Nat]

VARIABLES
    mode,      \* the switches, as one of Modes
    threadct,  \* crate->threadct
    main,      \* where the main thread is
    work,      \* crate->work: the modules, by number
    widex,     \* crate->widex
    started,   \* threads that th_split has started
    pc,        \* where each worker is
    rd,        \* what a worker read inside its critical section
    idx,       \* the work index a worker has claimed
    kind,      \* the temporary name a worker is making: "s" or "o"
    asm,       \* the worker's assembly name
    obj,       \* the pointer to the name the worker made last
    counter,   \* thr_request_number's static counter
    lock,      \* owner of number_lock, name_lock and work_lock
    mem,       \* the heap blocks that hold names
    freed,     \* blocks that have been freed
    pool,      \* unlink_pool: the pointers in it
    outputs,   \* outputfiles[]: pointers, Uninit while uninitialised
    objects,   \* crate->object_files, as names
    files,     \* the file system: existing names, and the module they hold
    linked     \* what the linker was given

Uninit == 0

\* The name a pointer points to.
Deref(p) == IF p \in 1..Len(mem) THEN mem[p] ELSE None

mainVars   == <<mode, threadct, main, work, started, objects, linked>>
workerVars == <<pc, rd, idx, kind, asm, obj>>
vars == <<mode, threadct, main, work, widex, started, pc, rd, idx, kind, asm, obj,
          counter, lock, mem, freed, pool, outputs, objects, files, linked>>

Locks == {"number", "name", "work"}

Init ==
    /\ mode \in Modes /\ threadct \in ThreadCts
    /\ main = "compile" /\ work = <<>> /\ widex = 0 /\ started = {}
    /\ pc = [t \in Threads |-> "idle"]
    /\ rd = [t \in Threads |-> 0]
    /\ idx = [t \in Threads |-> 0]
    /\ kind = [t \in Threads |-> "s"]
    /\ asm = [t \in Threads |-> None]
    /\ obj = [t \in Threads |-> None]
    /\ counter = 0 /\ lock = [l \in Locks |-> None]
    /\ mem = <<>> /\ freed = {} /\ pool = <<>>
    /\ outputs = <<>>
    /\ objects = [i \in 1..NGiven |-> Given(i)]
    /\ files = [f \in {Given(i) : i \in 1..NGiven} |-> 0]
    /\ linked = <<>>

-----------------------------------------------------------------------------
(* The main thread, up to the start of the workers.                         *)

\* compile_file and compile_string: one module per input.  An error in the
\* source ends the process through die().
Compile ==
    /\ main = "compile" /\ Len(work) < NInputs
    /\ \/ work' = Append(work, Len(work) + 1) /\ UNCHANGED main
       \/ Failures /\ main' = "died" /\ UNCHANGED work
    /\ UNCHANGED <<mode, threadct, widex, started, objects, linked, workerVars,
                   counter, lock, mem, freed, pool, outputs, files>>

\* compile_rc, unless -c or -S, and the start of thr_produce_machine_code.
CompileRuntime ==
    /\ main = "compile" /\ Len(work) = NInputs
    /\ work' = IF mode = "link" THEN Append(work, Len(work) + 1) ELSE work
    /\ outputs' = [i \in 1..Len(work') |-> Uninit]
    /\ main' = "spawn"
    /\ widex' = 0
    /\ UNCHANGED <<mode, threadct, started, objects, linked, workerVars,
                   counter, lock, mem, freed, pool, files>>

\* thrct in thr_produce_machine_code.
ThreadCount ==
    LET want == IF threadct = 0 THEN DefaultThreads ELSE threadct
    IN  IF want > Len(work) THEN Len(work) ELSE want

\* th_split: start one more worker, the next of the array threads.
Spawn(t) ==
    /\ main = "spawn" /\ started # Threads /\ t = CHOOSE u \in Threads \ started : TRUE
    /\ Cardinality(started) < ThreadCount
    /\ started' = started \cup {t}
    /\ pc' = [pc EXCEPT ![t] = "get"]
    /\ UNCHANGED <<mode, threadct, main, work, widex, objects, linked, rd, idx, kind,
                   asm, obj, counter, lock, mem, freed, pool, outputs, files>>

-----------------------------------------------------------------------------
(* A worker.                                                                *)

At(t, p) == main # "died" /\ pc[t] = p

Goto(t, p) == pc' = [pc EXCEPT ![t] = p]

\* Mutant: the mutex is not taken.
EnterUnlocked(t, l, v) ==
    /\ UNCHANGED lock
    /\ rd' = [rd EXCEPT ![t] = v]

\* th_lock(l), then the read of the shared value v.
Enter(t, l, v) ==
    /\ lock[l] = None
    /\ lock' = [lock EXCEPT ![l] = t]
    /\ rd' = [rd EXCEPT ![t] = v]

\* Mutant: the unlock is missing.
LeaveLocked(l) == UNCHANGED lock

\* th_unlock(l).
Leave(l) == lock' = [lock EXCEPT ![l] = None]

\* thr_get_next_work: lock and compare widex with the count.
GetWork(t) ==
    /\ At(t, "get") /\ Enter(t, "work", widex)
    /\ Goto(t, "got")
    /\ UNCHANGED <<mainVars, widex, idx, kind, asm, obj, counter, mem, freed, pool,
                   outputs, files>>

\* Mutant: the comparison with the count is off by one.
GotWorkPastEnd(t) ==
    /\ At(t, "got") /\ Leave("work")
    /\ \/ /\ rd[t] <= Len(work)
          /\ idx' = [idx EXCEPT ![t] = rd[t] + 1]
          /\ widex' = rd[t] + 1
          /\ Goto(t, "optimize")
       \/ /\ rd[t] > Len(work)
          /\ Goto(t, "exit")
          /\ UNCHANGED <<idx, widex>>
    /\ UNCHANGED <<mainVars, rd, kind, asm, obj, counter, mem, freed, pool, outputs,
                   files>>

\* Claim the module, or return NULL.  The C index is idx - 1.
GotWork(t) ==
    /\ At(t, "got") /\ Leave("work")
    /\ \/ /\ rd[t] < Len(work)
          /\ idx' = [idx EXCEPT ![t] = rd[t] + 1]
          /\ widex' = rd[t] + 1
          /\ Goto(t, "optimize")
       \/ /\ rd[t] >= Len(work)
          /\ Goto(t, "exit")
          /\ UNCHANGED <<idx, widex>>
    /\ UNCHANGED <<mainVars, rd, kind, asm, obj, counter, mem, freed, pool, outputs,
                   files>>

\* shp_optimize, and with -S all of shp_produce_assembly: the output goes next
\* to the input and shp_produce_binary returns at once.
Optimize(t) ==
    /\ At(t, "optimize")
    /\ \/ /\ mode = "-S"
          /\ files' = [f \in DOMAIN files \cup {Out(idx[t])} |->
                          IF f = Out(idx[t]) THEN idx[t] ELSE files[f]]
          /\ obj' = [obj EXCEPT ![t] = None]
          /\ Goto(t, "store")
       \/ /\ mode # "-S"
          /\ Goto(t, "number")
          /\ UNCHANGED <<files, obj>>
    /\ kind' = [kind EXCEPT ![t] = "s"]
    /\ UNCHANGED <<mainVars, widex, rd, idx, asm, counter, lock, mem, freed, pool, outputs>>

\* thr_request_number: lock and read the counter.
RequestNumber(t) ==
    /\ At(t, "number") /\ Enter(t, "number", counter)
    /\ Goto(t, "numbered")
    /\ UNCHANGED <<mainVars, widex, idx, kind, asm, obj, counter, mem, freed, pool,
                   outputs, files>>

\* malloc returns a fresh block or one that was freed; the name n is written.
Alloc(b, n) ==
    /\ b \in freed \cup {Len(mem) + 1}
    /\ mem' = IF b > Len(mem) THEN Append(mem, n) ELSE [mem EXCEPT ![b] = n]
    /\ freed' = freed \ {b}

\* Mutant: the counter is not stepped.
NumberedStuck(t) ==
    /\ At(t, "numbered") /\ Leave("number")
    /\ \E b \in 1..(Len(mem) + 1) :
          /\ Alloc(b, Temp(kind[t], rd[t]))
          /\ obj' = [obj EXCEPT ![t] = b]
    /\ Goto(t, "pool")
    /\ UNCHANGED <<mainVars, widex, counter, rd, idx, kind, asm, pool, outputs, files>>

\* The counter is stepped, and the name is formatted into a new block.
Numbered(t) ==
    /\ At(t, "numbered") /\ Leave("number")
    /\ counter' = rd[t] + 1
    /\ \E b \in 1..(Len(mem) + 1) :
          /\ Alloc(b, Temp(kind[t], rd[t]))
          /\ obj' = [obj EXCEPT ![t] = b]
    /\ Goto(t, "pool")
    /\ UNCHANGED <<mainVars, widex, rd, idx, kind, asm, pool, outputs, files>>

\* pool_add under name_lock: read the tail of the list.
PoolAdd(t) ==
    /\ At(t, "pool") /\ Enter(t, "name", Len(pool))
    /\ Goto(t, "pooled")
    /\ UNCHANGED <<mainVars, widex, idx, kind, asm, obj, counter, mem, freed, pool,
                   outputs, files>>

\* Mutant: the names of object files are not put into the pool.
PooledAssemblyOnly(t) ==
    /\ At(t, "pooled") /\ Leave("name")
    /\ pool' = IF kind[t] = "s" THEN Append(SubSeq(pool, 1, rd[t]), obj[t]) ELSE pool
    /\ Goto(t, IF kind[t] = "s" THEN "emit" ELSE "name")
    /\ UNCHANGED <<mainVars, widex, rd, idx, kind, asm, obj, counter, mem, freed,
                   outputs, files>>

\* The node is linked behind the tail that was read.
Pooled(t) ==
    /\ At(t, "pooled") /\ Leave("name")
    /\ pool' = Append(SubSeq(pool, 1, rd[t]), obj[t])
    /\ Goto(t, IF kind[t] = "s" THEN "emit" ELSE "name")
    /\ UNCHANGED <<mainVars, widex, rd, idx, kind, asm, obj, counter, mem, freed,
                   outputs, files>>

\* LLVMTargetMachineEmitToFile writes the assembly.
Emit(t) ==
    /\ At(t, "emit")
    /\ asm' = [asm EXCEPT ![t] = mem[obj[t]]]
    /\ files' = [f \in DOMAIN files \cup {asm'[t]} |->
                    IF f = asm'[t] THEN idx[t] ELSE files[f]]
    /\ kind' = [kind EXCEPT ![t] = "o"]
    /\ Goto(t, "number")
    /\ UNCHANGED <<mainVars, widex, rd, idx, obj, counter, lock, mem, freed, pool, outputs>>

\* With -c the temporary name is freed, although it stays in unlink_pool, and
\* the name of the output is put into a new block, which may be the same one.
ObjectName(t) ==
    /\ At(t, "name")
    /\ \/ /\ mode = "-c"
          /\ \E b \in freed \cup {obj[t], Len(mem) + 1} :
                /\ obj' = [obj EXCEPT ![t] = b]
                /\ mem' = IF b > Len(mem) THEN Append(mem, Out(idx[t]))
                          ELSE [mem EXCEPT ![b] = Out(idx[t])]
                /\ freed' = (freed \cup {obj[t]}) \ {b}
       \/ /\ mode # "-c"
          /\ UNCHANGED <<obj, mem, freed>>
    /\ Goto(t, "cc")
    /\ UNCHANGED <<mainVars, widex, rd, idx, kind, asm, counter, lock, pool, outputs, files>>

\* shp_spawn_process: the compiler turns the assembly into an object file, or
\* fails, which nobody looks at.  A failing fork ends the process.
SystemCC(t) ==
    /\ At(t, "cc")
    /\ \/ /\ files' = [f \in DOMAIN files \cup {mem[obj[t]]} |->
                          IF f = mem[obj[t]] THEN files[asm[t]] ELSE files[f]]
          /\ Goto(t, "store")
          /\ UNCHANGED main
       \/ /\ Failures
          /\ Goto(t, "store")
          /\ UNCHANGED <<main, files>>
       \/ /\ Failures
          /\ main' = "died"
          /\ UNCHANGED <<pc, files>>
    /\ UNCHANGED <<mode, threadct, work, started, objects, linked, widex, rd, idx, kind,
                   asm, obj, counter, lock, mem, freed, pool, outputs>>

\* Mutant: results are stored in the order in which they are finished.
StoreCompact(t) ==
    /\ At(t, "store")
    /\ \E i \in DOMAIN outputs :
          /\ outputs[i] = Uninit /\ \A j \in 1..(i - 1) : outputs[j] # Uninit
          /\ outputs' = [outputs EXCEPT ![i] = obj[t]]
    /\ Goto(t, "get")
    /\ UNCHANGED <<mainVars, widex, rd, idx, kind, asm, obj, counter, lock, mem, freed,
                   pool, files>>

\* outputfiles[idx] = object
Store(t) ==
    /\ At(t, "store")
    /\ outputs' = [outputs EXCEPT ![idx[t]] = obj[t]]
    /\ Goto(t, "get")
    /\ UNCHANGED <<mainVars, widex, rd, idx, kind, asm, obj, counter, lock, mem, freed,
                   pool, files>>

-----------------------------------------------------------------------------
(* The main thread, after the workers.                                      *)

\* th_join on every thread, then arr_append of the outputs.
Join ==
    /\ main = "spawn" /\ Cardinality(started) = ThreadCount
    /\ \A t \in started : pc[t] = "exit"
    /\ objects' = objects \o [i \in 1..Len(work) |-> Deref(outputs[i])]
    /\ main' = IF mode = "link" THEN "link" ELSE "teardown"
    /\ UNCHANGED <<mode, threadct, work, started, linked, workerVars, widex, counter,
                   lock, mem, freed, pool, outputs, files>>

\* shp_produce_executable: the linker reads the object files in order.
Link ==
    /\ main = "link"
    /\ linked' = [i \in 1..Len(objects) |->
                     IF objects[i] \in DOMAIN files THEN files[objects[i]] ELSE -1]
    /\ main' = "teardown"
    /\ UNCHANGED <<mode, threadct, work, started, objects, workerVars, widex, counter,
                   lock, mem, freed, pool, outputs, files>>

\* thr_teardown: pool_drain calls unlink on every pointer in the pool.
Teardown ==
    /\ main = "teardown"
    /\ files' = [f \in DOMAIN files \ {mem[pool[i]] : i \in 1..Len(pool)} |-> files[f]]
    /\ main' = "done"
    /\ UNCHANGED <<mode, threadct, work, started, objects, linked, workerVars, widex,
                   counter, lock, mem, freed, pool, outputs>>

\* The process has ended.
Ended == main \in {"done", "died"} /\ UNCHANGED vars

-----------------------------------------------------------------------------
Worker(t) ==
    \/ GetWork(t) \/ GotWork(t) \/ Optimize(t)
    \/ RequestNumber(t) \/ Numbered(t) \/ PoolAdd(t) \/ Pooled(t)
    \/ Emit(t) \/ ObjectName(t) \/ SystemCC(t) \/ Store(t)

Main ==
    Compile \/ CompileRuntime \/ (\E t \in Threads : Spawn(t)) \/ Join \/ Link \/ Teardown

Next == Main \/ (\E t \in Threads : Worker(t)) \/ Ended

Spec == Init /\ [][Next]_vars

\* The operating system schedules every thread.  Weak fairness is enough for
\* the mutexes: each worker enters them finitely often.
FairSpec == Spec /\ WF_vars(Main) /\ \A t \in Threads : WF_vars(Worker(t))

-----------------------------------------------------------------------------
(* Properties.                                                              *)

WorkerPCs == {"idle", "get", "got", "optimize", "number", "numbered", "pool", "pooled",
              "emit", "name", "cc", "store", "exit"}

TypeOK ==
    /\ mode \in Modes /\ threadct \in ThreadCts
    /\ main \in {"compile", "spawn", "link", "teardown", "done", "died"}
    /\ work \in Seq(Nat) /\ widex \in 0..Len(work)
    /\ started \subseteq Threads
    /\ pc \in [Threads -> WorkerPCs]
    /\ rd \in [Threads -> Nat] /\ idx \in [Threads -> Nat]
    /\ kind \in [Threads -> TempKinds]
    /\ asm \in [Threads -> Names \cup {None}]
    /\ obj \in [Threads -> Nat \cup {None}]
    /\ counter \in Nat /\ lock \in [Locks -> Threads \cup {None}]
    /\ mem \in Seq(Names) /\ freed \subseteq 1..Len(mem)
    /\ pool \in Seq(1..Len(mem))
    /\ outputs \in Seq(Nat \cup {None})
    /\ objects \in Seq(Names \cup {None})
    /\ DOMAIN files \subseteq Names
    /\ linked \in Seq(Int)

\* A worker that has claimed a module and not yet stored its result.
Busy(t) == pc[t] \notin {"idle", "get", "got", "exit"}

\* A module is claimed by one worker only, and never again after its result
\* was stored: no module is compiled twice, none is skipped.
ClaimedOnce ==
    \A t \in Threads : Busy(t) =>
        /\ idx[t] \in DOMAIN outputs /\ outputs[idx[t]] = Uninit
        /\ \A u \in Threads \ {t} : Busy(u) => idx[u] # idx[t]

\* When the system compiler is started, the assembly file it is given holds
\* the worker's own module: no other worker wrote to the same name.
OwnAssembly ==
    \A t \in Threads : pc[t] = "cc" =>
        asm[t] \in DOMAIN files /\ files[asm[t]] = idx[t]

\* After the build no temporary file is left behind.
TempsRemoved == main = "done" => \A f \in DOMAIN files : f.k \notin TempKinds

\* Only temporary files are ever unlinked: what -c or -S produced stays.
OnlyTempsUnlinked ==
    [][\A f \in DOMAIN files : f.k \notin TempKinds => f \in DOMAIN files']_vars

\* The compiler always ends, whatever the number of threads.
Ends == <>(main \in {"done", "died"})

\* The back end implements the sequential promise of Build.
B == INSTANCE Build WITH
        User <- 0, Missing <- -1,
        given <- NGiven, units <- Len(work),
        done <- {i \in DOMAIN outputs : outputs[i] # Uninit},
        image <- linked

Implements == B!BSpec
=============================================================================
