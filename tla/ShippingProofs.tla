--------------------------- MODULE ShippingProofs ---------------------------
(***************************************************************************)
(* Proofs about Shipping for any number of inputs, object files and        *)
(* threads: the types, the exclusion that the three mutexes give, the      *)
(* ownership of modules and temporary names, and that the back end         *)
(* implements Build.                                                       *)
(***************************************************************************)
EXTENDS Shipping, FiniteSetTheorems, SequenceTheorems, TLAPS

(* The inductive invariant.                                                 *)

\* A mutex is held from the read to the write of its critical section, and
\* what was read is still the value.
LockInv ==
    \A t \in Threads :
        /\ lock["work"] = t <=> pc[t] = "got"
        /\ lock["number"] = t <=> pc[t] = "numbered"
        /\ lock["name"] = t <=> pc[t] = "pooled"
        /\ pc[t] = "got" => rd[t] = widex
        /\ pc[t] = "numbered" => rd[t] = counter
        /\ pc[t] = "pooled" => rd[t] = Len(pool)

\* The workers live between the compilation and the join.
PhaseInv ==
    /\ main = "compile" => started = {} /\ outputs = <<>>
    /\ main \notin {"compile", "died"} \/ started # {} => Len(outputs) = Len(work)
    /\ \A t \in Threads : t \in started <=> pc[t] # "idle"
    /\ main \in {"link", "teardown", "done"} => \A t \in started : pc[t] = "exit"
    /\ main \in {"compile", "spawn", "link"} => linked = <<>>
    /\ main = "link" => mode = "link"

\* The modules up to widex are stored or belong to one busy worker.
ClaimInv ==
    /\ \A t \in Threads : Busy(t) => idx[t] \in 1..widex /\ outputs[idx[t]] = Uninit
    /\ \A t, u \in Threads : Busy(t) /\ Busy(u) /\ t # u => idx[t] # idx[u]
    /\ \A i \in 1..Len(outputs) : i > widex => outputs[i] = Uninit
    /\ \A i \in 1..widex : outputs[i] # Uninit \/ \E t \in Threads : Busy(t) /\ idx[t] = i
    /\ \A t \in Threads : pc[t] = "exit" => widex = Len(work)
    /\ main \in {"link", "teardown", "done"} =>
          \A i \in 1..Len(outputs) : outputs[i] # Uninit
    /\ \A t \in Threads : obj[t] # Uninit

\* The worker uses the block that obj points to.
Holds(t) ==
    \/ pc[t] \in {"pool", "pooled", "emit", "name", "cc"}
    \/ mode = "link" /\ pc[t] = "store"

\* No two workers use one block, and none uses a block that was freed.
HeapInv ==
    /\ \A t \in Threads : Holds(t) => obj[t] \in (1..Len(mem)) \ freed
    /\ \A t, u \in Threads : Holds(t) /\ Holds(u) /\ t # u => obj[t] # obj[u]
    /\ mode # "-c" => freed = {}

\* Temporary names are told apart by their numbers, which grow.
NameInv ==
    /\ \A b \in 1..Len(mem) :
          /\ \/ mem[b].k \in TempKinds /\ mem[b].n < counter
             \/ mem[b].k = "out" /\ mode = "-c"
          /\ b \in freed => mem[b].k = "o"
    /\ \A b, c \in 1..Len(mem) : mem[b] = mem[c] /\ mem[b].k \in TempKinds => b = c

\* The kind of name a worker is at.
KindInv ==
    \A t \in Threads :
        /\ pc[t] \in {"pool", "pooled"} => mem[obj[t]].k = kind[t]
        /\ pc[t] = "emit" => kind[t] = "s" /\ mem[obj[t]].k = "s"
        /\ pc[t] = "name" => kind[t] = "o" /\ mem[obj[t]].k = "o"
        /\ pc[t] = "cc" => kind[t] = "o" /\ mem[obj[t]].k = IF mode = "-c" THEN "out" ELSE "o"
        /\ Busy(t) /\ mode = "-S" => pc[t] \in {"optimize", "store"}

\* The assembly is written and the object file is not.
Assembled(t) ==
    kind[t] = "o" /\ pc[t] \in {"number", "numbered", "pool", "pooled", "name", "cc"}

\* A worker's assembly file holds its module, and nobody else has its name.
AsmInv ==
    \A t \in Threads : Assembled(t) =>
        /\ asm[t] \in DOMAIN files /\ files[asm[t]] = idx[t]
        /\ asm[t].k = "s" /\ asm[t].n < counter
        /\ \A u \in Threads \ {t} :
              /\ Assembled(u) => asm[u] # asm[t]
              /\ Holds(u) => mem[obj[u]] # asm[t]

\* Every temporary file can be found in the pool.
PoolInv ==
    /\ \A t \in Threads :
          pc[t] \in {"emit", "name"} \/ (pc[t] = "cc" /\ mode # "-c") =>
              \E i \in 1..Len(pool) : pool[i] = obj[t]
    /\ \A f \in DOMAIN files : f.k \in TempKinds =>
          f.n < counter /\ \E i \in 1..Len(pool) : mem[pool[i]] = f
    /\ mode = "-c" => \A f \in DOMAIN files : f.k # "o"

\* Contents of files: numbers of modules, 0 for the objects that were given.
FileInv ==
    /\ files \in [DOMAIN files -> Nat]
    /\ \A i \in 1..NGiven : Given(i) \in DOMAIN files /\ files[Given(i)] = 0

\* b is a block with the name of an object file, which holds module i or
\* does not exist.
Result(b, i) ==
    /\ b \in 1..Len(mem) /\ mem[b].k = "o"
    /\ mem[b] \in DOMAIN files => files[mem[b]] = i

\* To be linked, each module has an object file of its own.
ResultInv ==
    mode = "link" =>
        /\ \A i \in 1..Len(outputs) : outputs[i] # Uninit => Result(outputs[i], i)
        /\ \A t \in Threads : pc[t] = "store" => Result(obj[t], idx[t])
        /\ \A t \in Threads : Holds(t) /\ pc[t] # "store" /\ mem[obj[t]].k = "o" =>
              mem[obj[t]] \notin DOMAIN files
        /\ \A t \in Threads, i \in 1..Len(outputs) : Holds(t) => outputs[i] # obj[t]

\* What the linker is given, in order.
ObjectInv ==
    /\ main \in {"compile", "spawn"} => objects = [i \in 1..NGiven |-> Given(i)]
    /\ main = "link" =>
          /\ Len(objects) = NGiven + Len(work)
          /\ \A i \in 1..NGiven : objects[i] = Given(i)
          /\ \A i \in 1..Len(work) : objects[NGiven + i] = mem[outputs[i]]

IInv ==
    /\ TypeOK /\ LockInv /\ PhaseInv /\ ClaimInv /\ HeapInv /\ NameInv /\ KindInv
    /\ AsmInv /\ PoolInv /\ FileInv /\ ResultInv /\ ObjectInv

-----------------------------------------------------------------------------
(* Types.                                                                   *)

USE DEF mainVars, workerVars, vars, Uninit, Locks

\* What the types say of the workers' state and of numbers, without the
\* sequences.
LEMMA Scalars ==
    ASSUME TypeOK
    PROVE  /\ pc \in [Threads -> WorkerPCs]
           /\ rd \in [Threads -> Nat] /\ idx \in [Threads -> Nat]
           /\ kind \in [Threads -> TempKinds] /\ asm \in [Threads -> Names \cup {None}]
           /\ obj \in [Threads -> Nat \cup {None}] /\ lock \in [Locks -> Threads \cup {None}]
           /\ DOMAIN files \subseteq Names
           /\ Len(work) \in Nat /\ widex \in 0..Len(work) /\ counter \in Nat
           /\ Len(mem) \in Nat /\ Len(pool) \in Nat /\ Len(outputs) \in Nat
           /\ freed \subseteq 1..Len(mem)
<1>1. Len(work) \in Nat /\ Len(outputs) \in Nat
  BY LenProperties DEF TypeOK
<1>2. Len(mem) \in Nat /\ Len(pool) \in Nat
  BY LenProperties DEF TypeOK
<1> QED  BY <1>1, <1>2 DEF TypeOK

\* The main thread's steps keep the types.
LEMMA MainTypes == TypeOK /\ PhaseInv /\ FileInv /\ Main => TypeOK'
<1> SUFFICES ASSUME TypeOK, PhaseInv, FileInv, Main PROVE TypeOK'
  OBVIOUS
<1>1. CASE Compile
  <2>1. work \in Seq(Nat) /\ Len(work) + 1 \in Nat /\ widex \in 0..Len(work)
    BY DEF TypeOK
  <2>2. Append(work, Len(work) + 1) \in Seq(Nat) /\ Len(Append(work, Len(work) + 1)) = Len(work) + 1
    BY <2>1, AppendProperties
  <2>3. work' = work \/ work' = Append(work, Len(work) + 1)
    BY <1>1 DEF Compile
  <2>4. work' \in Seq(Nat) /\ Len(work') >= Len(work)
    BY <2>1, <2>2, <2>3
  <2>5. widex' \in 0..Len(work')
    BY <1>1, <2>1, <2>4 DEF Compile
  <2> QED  BY <1>1, <2>4, <2>5 DEF Compile, TypeOK
<1>2. CASE CompileRuntime
  <2>1. work \in Seq(Nat) /\ Len(work) + 1 \in Nat
    BY DEF TypeOK
  <2>2. work' \in Seq(Nat)
    BY <1>2, <2>1 DEF CompileRuntime
  <2>3. outputs' \in Seq(Nat \cup {None})
    BY <1>2, <2>2 DEF CompileRuntime
  <2>4. widex' \in 0..Len(work')
    BY <1>2, <2>2 DEF CompileRuntime
  <2>5. UNCHANGED <<mode, threadct, started, objects, linked, workerVars, counter, lock,
                    mem, freed, pool, files>> /\ main' = "spawn"
    BY <1>2 DEF CompileRuntime
  <2> QED  BY <2>2, <2>3, <2>4, <2>5 DEF TypeOK
<1>3. ASSUME NEW t \in Threads, Spawn(t) PROVE TypeOK'
  BY <1>3 DEF Spawn, WorkerPCs, TypeOK
<1>4. CASE Join
  <2>1. Len(outputs) = Len(work) /\ Len(work) \in Nat
    BY <1>4 DEF Join, PhaseInv, TypeOK
  <2>2. \A i \in 1..Len(work) : Deref(outputs[i]) \in Names \cup {None}
    BY <2>1 DEF Deref, TypeOK
  <2>3. [i \in 1..Len(work) |-> Deref(outputs[i])] \in Seq(Names \cup {None})
    BY <2>1, <2>2
  <2>4. objects' \in Seq(Names \cup {None})
    BY <1>4, <2>3, ConcatProperties DEF Join, TypeOK
  <2> QED  BY <1>4, <2>4 DEF Join, TypeOK
<1>5. CASE Link
  <2>0. Len(objects) \in Nat /\ \A f \in DOMAIN files : files[f] \in Int
    BY LenProperties DEF FileInv, TypeOK
  <2>1. linked' \in Seq(Int)
    BY <1>5, <2>0 DEF Link
  <2> QED  BY <1>5, <2>1 DEF Link, TypeOK
<1>6. CASE Teardown
  BY <1>6 DEF Teardown, TypeOK
<1> QED  BY <1>1, <1>2, <1>3, <1>4, <1>5, <1>6 DEF Main

\* What a name that is written into a block, old or new, changes in memory.
LEMMA BlockWritten ==
    ASSUME NEW old \in Seq(Names), NEW b \in 1..(Len(old) + 1), NEW n \in Names, NEW new,
           new = IF b > Len(old) THEN Append(old, n) ELSE [old EXCEPT ![b] = n]
    PROVE  /\ new \in Seq(Names) /\ Len(new) >= Len(old) /\ 1..Len(old) \subseteq 1..Len(new)
           /\ 1..Len(new) = 1..Len(old) \cup {b} /\ new[b] = n
           /\ \A c \in 1..Len(old) : c # b => new[c] = old[c]
<1>1. CASE b > Len(old)
  <2>1. b = Len(old) + 1
    BY <1>1
  <2> QED  BY <1>1, <2>1, AppendProperties
<1>2. CASE b \in 1..Len(old)
  BY <1>2, ExceptSeq
<1> QED  BY <1>1, <1>2

\* The pool's pointers stay in range.
LEMMA PoolTyped ==
    ASSUME TypeOK, NEW m \in Nat, m >= Len(mem)
    PROVE  pool \in Seq(1..m)
<1>1. pool \in Seq(1..Len(mem)) /\ 1..Len(mem) \subseteq 1..m
  BY DEF TypeOK
<1> QED  BY <1>1, SeqMonotonic

\* A worker's steps keep the types.
LEMMA WorkerTypes ==
    ASSUME TypeOK, LockInv, PhaseInv, HeapInv, AsmInv, FileInv, KindInv, ClaimInv,
           NEW t \in Threads, Worker(t)
    PROVE  TypeOK'
<1>1. CASE GetWork(t)
  <2>1. /\ pc' \in [Threads -> WorkerPCs] /\ lock' \in [Locks -> Threads \cup {None}]
        /\ rd' \in [Threads -> Nat]
    BY <1>1, Scalars DEF GetWork, Enter, Goto, WorkerPCs
  <2> QED  BY <1>1, <2>1 DEF GetWork, TypeOK
<1>2. CASE GotWork(t)
  <2>1. pc' \in [Threads -> WorkerPCs]
    BY <1>2, Scalars DEF GotWork, Goto, WorkerPCs
  <2>2. lock' \in [Locks -> Threads \cup {None}]
    BY <1>2, Scalars DEF GotWork, Leave
  <2>a. idx \in [Threads -> Nat] /\ rd[t] + 1 \in Nat
    BY Scalars
  <2>b. idx' = idx \/ idx' = [idx EXCEPT ![t] = rd[t] + 1]
    BY <1>2 DEF GotWork
  <2>3. idx' \in [Threads -> Nat]
    BY <2>a, <2>b
  <2>4. widex' \in 0..Len(work)
    BY <1>2, Scalars DEF GotWork
  <2>5. UNCHANGED <<mainVars, rd, kind, asm, obj, counter, mem, freed, pool, outputs, files>>
    BY <1>2 DEF GotWork
  <2> QED  BY <2>1, <2>2, <2>3, <2>4, <2>5 DEF TypeOK
<1>3. CASE Optimize(t)
  <2>1. pc' \in [Threads -> WorkerPCs] /\ kind' \in [Threads -> TempKinds]
    BY <1>3, Scalars DEF Optimize, Goto, WorkerPCs, TempKinds
  <2>2. obj' \in [Threads -> Nat \cup {None}]
    BY <1>3, Scalars DEF Optimize
  <2>3. Out(idx[t]) \in Names
    BY Scalars DEF Out, Names
  <2>4. DOMAIN files' \subseteq Names
    BY <1>3, <2>3, Scalars DEF Optimize
  <2>5. UNCHANGED <<mainVars, widex, rd, idx, asm, counter, lock, mem, freed, pool, outputs>>
    BY <1>3 DEF Optimize
  <2> QED  BY <2>1, <2>2, <2>4, <2>5 DEF TypeOK
<1>4. CASE RequestNumber(t)
  <2>1. /\ pc' \in [Threads -> WorkerPCs] /\ lock' \in [Locks -> Threads \cup {None}]
        /\ rd' \in [Threads -> Nat]
    BY <1>4, Scalars DEF RequestNumber, Enter, Goto, WorkerPCs
  <2> QED  BY <1>4, <2>1 DEF RequestNumber, TypeOK
<1>5. CASE Numbered(t)
  <2>0. pc' \in [Threads -> WorkerPCs]
    BY <1>5, Scalars DEF Numbered, Goto, WorkerPCs
  <2>1. lock' \in [Locks -> Threads \cup {None}] /\ counter' \in Nat
    BY <1>5, Scalars DEF Numbered, Leave
  <2>2. PICK b \in 1..(Len(mem) + 1) :
              Alloc(b, Temp(kind[t], rd[t])) /\ obj' = [obj EXCEPT ![t] = b]
    BY <1>5 DEF Numbered
  <2>3. Temp(kind[t], rd[t]) \in Names /\ mem \in Seq(Names)
    BY DEF Temp, Names, TempKinds, TypeOK
  <2>4. mem' \in Seq(Names) /\ Len(mem') >= Len(mem) /\ 1..Len(mem) \subseteq 1..Len(mem')
    BY <2>2, <2>3, BlockWritten DEF Alloc
  <2>5. freed' \subseteq 1..Len(mem')
    BY <2>2, <2>4 DEF Alloc, TypeOK
  <2>6. pool \in Seq(1..Len(mem')) /\ obj' \in [Threads -> Nat \cup {None}]
    BY <2>2, <2>4, PoolTyped, Scalars
  <2>7. UNCHANGED <<mainVars, widex, rd, idx, kind, asm, pool, outputs, files>>
    BY <1>5 DEF Numbered
  <2> QED  BY <2>0, <2>1, <2>4, <2>5, <2>6, <2>7 DEF TypeOK
<1>6. CASE PoolAdd(t)
  <2>1. /\ pc' \in [Threads -> WorkerPCs] /\ lock' \in [Locks -> Threads \cup {None}]
        /\ rd' \in [Threads -> Nat]
    BY <1>6, Scalars DEF PoolAdd, Enter, Goto, WorkerPCs
  <2> QED  BY <1>6, <2>1 DEF PoolAdd, TypeOK
<1>7. CASE Pooled(t)
  <2>1. rd[t] = Len(pool) /\ obj[t] \in 1..Len(mem) /\ pool \in Seq(1..Len(mem))
    BY <1>7 DEF Pooled, At, LockInv, HeapInv, Holds, TypeOK
  <2>a. pool' = Append(pool, obj[t])
    BY <1>7, <2>1, SubSeqFull DEF Pooled
  <2>2. /\ pc' \in [Threads -> WorkerPCs] /\ lock' \in [Locks -> Threads \cup {None}]
    BY <1>7, Scalars DEF Pooled, Leave, Goto, WorkerPCs
  <2>3. pool' \in Seq(1..Len(mem))
    BY <2>1, <2>a, AppendProperties
  <2>4. UNCHANGED <<mainVars, widex, rd, idx, kind, asm, obj, counter, mem, freed, outputs, files>>
    BY <1>7 DEF Pooled
  <2> QED  BY <2>2, <2>3, <2>4 DEF TypeOK
<1>8. CASE Emit(t)
  <2>1. obj[t] \in 1..Len(mem) /\ mem[obj[t]] \in Names
    BY <1>8 DEF Emit, At, HeapInv, Holds, TypeOK
  <2>2. /\ pc' \in [Threads -> WorkerPCs] /\ kind' \in [Threads -> TempKinds]
        /\ asm' \in [Threads -> Names \cup {None}] /\ DOMAIN files' \subseteq Names
    BY <1>8, <2>1 DEF Emit, Goto, TypeOK, WorkerPCs, TempKinds
  <2>3. UNCHANGED <<mainVars, widex, rd, idx, obj, counter, lock, mem, freed, pool, outputs>>
    BY <1>8 DEF Emit
  <2> QED  BY <2>2, <2>3 DEF TypeOK
<1>9. CASE ObjectName(t)
  <2>1. pc' \in [Threads -> WorkerPCs]
    BY <1>9 DEF ObjectName, Goto, TypeOK, WorkerPCs
  <2>2. UNCHANGED <<mainVars, widex, rd, idx, kind, asm, counter, lock, pool, outputs, files>>
    BY <1>9 DEF ObjectName
  <2>3. CASE mode # "-c"
    BY <1>9, <2>1, <2>2, <2>3 DEF ObjectName, TypeOK
  <2>4. CASE mode = "-c"
    <3>1. obj[t] \in 1..Len(mem)
      BY <1>9 DEF ObjectName, At, HeapInv, Holds
    <3>2. PICK b \in freed \cup {obj[t], Len(mem) + 1} :
              /\ obj' = [obj EXCEPT ![t] = b]
              /\ mem' = IF b > Len(mem) THEN Append(mem, Out(idx[t]))
                        ELSE [mem EXCEPT ![b] = Out(idx[t])]
              /\ freed' = (freed \cup {obj[t]}) \ {b}
      BY <1>9, <2>4 DEF ObjectName
    <3>a. Out(idx[t]) \in Names /\ mem \in Seq(Names)
      BY Scalars DEF TypeOK, Out, Names
    <3>3. b \in 1..(Len(mem) + 1)
      BY <3>1, Scalars
    <3>4. mem' \in Seq(Names) /\ Len(mem') >= Len(mem) /\ 1..Len(mem) \subseteq 1..Len(mem')
      BY <3>2, <3>a, <3>3, BlockWritten
    <3>b. 1..Len(mem') = 1..Len(mem) \cup {b}
      BY <3>2, <3>a, <3>3, BlockWritten
    <3>c. freed' \subseteq 1..Len(mem')
      BY <3>1, <3>2, <3>b, Scalars
    <3>5. obj' \in [Threads -> Nat \cup {None}]
      BY <3>2, <3>3, Scalars
    <3>6. pool \in Seq(1..Len(mem'))
      BY <3>4, PoolTyped DEF TypeOK
    <3> QED  BY <2>1, <2>2, <3>4, <3>c, <3>5, <3>6 DEF TypeOK
  <2> QED  BY <2>3, <2>4
<1>10. CASE SystemCC(t)
  <2>1. obj[t] \in 1..Len(mem) /\ mem[obj[t]] \in Names
    BY <1>10 DEF SystemCC, At, HeapInv, Holds, TypeOK
  <2>2. /\ pc' \in [Threads -> WorkerPCs] /\ DOMAIN files' \subseteq Names
        /\ main' \in {"compile", "spawn", "link", "teardown", "done", "died"}
    BY <1>10, <2>1 DEF SystemCC, Goto, TypeOK, WorkerPCs
  <2>3. UNCHANGED <<mode, threadct, work, started, objects, linked, widex, rd, idx, kind,
                    asm, obj, counter, lock, mem, freed, pool, outputs>>
    BY <1>10 DEF SystemCC
  <2> QED  BY <2>2, <2>3 DEF TypeOK
<1>11. CASE Store(t)
  <2>1. pc' \in [Threads -> WorkerPCs]
    BY <1>11 DEF Store, Goto, TypeOK, WorkerPCs
  <2>2. obj[t] \in Nat \cup {None} /\ outputs \in Seq(Nat \cup {None})
    BY DEF TypeOK
  <2>3. idx[t] \in 1..Len(outputs)
    <3>1. pc[t] = "store" /\ Busy(t)
      BY <1>11 DEF Store, At, Busy
    <3>2. idx[t] \in 1..widex /\ Len(outputs) = Len(work)
      BY <3>1 DEF ClaimInv, PhaseInv
    <3> QED  BY <3>2, Scalars
  <2>4. outputs' \in Seq(Nat \cup {None})
    BY <1>11, <2>2, <2>3, ExceptSeq DEF Store
  <2>5. UNCHANGED <<mainVars, widex, rd, idx, kind, asm, obj, counter, lock, mem, freed,
                    pool, files>>
    BY <1>11 DEF Store
  <2> QED  BY <2>1, <2>4, <2>5 DEF TypeOK
<1> QED
  BY <1>1, <1>2, <1>3, <1>4, <1>5, <1>6, <1>7, <1>8, <1>9, <1>10, <1>11 DEF Worker

-----------------------------------------------------------------------------
(* The mutexes.                                                             *)

\* Starting a thread, without the choice of which.
LEMMA SpawnEffect ==
    ASSUME TypeOK, PhaseInv, NEW t \in Threads, Spawn(t)
    PROVE  /\ main = "spawn" /\ started' = started \cup {t} /\ pc[t] = "idle" /\ pc'[t] = "get"
           /\ \A u \in Threads \ {t} : pc'[u] = pc[u]
           /\ UNCHANGED <<mode, threadct, main, work, widex, objects, linked, rd, idx, kind,
                          asm, obj, counter, lock, mem, freed, pool, outputs, files>>
<1>1. started \subseteq Threads /\ pc \in [Threads -> WorkerPCs]
  BY DEF TypeOK
<1>2. t \notin started
  BY <1>1 DEF Spawn
<1>3. pc[t] = "idle"
  BY <1>2 DEF PhaseInv
<1> QED  BY <1>1, <1>3 DEF Spawn

\* Between a lock and its unlock nobody else enters, so that what was read
\* stays true.
LEMMA LockStep ==
    ASSUME TypeOK, LockInv, PhaseInv, Next
    PROVE  LockInv'
<1>1. /\ pc \in [Threads -> WorkerPCs] /\ lock \in [Locks -> Threads \cup {None}]
      /\ rd \in [Threads -> Nat] /\ None \notin Threads
  BY Scalars, ShippingAssumption
<1>2. CASE CompileRuntime
  <2>1. \A t \in Threads : pc[t] = "idle"
    BY <1>2 DEF CompileRuntime, PhaseInv
  <2> QED  BY <1>2, <2>1 DEF CompileRuntime, LockInv
<1>3. CASE Compile \/ Join \/ Link \/ Teardown \/ Ended
  BY <1>3 DEF Compile, Join, Link, Teardown, Ended, LockInv
<1>4. ASSUME NEW t \in Threads, Spawn(t) PROVE LockInv'
  BY <1>4, SpawnEffect DEF LockInv
<1>5. ASSUME NEW t \in Threads, Worker(t) PROVE LockInv'
  <2>1. CASE GetWork(t)
    BY <1>1, <2>1 DEF GetWork, At, Enter, Goto, LockInv
  <2>2. CASE GotWork(t)
    BY <1>1, <2>2 DEF GotWork, At, Leave, Goto, LockInv
  <2>3. CASE Optimize(t)
    BY <1>1, <2>3 DEF Optimize, At, Goto, LockInv
  <2>4. CASE RequestNumber(t)
    BY <1>1, <2>4 DEF RequestNumber, At, Enter, Goto, LockInv
  <2>5. CASE Numbered(t)
    BY <1>1, <2>5 DEF Numbered, At, Leave, Goto, LockInv
  <2>6. CASE PoolAdd(t)
    BY <1>1, <2>6 DEF PoolAdd, At, Enter, Goto, LockInv
  <2>7. CASE Pooled(t)
    BY <1>1, <2>7 DEF Pooled, At, Leave, Goto, LockInv
  <2>8. CASE Emit(t)
    BY <1>1, <2>8 DEF Emit, At, Goto, LockInv
  <2>9. CASE ObjectName(t)
    BY <1>1, <2>9 DEF ObjectName, At, Goto, LockInv
  <2>10. CASE SystemCC(t)
    BY <1>1, <2>10 DEF SystemCC, At, Goto, LockInv
  <2>11. CASE Store(t)
    BY <1>1, <2>11 DEF Store, At, Goto, LockInv
  <2> QED
    BY <1>5, <2>1, <2>2, <2>3, <2>4, <2>5, <2>6, <2>7, <2>8, <2>9, <2>10, <2>11 DEF Worker
<1> QED  BY <1>2, <1>3, <1>4, <1>5 DEF Next, Main

-----------------------------------------------------------------------------
(* The phases of the build.                                                 *)

\* What every worker's step leaves alone: it moves one thread, which has been
\* started and not yet left, while the main thread waits for it.
LEMMA WorkerFrame ==
    ASSUME TypeOK, PhaseInv, NEW t \in Threads, Worker(t)
    PROVE  /\ main = "spawn" /\ main' \in {"spawn", "died"} /\ t \in started
           /\ pc[t] \notin {"idle", "exit"} /\ pc'[t] # "idle" /\ DOMAIN pc' = Threads
           /\ UNCHANGED <<mode, threadct, work, started, objects, linked>>
           /\ \A u \in Threads \ {t} :
                 /\ pc'[u] = pc[u] /\ rd'[u] = rd[u] /\ idx'[u] = idx[u]
                 /\ kind'[u] = kind[u] /\ asm'[u] = asm[u] /\ obj'[u] = obj[u]
<1>1. main # "died" /\ pc[t] \notin {"idle", "exit"}
  BY DEF Worker, At, GetWork, GotWork, Optimize, RequestNumber, Numbered, PoolAdd, Pooled,
         Emit, ObjectName, SystemCC, Store
<1>2. t \in started /\ main \in {"compile", "spawn", "link", "teardown", "done", "died"}
  BY <1>1 DEF PhaseInv, TypeOK
<1>3. main = "spawn"
  BY <1>1, <1>2 DEF PhaseInv
<1>4. /\ main' \in {main, "died"}
      /\ UNCHANGED <<mode, threadct, work, started, objects, linked>>
  BY DEF Worker, GetWork, GotWork, Optimize, RequestNumber, Numbered, PoolAdd, Pooled,
     Emit, ObjectName, SystemCC, Store
<1>6. pc'[t] # "idle" /\ DOMAIN pc' = Threads
  BY <1>1, Scalars DEF Worker, Goto, GetWork, GotWork, Optimize, RequestNumber, Numbered, PoolAdd,
     Pooled, Emit, ObjectName, SystemCC, Store
<1>5. ASSUME NEW u \in Threads \ {t}
      PROVE  /\ pc'[u] = pc[u] /\ rd'[u] = rd[u] /\ idx'[u] = idx[u]
             /\ kind'[u] = kind[u] /\ asm'[u] = asm[u] /\ obj'[u] = obj[u]
  BY Scalars DEF Worker, Goto, Enter, GetWork, GotWork, Optimize, RequestNumber, Numbered,
     PoolAdd, Pooled, Emit, ObjectName, SystemCC, Store
<1> QED  BY <1>1, <1>2, <1>3, <1>4, <1>5, <1>6

\* The array of outputs is made once and keeps its length.
LEMMA OutputsLength ==
    ASSUME TypeOK, NEW t \in Threads, Worker(t)
    PROVE  Len(outputs') = Len(outputs)
<1>1. outputs \in Seq(Nat \cup {None}) /\ obj[t] \in Nat \cup {None}
  BY DEF TypeOK
<1>2. outputs' = outputs \/ outputs' = [outputs EXCEPT ![idx[t]] = obj[t]]
  BY DEF Worker, GetWork, GotWork, Optimize, RequestNumber, Numbered, PoolAdd, Pooled, Emit,
         ObjectName, SystemCC, Store
<1> QED  BY <1>1, <1>2

\* The main thread moves on only when the workers are done.
LEMMA PhaseStep ==
    ASSUME TypeOK, PhaseInv, Next
    PROVE  PhaseInv'
<1>1. CASE Compile
  BY <1>1 DEF Compile, PhaseInv
<1>2. CASE CompileRuntime
  <2>1. Len(work') \in Nat
    <3>1. work \in Seq(Nat) /\ Len(work) + 1 \in Nat
      BY DEF TypeOK
    <3> QED  BY <1>2, <3>1 DEF CompileRuntime
  <2>2. Len(outputs') = Len(work')
    BY <1>2, <2>1 DEF CompileRuntime
  <2>3. /\ main = "compile" /\ main' = "spawn"
        /\ UNCHANGED <<mode, started, linked, pc>>
    BY <1>2 DEF CompileRuntime
  <2> QED  BY <2>2, <2>3 DEF PhaseInv
<1>3. ASSUME NEW t \in Threads, Spawn(t) PROVE PhaseInv'
  BY <1>3, SpawnEffect DEF PhaseInv
<1>4. CASE Join
  BY <1>4 DEF Join, PhaseInv
<1>5. CASE Link
  BY <1>5 DEF Link, PhaseInv
<1>6. CASE Teardown \/ Ended
  BY <1>6 DEF Teardown, Ended, PhaseInv
<1>7. ASSUME NEW t \in Threads, Worker(t) PROVE PhaseInv'
  BY <1>7, WorkerFrame, OutputsLength DEF PhaseInv
<1> QED  BY <1>1, <1>2, <1>3, <1>4, <1>5, <1>6, <1>7 DEF Next, Main

-----------------------------------------------------------------------------
(* The claims.                                                              *)

\* When the main thread has joined the workers, every module was claimed:
\* there is no worker only when there is nothing to do.
LEMMA NoWorkNoWorker ==
    ASSUME TypeOK, started = {}, Cardinality(started) = ThreadCount
    PROVE  Len(work) = 0
<1>1. Cardinality(started) = 0
  BY FS_EmptySet
<1>2. threadct \in Nat /\ Len(work) \in Nat
  BY Scalars, ShippingAssumption DEF TypeOK
<1> QED  BY <1>1, <1>2 DEF ThreadCount, DefaultThreads

\* The step that writes a claim, seen from the shared state: the mutex has
\* kept widex at what was read.
LEMMA ClaimWritten ==
    ASSUME TypeOK, LockInv, PhaseInv, NEW t \in Threads, GotWork(t)
    PROVE  /\ pc[t] = "got" /\ UNCHANGED outputs
           /\ \/ /\ widex < Len(work) /\ widex' = widex + 1 /\ idx'[t] = widex + 1
                 /\ pc'[t] = "optimize"
              \/ /\ widex = Len(work) /\ pc'[t] = "exit" /\ UNCHANGED <<widex, idx>>
<1>1. pc[t] = "got" /\ rd[t] = widex
  BY DEF GotWork, At, LockInv
<1>2. idx \in [Threads -> Nat] /\ pc \in [Threads -> WorkerPCs]
      /\ widex \in 0..Len(work) /\ Len(work) \in Nat
  BY Scalars
<1> QED  BY <1>1, <1>2 DEF GotWork, Goto

\* A module is claimed by one worker and stored by that worker.
LEMMA ClaimStep ==
    ASSUME TypeOK, LockInv, PhaseInv, ClaimInv, Next
    PROVE  ClaimInv'
<1>1. CASE Compile
  <2>1. \A t \in Threads : pc[t] = "idle"
    BY <1>1 DEF Compile, PhaseInv
  <2>2. UNCHANGED <<widex, pc, idx, obj, outputs>> /\ main' \in {"compile", "died"}
    BY <1>1 DEF Compile
  <2> QED  BY <2>1, <2>2 DEF ClaimInv, Busy
<1>2. CASE CompileRuntime
  <2>1. \A t \in Threads : pc[t] = "idle"
    BY <1>2 DEF CompileRuntime, PhaseInv
  <2>2. UNCHANGED <<pc, idx, obj>> /\ main' = "spawn" /\ widex' = 0
    BY <1>2 DEF CompileRuntime
  <2>3. work' \in Seq(Nat)
    <3>1. work \in Seq(Nat) /\ Len(work) + 1 \in Nat
      BY DEF TypeOK
    <3> QED  BY <1>2, <3>1 DEF CompileRuntime
  <2>4. \A i \in 1..Len(outputs') : outputs'[i] = Uninit
    BY <1>2, <2>3 DEF CompileRuntime
  <2> QED  BY <2>1, <2>2, <2>4 DEF ClaimInv, Busy
<1>3. ASSUME NEW t \in Threads, Spawn(t) PROVE ClaimInv'
  <2>1. /\ pc[t] = "idle" /\ pc'[t] = "get" /\ main' = main
        /\ UNCHANGED <<work, widex, idx, obj, outputs>>
        /\ \A u \in Threads \ {t} : pc'[u] = pc[u]
    BY <1>3, SpawnEffect
  <2>2. \A u \in Threads : Busy(u)' <=> Busy(u)
    BY <2>1 DEF Busy
  <2>3. \A u \in Threads : pc'[u] = "exit" => pc[u] = "exit"
    BY <2>1
  <2> QED  BY <2>1, <2>2, <2>3 DEF ClaimInv
<1>4. CASE Join
  <2>1. main = "spawn" /\ UNCHANGED <<work, widex, pc, idx, obj, outputs, started>>
    BY <1>4 DEF Join
  <2>2. \A i \in 1..Len(outputs) : outputs[i] # Uninit
    <3>1. CASE started = {}
      <4>1. Len(work) = 0 /\ Len(outputs) = Len(work)
        BY <1>4, <3>1, NoWorkNoWorker DEF Join, PhaseInv
      <4> QED  BY <4>1
    <3>2. CASE started # {}
      <4>1. widex = Len(work) /\ Len(outputs) = Len(work)
        BY <1>4, <3>2 DEF Join, PhaseInv, ClaimInv, TypeOK
      <4>2. \A t \in Threads : ~Busy(t)
        BY <1>4 DEF Join, PhaseInv, Busy
      <4> QED  BY <4>1, <4>2 DEF ClaimInv
    <3> QED  BY <3>1, <3>2
  <2> QED  BY <2>1, <2>2 DEF ClaimInv, Busy
<1>5. CASE Link \/ Teardown \/ Ended
  BY <1>5 DEF Link, Teardown, Ended, ClaimInv, Busy
<1>6. ASSUME NEW t \in Threads, Worker(t) PROVE ClaimInv'
  <2>0. /\ main' \in {"spawn", "died"} /\ UNCHANGED work
        /\ \A u \in Threads \ {t} : /\ pc'[u] = pc[u] /\ idx'[u] = idx[u] /\ obj'[u] = obj[u]
                                    /\ Busy(u)' <=> Busy(u)
    BY <1>6, WorkerFrame DEF Busy
  <2>p. /\ pc \in [Threads -> WorkerPCs] /\ widex \in 0..Len(work) /\ Len(work) \in Nat
        /\ Len(outputs) \in Nat /\ Len(mem) \in Nat /\ freed \subseteq 1..Len(mem)
        /\ obj \in [Threads -> Nat \cup {None}]
    BY Scalars
  <2>w. Len(outputs) = Len(work) /\ Len(outputs') = Len(outputs)
    BY <1>6, WorkerFrame, OutputsLength DEF PhaseInv
  <2>1. CASE GotWork(t)
    <3>1. ~Busy(t) /\ UNCHANGED <<outputs, obj>>
      BY <2>1 DEF GotWork, At, Busy
    <3>2. CASE /\ widex < Len(work) /\ widex' = widex + 1 /\ idx'[t] = widex + 1
               /\ pc'[t] = "optimize"
      <4>1. outputs[widex + 1] = Uninit /\ Busy(t)'
        BY <2>p, <2>w, <3>2 DEF ClaimInv, Busy
      <4>2. \A u \in Threads \ {t} : Busy(u) => idx[u] \in 1..widex
        BY DEF ClaimInv
      <4>3. \A u \in Threads : pc'[u] # "exit"
        BY <2>0, <2>p, <3>2 DEF ClaimInv
      <4>4. \A u \in Threads : Busy(u)' => idx'[u] \in 1..widex' /\ outputs'[idx'[u]] = Uninit
        BY <2>0, <2>p, <3>1, <3>2, <4>1, <4>2 DEF ClaimInv
      <4>5. \A u, v \in Threads : Busy(u)' /\ Busy(v)' /\ u # v => idx'[u] # idx'[v]
        BY <2>0, <2>p, <3>2, <4>2 DEF ClaimInv
      <4>6. \A i \in 1..Len(outputs') : i > widex' => outputs'[i] = Uninit
        BY <2>p, <2>w, <3>1, <3>2 DEF ClaimInv
      <4>7. ASSUME NEW i \in 1..widex'
            PROVE  outputs'[i] # Uninit \/ \E u \in Threads : Busy(u)' /\ idx'[u] = i
        <5>1. CASE i = widex + 1
          BY <5>1, <3>2, <4>1
        <5>2. CASE i \in 1..widex
          BY <5>2, <2>0, <3>1 DEF ClaimInv
        <5> QED  BY <2>p, <3>2, <5>1, <5>2
      <4> QED  BY <2>0, <3>1, <4>3, <4>4, <4>5, <4>6, <4>7 DEF ClaimInv
    <3>3. CASE widex = Len(work) /\ pc'[t] = "exit" /\ UNCHANGED <<widex, idx>>
      <4>1. ~Busy(t)'
        BY <3>3 DEF Busy
      <4> QED  BY <2>0, <3>1, <3>3, <4>1 DEF ClaimInv
    <3> QED  BY <2>1, <3>2, <3>3, ClaimWritten
  <2>2. CASE Store(t)
    <3>1. /\ Busy(t) /\ ~Busy(t)' /\ UNCHANGED <<widex, idx, obj>>
          /\ outputs' = [outputs EXCEPT ![idx[t]] = obj[t]] /\ obj[t] # Uninit
          /\ pc'[t] # "exit"
      BY <2>2, <2>p DEF Store, At, Goto, Busy, ClaimInv
    <3>2. idx[t] \in 1..widex /\ \A u \in Threads \ {t} : Busy(u) => idx[u] # idx[t]
      BY <3>1 DEF ClaimInv
    <3>3. \A i : i # idx[t] /\ i \in 1..Len(outputs) => outputs'[i] = outputs[i]
      BY <3>1 DEF TypeOK
    <3>4. outputs'[idx[t]] # Uninit
      BY <2>p, <2>w, <3>1, <3>2 DEF TypeOK
    <3>5. 1..widex \subseteq 1..Len(outputs)
      BY <2>p, <2>w
    <3>6. \A u \in Threads : Busy(u)' => idx'[u] \in 1..widex' /\ outputs'[idx'[u]] = Uninit
      BY <2>0, <3>1, <3>2, <3>3, <3>5 DEF ClaimInv
    <3>7. \A i \in 1..Len(outputs') : i > widex' => outputs'[i] = Uninit
      BY <2>p, <2>w, <3>1, <3>2, <3>3 DEF ClaimInv
    <3>8. ASSUME NEW i \in 1..widex'
          PROVE  outputs'[i] # Uninit \/ \E u \in Threads : Busy(u)' /\ idx'[u] = i
      BY <2>0, <3>1, <3>3, <3>4, <3>5 DEF ClaimInv
    <3> QED  BY <2>0, <3>1, <3>6, <3>7, <3>8 DEF ClaimInv
  <2>3. CASE Numbered(t) \/ ObjectName(t)
    <3>1. /\ UNCHANGED <<widex, idx, outputs>> /\ Busy(t) /\ Busy(t)' /\ pc'[t] # "exit"
      BY <2>3, <2>p DEF Numbered, ObjectName, At, Goto, Busy
    <3>2. obj'[t] # Uninit
      <4>1. obj[t] # Uninit
        BY DEF ClaimInv
      <4> QED  BY <2>3, <2>p, <4>1 DEF Numbered, ObjectName
    <3> QED  BY <2>0, <3>1, <3>2 DEF ClaimInv
  <2>4. CASE Optimize(t)
    <3>1. /\ UNCHANGED <<widex, idx, outputs>> /\ Busy(t) /\ Busy(t)' /\ pc'[t] # "exit"
      BY <2>4, <2>p DEF Optimize, At, Goto, Busy
    <3>2. obj'[t] # Uninit
      BY <2>4, <2>p, ShippingAssumption DEF Optimize, ClaimInv
    <3> QED  BY <2>0, <3>1, <3>2 DEF ClaimInv
  <2>5. CASE RequestNumber(t) \/ PoolAdd(t) \/ Pooled(t) \/ Emit(t) \/ SystemCC(t)
    <3>1. /\ UNCHANGED <<widex, idx, outputs, obj>> /\ Busy(t) /\ Busy(t)' /\ pc'[t] # "exit"
      BY <2>5, <2>p DEF RequestNumber, PoolAdd, Pooled, Emit, SystemCC, At, Goto, Busy
    <3> QED  BY <2>0, <3>1 DEF ClaimInv
  <2>6. CASE GetWork(t)
    <3>1. /\ UNCHANGED <<widex, idx, outputs, obj>> /\ ~Busy(t) /\ ~Busy(t)' /\ pc'[t] # "exit"
      BY <2>6, <2>p DEF GetWork, At, Goto, Busy
    <3> QED  BY <2>0, <3>1 DEF ClaimInv
  <2> QED  BY <1>6, <2>1, <2>2, <2>3, <2>4, <2>5, <2>6 DEF Worker
<1> QED  BY <1>1, <1>2, <1>3, <1>4, <1>5, <1>6 DEF Next, Main

-----------------------------------------------------------------------------
(* The heap.                                                                *)

\* What the main thread leaves alone: everything the workers made but the
\* files, which it removes in the end.
LEMMA MainFrame ==
    ASSUME TypeOK, PhaseInv, Main
    PROVE  /\ UNCHANGED <<mode, threadct, rd, idx, kind, asm, obj, counter, lock, mem, freed,
                          pool>>
           /\ UNCHANGED pc \/ \E t \in Threads : Spawn(t)
           /\ \A t \in Threads : pc'[t] = pc[t] \/ (pc[t] = "idle" /\ pc'[t] = "get")
           /\ UNCHANGED files \/ Teardown
<1>1. CASE Compile \/ CompileRuntime \/ Join \/ Link \/ Teardown
  BY <1>1 DEF Compile, CompileRuntime, Join, Link, Teardown
<1>2. ASSUME NEW t \in Threads, Spawn(t)
      PROVE  /\ UNCHANGED <<mode, threadct, rd, idx, kind, asm, obj, counter, lock, mem, freed,
                            pool, files>>
             /\ \A u \in Threads : pc'[u] = pc[u] \/ (pc[u] = "idle" /\ pc'[u] = "get")
  BY <1>2, SpawnEffect
<1> QED  BY <1>1, <1>2 DEF Main

\* A new temporary name: its number is the counter's, and its block is fresh
\* or was freed.
LEMMA NumberedEffect ==
    ASSUME TypeOK, LockInv, NEW t \in Threads, Numbered(t)
    PROVE  /\ pc[t] = "numbered" /\ pc'[t] = "pool" /\ counter' = counter + 1
           /\ UNCHANGED <<mode, main, idx, kind, asm, pool, outputs, files>>
           /\ \E b \in freed \cup {Len(mem) + 1} :
                 /\ b # Uninit /\ obj'[t] = b /\ freed' = freed \ {b}
                 /\ Len(mem') >= Len(mem) /\ 1..Len(mem') = 1..Len(mem) \cup {b}
                 /\ mem'[b] = Temp(kind[t], counter)
                 /\ \A c \in 1..Len(mem) : c # b => mem'[c] = mem[c]
<1>1. pc \in [Threads -> WorkerPCs] /\ obj \in [Threads -> Nat \cup {None}]
      /\ counter \in Nat /\ kind \in [Threads -> TempKinds]
      /\ Len(mem) \in Nat /\ freed \subseteq 1..Len(mem)
  BY Scalars
<1>2. pc[t] = "numbered" /\ rd[t] = counter
  BY DEF Numbered, At, LockInv
<1>3. PICK b \in 1..(Len(mem) + 1) :
          Alloc(b, Temp(kind[t], rd[t])) /\ obj' = [obj EXCEPT ![t] = b]
  BY DEF Numbered
<1>4. Temp(kind[t], rd[t]) \in Names /\ mem \in Seq(Names)
  BY <1>1, <1>2 DEF Temp, Names, TypeOK
<1>5. /\ Len(mem') >= Len(mem) /\ 1..Len(mem') = 1..Len(mem) \cup {b}
      /\ mem'[b] = Temp(kind[t], counter)
      /\ \A c \in 1..Len(mem) : c # b => mem'[c] = mem[c]
  BY <1>2, <1>3, <1>4, BlockWritten DEF Alloc
<1>6. b \in freed \cup {Len(mem) + 1} /\ freed' = freed \ {b} /\ obj'[t] = b /\ b # Uninit
  BY <1>1, <1>3 DEF Alloc
<1>7. /\ pc'[t] = "pool" /\ counter' = counter + 1
      /\ UNCHANGED <<mode, main, idx, kind, asm, pool, outputs, files>>
  BY <1>1, <1>2 DEF Numbered, Goto
<1> QED  BY <1>2, <1>5, <1>6, <1>7

\* The output name of -c: its block may be the one that was just freed.
LEMMA ObjectNameEffect ==
    ASSUME TypeOK, HeapInv, NEW t \in Threads, ObjectName(t), mode = "-c"
    PROVE  /\ pc[t] = "name" /\ pc'[t] = "cc" /\ obj[t] \in 1..Len(mem)
           /\ UNCHANGED <<mode, main, idx, kind, asm, counter, pool, outputs, files>>
           /\ \E b \in freed \cup {obj[t], Len(mem) + 1} :
                 /\ obj'[t] = b /\ freed' = (freed \cup {obj[t]}) \ {b}
                 /\ Len(mem') >= Len(mem) /\ 1..Len(mem') = 1..Len(mem) \cup {b}
                 /\ mem'[b] = Out(idx[t])
                 /\ \A c \in 1..Len(mem) : c # b => mem'[c] = mem[c]
<1>1. pc \in [Threads -> WorkerPCs] /\ obj \in [Threads -> Nat \cup {None}]
      /\ idx \in [Threads -> Nat] /\ Len(mem) \in Nat /\ freed \subseteq 1..Len(mem)
  BY Scalars
<1>2. pc[t] = "name" /\ obj[t] \in 1..Len(mem)
  BY DEF ObjectName, At, HeapInv, Holds
<1>3. PICK b \in freed \cup {obj[t], Len(mem) + 1} :
          /\ obj' = [obj EXCEPT ![t] = b]
          /\ mem' = IF b > Len(mem) THEN Append(mem, Out(idx[t]))
                    ELSE [mem EXCEPT ![b] = Out(idx[t])]
          /\ freed' = (freed \cup {obj[t]}) \ {b}
  BY DEF ObjectName
<1>a. mem \in Seq(Names) /\ b \in 1..(Len(mem) + 1)
  BY <1>1, <1>2 DEF TypeOK
<1>4. Out(idx[t]) \in Names
  BY <1>1 DEF Out, Names
<1>5. /\ Len(mem') >= Len(mem) /\ 1..Len(mem') = 1..Len(mem) \cup {b}
      /\ mem'[b] = Out(idx[t])
      /\ \A c \in 1..Len(mem) : c # b => mem'[c] = mem[c]
  BY <1>3, <1>4, <1>a, BlockWritten
<1>6. /\ pc'[t] = "cc"
      /\ UNCHANGED <<mode, main, idx, kind, asm, counter, pool, outputs, files>>
  BY <1>1 DEF ObjectName, Goto
<1> QED  BY <1>1, <1>2, <1>3, <1>5, <1>6

\* A block that a worker uses is its own.
LEMMA HeapStep ==
    ASSUME TypeOK, LockInv, PhaseInv, HeapInv, Next
    PROVE  HeapInv'
<1>1. CASE Main \/ Ended
  <2>1. /\ UNCHANGED <<mode, obj, mem, freed>>
        /\ \A t \in Threads : pc'[t] = pc[t] \/ (pc[t] = "idle" /\ pc'[t] = "get")
    BY <1>1, MainFrame DEF Ended
  <2>2. \A t \in Threads : Holds(t)' => Holds(t)
    BY <2>1 DEF Holds
  <2> QED  BY <2>1, <2>2 DEF HeapInv
<1>2. ASSUME NEW t \in Threads, Worker(t) PROVE HeapInv'
  <2>1. /\ UNCHANGED mode
        /\ \A u \in Threads \ {t} : obj'[u] = obj[u] /\ (Holds(u)' <=> Holds(u))
    BY <1>2, WorkerFrame DEF Holds
  <2>2. pc \in [Threads -> WorkerPCs] /\ Len(mem) \in Nat /\ freed \subseteq 1..Len(mem)
    BY Scalars
  <2>3. CASE Numbered(t)
    <3>1. PICK b \in freed \cup {Len(mem) + 1} :
              obj'[t] = b /\ freed' = freed \ {b} /\ 1..Len(mem') = 1..Len(mem) \cup {b}
      BY <2>3, NumberedEffect
    <3> QED  BY <2>1, <2>2, <3>1 DEF HeapInv
  <2>4. CASE ObjectName(t) /\ mode = "-c"
    <3>1. Holds(t)
      BY <2>4, ObjectNameEffect DEF Holds
    <3> QED  BY <2>1, <2>2, <2>4, <3>1, ObjectNameEffect DEF HeapInv
  <2>5. CASE ~Numbered(t) /\ ~(ObjectName(t) /\ mode = "-c")
    <3>1. /\ UNCHANGED <<mem, freed>>
          /\ Holds(t)' => Holds(t) /\ obj'[t] = obj[t]
      BY <1>2, <2>1, <2>2, <2>5 DEF Worker, Goto, At, Holds, GetWork, GotWork, Optimize,
         RequestNumber, PoolAdd, Pooled, Emit, ObjectName, SystemCC, Store
    <3> QED  BY <2>1, <3>1 DEF HeapInv
  <2> QED  BY <2>3, <2>4, <2>5
<1> QED  BY <1>1, <1>2 DEF Next

-----------------------------------------------------------------------------
(* Names.                                                                   *)

\* A worker writes no block that another one uses, and without -c no block
\* that is in use at all.
LEMMA NamesKept ==
    ASSUME TypeOK, LockInv, PhaseInv, HeapInv, NEW t \in Threads, Worker(t)
    PROVE  /\ 1..Len(mem) \subseteq 1..Len(mem') /\ UNCHANGED mode
           /\ \A c \in (1..Len(mem)) \ (freed \cup {obj[t]}) : mem'[c] = mem[c]
           /\ mode # "-c" => \A c \in 1..Len(mem) : mem'[c] = mem[c]
           /\ \A u \in Threads \ {t} : Holds(u)' <=> Holds(u)
           /\ \A u \in Threads \ {t} : Holds(u) =>
                 obj'[u] = obj[u] /\ obj[u] \in 1..Len(mem) /\ mem'[obj[u]] = mem[obj[u]]
<1>1. /\ UNCHANGED mode
      /\ \A u \in Threads \ {t} : obj'[u] = obj[u] /\ (Holds(u)' <=> Holds(u))
  BY WorkerFrame DEF Holds
<1>2. Len(mem) \in Nat /\ freed \subseteq 1..Len(mem)
  BY Scalars
<1>3. /\ 1..Len(mem) \subseteq 1..Len(mem')
      /\ \A c \in (1..Len(mem)) \ (freed \cup {obj[t]}) : mem'[c] = mem[c]
      /\ mode # "-c" => \A c \in 1..Len(mem) : mem'[c] = mem[c]
  <2>1. CASE Numbered(t)
    BY <1>2, <2>1, NumberedEffect DEF HeapInv
  <2>2. CASE ObjectName(t) /\ mode = "-c"
    BY <1>2, <2>2, ObjectNameEffect
  <2>3. CASE ~Numbered(t) /\ ~(ObjectName(t) /\ mode = "-c")
    <3>1. UNCHANGED mem
      BY <2>3 DEF Worker, GetWork, GotWork, Optimize, RequestNumber, PoolAdd, Pooled, Emit,
         ObjectName, SystemCC, Store
    <3> QED  BY <3>1
  <2> QED  BY <2>1, <2>2, <2>3
<1>4. \A u \in Threads \ {t} : Holds(u) /\ Holds(t) => obj[u] # obj[t]
  BY DEF HeapInv
<1>5. ASSUME NEW u \in Threads \ {t}, Holds(u)
      PROVE  obj[u] \in 1..Len(mem) /\ mem'[obj[u]] = mem[obj[u]]
  <2>1. obj[u] \in (1..Len(mem)) \ freed
    BY <1>5 DEF HeapInv
  <2>2. CASE Holds(t)
    BY <1>3, <1>4, <1>5, <2>1, <2>2
  <2>3. CASE ~Holds(t)
    <3>1. CASE Numbered(t)
      BY <1>2, <2>1, <3>1, NumberedEffect
    <3>2. CASE ~Numbered(t)
      <4>1. ~ObjectName(t)
        BY <2>3 DEF ObjectName, At, Holds
      <4> QED
        BY <3>2, <4>1, <2>1 DEF Worker, GetWork, GotWork, Optimize, RequestNumber, PoolAdd,
           Pooled, Emit, SystemCC, Store
    <3> QED  BY <3>1, <3>2
  <2> QED  BY <2>2, <2>3
<1> QED  BY <1>1, <1>3, <1>5

\* Temporary names stay apart: a new one has a number that no other has.
LEMMA NameStep ==
    ASSUME TypeOK, LockInv, PhaseInv, HeapInv, NameInv, KindInv, Next
    PROVE  NameInv'
<1>1. CASE Main \/ Ended
  <2>1. UNCHANGED <<mode, mem, freed, counter>>
    BY <1>1, MainFrame DEF Ended
  <2> QED  BY <2>1 DEF NameInv
<1>2. ASSUME NEW t \in Threads, Worker(t) PROVE NameInv'
  <2>1. /\ Len(mem) \in Nat /\ freed \subseteq 1..Len(mem) /\ counter \in Nat
        /\ kind \in [Threads -> TempKinds]
    BY Scalars
  <2>2. CASE Numbered(t)
    <3>1. PICK b \in freed \cup {Len(mem) + 1} :
              /\ freed' = freed \ {b} /\ 1..Len(mem') = 1..Len(mem) \cup {b}
              /\ mem'[b] = Temp(kind[t], counter)
              /\ \A c \in 1..Len(mem) : c # b => mem'[c] = mem[c]
      BY <2>2, NumberedEffect
    <3>2. counter' = counter + 1 /\ UNCHANGED mode
      BY <2>2, NumberedEffect
    <3>3. mem'[b].k \in TempKinds /\ mem'[b].n = counter
      BY <2>1, <3>1 DEF Temp
    <3>4. ASSUME NEW c \in 1..Len(mem')
          PROVE  /\ \/ mem'[c].k \in TempKinds /\ mem'[c].n < counter'
                    \/ mem'[c].k = "out" /\ mode' = "-c"
                 /\ c \in freed' => mem'[c].k = "o"
      <4>1. CASE c = b
        BY <2>1, <3>1, <3>2, <3>3, <4>1
      <4>2. CASE c # b
        <5>1. c \in 1..Len(mem) /\ mem'[c] = mem[c] /\ (c \in freed' => c \in freed)
          BY <3>1, <4>2
        <5>2. mem[c] \in Names
          BY <5>1 DEF TypeOK
        <5> QED  BY <2>1, <3>2, <5>1, <5>2 DEF NameInv, Names
      <4> QED  BY <4>1, <4>2
    <3>5. \A c \in 1..Len(mem) : mem[c].k \in TempKinds => mem[c].n # counter
      <4> TAKE c \in 1..Len(mem)
      <4>1. mem[c] \in Names
        BY DEF TypeOK
      <4> QED  BY <2>1, <4>1 DEF NameInv, Names, TempKinds
    <3>6. ASSUME NEW c \in 1..Len(mem'), NEW d \in 1..Len(mem'),
                 mem'[c] = mem'[d], mem'[c].k \in TempKinds
          PROVE  c = d
      BY <3>1, <3>3, <3>5, <3>6 DEF NameInv
    <3> QED  BY <3>4, <3>6 DEF NameInv
  <2>3. CASE ObjectName(t) /\ mode = "-c"
    <3>1. PICK b \in freed \cup {obj[t], Len(mem) + 1} :
              /\ freed' = (freed \cup {obj[t]}) \ {b} /\ 1..Len(mem') = 1..Len(mem) \cup {b}
              /\ mem'[b] = Out(idx[t])
              /\ \A c \in 1..Len(mem) : c # b => mem'[c] = mem[c]
      BY <2>3, ObjectNameEffect
    <3>2. pc[t] = "name" /\ obj[t] \in 1..Len(mem) /\ UNCHANGED <<mode, counter>>
      BY <2>3, ObjectNameEffect
    <3>3. mem[obj[t]].k = "o" /\ mem'[b].k = "out" /\ "out" \notin TempKinds
      BY <3>1, <3>2 DEF KindInv, Out, TempKinds
    <3>4. ASSUME NEW c \in 1..Len(mem')
          PROVE  /\ \/ mem'[c].k \in TempKinds /\ mem'[c].n < counter'
                    \/ mem'[c].k = "out" /\ mode' = "-c"
                 /\ c \in freed' => mem'[c].k = "o"
      BY <2>3, <3>1, <3>2, <3>3 DEF NameInv
    <3>5. ASSUME NEW c \in 1..Len(mem'), NEW d \in 1..Len(mem'),
                 mem'[c] = mem'[d], mem'[c].k \in TempKinds
          PROVE  c = d
      BY <3>1, <3>3, <3>5 DEF NameInv
    <3> QED  BY <3>4, <3>5 DEF NameInv
  <2>4. CASE ~Numbered(t) /\ ~(ObjectName(t) /\ mode = "-c")
    <3>1. UNCHANGED <<mode, mem, freed, counter>>
      BY <1>2, <2>4 DEF Worker, GetWork, GotWork, Optimize, RequestNumber, PoolAdd, Pooled,
         Emit, ObjectName, SystemCC, Store
    <3> QED  BY <3>1 DEF NameInv
  <2> QED  BY <2>2, <2>3, <2>4
<1> QED  BY <1>1, <1>2 DEF Next

\* A worker holds the kind of name that its place asks for.
LEMMA KindStep ==
    ASSUME TypeOK, LockInv, PhaseInv, HeapInv, KindInv, Next
    PROVE  KindInv'
<1>1. CASE Main \/ Ended
  <2>1. /\ UNCHANGED <<mode, mem, obj, kind>>
        /\ \A t \in Threads : pc'[t] = pc[t] \/ pc'[t] = "get"
    BY <1>1, MainFrame DEF Ended
  <2> QED  BY <2>1 DEF KindInv, Busy
<1>2. ASSUME NEW t \in Threads, Worker(t) PROVE KindInv'
  <2>0. /\ UNCHANGED mode /\ \A u \in Threads \ {t} : pc'[u] = pc[u] /\ kind'[u] = kind[u]
    BY <1>2, WorkerFrame
  <2>1. \A u \in Threads \ {t} : Holds(u) => obj'[u] = obj[u] /\ mem'[obj[u]] = mem[obj[u]]
    BY <1>2, NamesKept
  <2>2. ASSUME NEW u \in Threads \ {t}
        PROVE  /\ pc'[u] \in {"pool", "pooled"} => mem'[obj'[u]].k = kind'[u]
               /\ pc'[u] = "emit" => kind'[u] = "s" /\ mem'[obj'[u]].k = "s"
               /\ pc'[u] = "name" => kind'[u] = "o" /\ mem'[obj'[u]].k = "o"
               /\ pc'[u] = "cc" => /\ kind'[u] = "o"
                                   /\ mem'[obj'[u]].k = IF mode' = "-c" THEN "out" ELSE "o"
               /\ Busy(u)' /\ mode' = "-S" => pc'[u] \in {"optimize", "store"}
    BY <2>0, <2>1 DEF KindInv, Holds, Busy
  <2>3. pc \in [Threads -> WorkerPCs] /\ kind \in [Threads -> TempKinds]
    BY Scalars
  <2>4. /\ pc'[t] \in {"pool", "pooled"} => mem'[obj'[t]].k = kind'[t]
        /\ pc'[t] = "emit" => kind'[t] = "s" /\ mem'[obj'[t]].k = "s"
        /\ pc'[t] = "name" => kind'[t] = "o" /\ mem'[obj'[t]].k = "o"
        /\ pc'[t] = "cc" => /\ kind'[t] = "o"
                            /\ mem'[obj'[t]].k = IF mode' = "-c" THEN "out" ELSE "o"
        /\ Busy(t)' /\ mode' = "-S" => pc'[t] \in {"optimize", "store"}
    <3>1. CASE Numbered(t)
      <4>1. pc[t] = "numbered" /\ mode # "-S"
        BY <3>1, NumberedEffect DEF KindInv, Busy
      <4>2. /\ pc'[t] = "pool" /\ kind'[t] = kind[t]
            /\ mem'[obj'[t]] = Temp(kind[t], counter)
        BY <3>1, NumberedEffect
      <4> QED  BY <2>0, <4>1, <4>2 DEF Temp
    <3>2. CASE ObjectName(t) /\ mode = "-c"
      <4>1. kind[t] = "o"
        BY <3>2, ObjectNameEffect DEF KindInv
      <4>2. /\ pc'[t] = "cc" /\ kind'[t] = kind[t] /\ mem'[obj'[t]] = Out(idx[t])
        BY <3>2, ObjectNameEffect
      <4> QED  BY <2>0, <3>2, <4>1, <4>2 DEF Out
    <3>3. CASE Pooled(t)
      <4>1. /\ pc[t] = "pooled" /\ mem[obj[t]].k = kind[t] /\ kind[t] \in {"s", "o"} /\ mode # "-S"
            /\ UNCHANGED <<mem, obj, kind>> /\ pc'[t] = IF kind[t] = "s" THEN "emit" ELSE "name"
        BY <2>3, <3>3 DEF Pooled, At, Goto, KindInv, TempKinds, Busy
      <4> QED  BY <2>0, <4>1
    <3>4. CASE GetWork(t) \/ GotWork(t) \/ Optimize(t) \/ RequestNumber(t) \/ Emit(t)
              \/ SystemCC(t) \/ Store(t)
      <4>1. /\ pc'[t] \in {"got", "exit", "optimize", "number", "numbered", "store", "get", "cc"}
            /\ pc'[t] = "cc" => UNCHANGED <<pc, kind, mem, obj>>
        BY <2>3, <3>4 DEF GetWork, GotWork, Optimize, RequestNumber, Emit, SystemCC, Store, At, Goto
      <4>2. Busy(t)' /\ mode' = "-S" => pc'[t] \in {"optimize", "store"}
        BY <2>0, <2>3, <3>4 DEF GetWork, GotWork, Optimize, RequestNumber, Emit, SystemCC, Store,
           At, Goto, Busy, KindInv
      <4> QED  BY <2>0, <4>1, <4>2 DEF KindInv
    <3>5. CASE PoolAdd(t)
      <4>1. /\ pc[t] = "pool" /\ pc'[t] = "pooled" /\ UNCHANGED <<mem, obj, kind>> /\ mode # "-S"
        BY <2>3, <3>5 DEF PoolAdd, At, Goto, KindInv, Busy
      <4> QED  BY <2>0, <4>1 DEF KindInv
    <3>6. CASE ObjectName(t) /\ mode # "-c"
      <4>1. /\ pc[t] = "name" /\ pc'[t] = "cc" /\ UNCHANGED <<mem, obj, kind>> /\ mode # "-S"
        BY <2>3, <3>6 DEF ObjectName, At, Goto, KindInv, Busy
      <4> QED  BY <2>0, <3>6, <4>1 DEF KindInv
    <3> QED  BY <1>2, <3>1, <3>2, <3>3, <3>4, <3>5, <3>6 DEF Worker
  <2> QED  BY <2>2, <2>4 DEF KindInv
<1> QED  BY <1>1, <1>2 DEF Next

-----------------------------------------------------------------------------
(* Files.                                                                   *)

\* The file n is written, with module v.
Written(n, v) ==
    files' = [f \in DOMAIN files \cup {n} |-> IF f = n THEN v ELSE files[f]]

\* The three ways a worker writes a file: its output with -S, its assembly,
\* and what the system compiler makes of the assembly.
LEMMA FilesEffect ==
    ASSUME TypeOK, HeapInv, NameInv, KindInv, NEW t \in Threads, Worker(t)
    PROVE  \/ UNCHANGED files
           \/ Optimize(t) /\ mode = "-S" /\ Written(Out(idx[t]), idx[t])
           \/ /\ Emit(t) /\ Written(mem[obj[t]], idx[t])
              /\ mem[obj[t]].k = "s" /\ mem[obj[t]].n < counter /\ obj[t] \in 1..Len(mem)
           \/ /\ SystemCC(t) /\ Written(mem[obj[t]], files[asm[t]]) /\ obj[t] \in 1..Len(mem)
              /\ \/ mem[obj[t]].k = "o" /\ mode # "-c" /\ mem[obj[t]].n < counter
                 \/ mem[obj[t]].k = "out"
              /\ pc'[t] = "store"
<1>1. CASE Optimize(t)
  BY <1>1 DEF Optimize, Written
<1>2. CASE Emit(t)
  <2>1. pc[t] = "emit" /\ asm \in [Threads -> Names \cup {None}]
    BY <1>2, Scalars DEF Emit, At
  <2>2. obj[t] \in 1..Len(mem) /\ mem[obj[t]].k = "s"
    BY <2>1 DEF HeapInv, Holds, KindInv
  <2>3. mem[obj[t]].n < counter
    BY <2>2 DEF NameInv
  <2>4. asm'[t] = mem[obj[t]]
    BY <1>2, <2>1 DEF Emit
  <2>5. Written(mem[obj[t]], idx[t])
    BY <1>2, <2>4 DEF Emit, Written
  <2> QED  BY <1>2, <2>2, <2>3, <2>5
<1>3. CASE SystemCC(t)
  <2>1. pc[t] = "cc" /\ pc \in [Threads -> WorkerPCs]
    BY <1>3, Scalars DEF SystemCC, At
  <2>2. obj[t] \in 1..Len(mem) /\ mem[obj[t]].k = IF mode = "-c" THEN "out" ELSE "o"
    BY <2>1 DEF HeapInv, Holds, KindInv
  <2>3. mode # "-c" => mem[obj[t]].n < counter
    BY <2>2 DEF NameInv
  <2>4. UNCHANGED files \/ (Written(mem[obj[t]], files[asm[t]]) /\ pc'[t] = "store")
    BY <1>3, <2>1 DEF SystemCC, Goto, Written
  <2> QED  BY <1>3, <2>2, <2>3, <2>4
<1>4. CASE ~Optimize(t) /\ ~Emit(t) /\ ~SystemCC(t)
  BY <1>4 DEF Worker, GetWork, GotWork, RequestNumber, Numbered, PoolAdd, Pooled, ObjectName,
     Store
<1> QED  BY <1>1, <1>2, <1>3, <1>4

\* Nobody writes to a worker's assembly between the compiler and the
\* assembler.
LEMMA AsmStep ==
    ASSUME TypeOK, LockInv, PhaseInv, HeapInv, NameInv, KindInv, AsmInv, Next
    PROVE  AsmInv'
<1>1. CASE Main \/ Ended
  <2>1. /\ UNCHANGED <<idx, kind, asm, obj, counter, mem, mode>>
        /\ \A t \in Threads : pc'[t] = pc[t] \/ (pc[t] = "idle" /\ pc'[t] = "get")
        /\ UNCHANGED files \/ Teardown
    BY <1>1, MainFrame DEF Ended
  <2>2. \A t \in Threads : (Holds(t)' => Holds(t)) /\ (Assembled(t)' => Assembled(t))
    BY <2>1 DEF Holds, Assembled
  <2>3. CASE UNCHANGED files
    BY <2>1, <2>2, <2>3 DEF AsmInv
  <2>4. CASE Teardown
    <3>1. \A t \in Threads : ~Assembled(t)
      BY <2>4 DEF Teardown, PhaseInv, Assembled
    <3> QED  BY <2>2, <3>1 DEF AsmInv
  <2> QED  BY <2>1, <2>3, <2>4
<1>2. ASSUME NEW t \in Threads, Worker(t) PROVE AsmInv'
  <2>0. \A u \in Threads \ {t} : /\ idx'[u] = idx[u] /\ asm'[u] = asm[u]
                                 /\ Assembled(u)' <=> Assembled(u)
    BY <1>2, WorkerFrame DEF Assembled
  <2>1. /\ \A u \in Threads \ {t} : Holds(u)' <=> Holds(u)
        /\ \A u \in Threads \ {t} : Holds(u) =>
              obj'[u] = obj[u] /\ obj[u] \in 1..Len(mem) /\ mem'[obj[u]] = mem[obj[u]]
    BY <1>2, NamesKept
  <2>2. /\ pc \in [Threads -> WorkerPCs] /\ kind \in [Threads -> TempKinds] /\ counter \in Nat
        /\ asm \in [Threads -> Names \cup {None}] /\ idx \in [Threads -> Nat]
    BY Scalars
  <2>3. counter' \in {counter, counter + 1}
    <3>1. Numbered(t) => counter' = counter + 1
      BY NumberedEffect
    <3> QED
      BY <1>2, <3>1 DEF Worker, GetWork, GotWork, Optimize, RequestNumber, PoolAdd, Pooled,
         Emit, ObjectName, SystemCC, Store
  <2>4. ASSUME NEW u \in Threads, Assembled(u)
        PROVE  asm[u] \in Names /\ asm[u].n \in Nat /\ asm[u].n < counter'
    <3>1. asm[u] \in DOMAIN files /\ asm[u].n < counter /\ DOMAIN files \subseteq Names
      BY <2>4, Scalars DEF AsmInv
    <3>2. asm[u] \in Names /\ asm[u].n \in Nat
      BY <3>1 DEF Names
    <3> QED  BY <2>2, <2>3, <3>1, <3>2
  (* The file of a worker that does not move. *)
  <2>5. ASSUME NEW u \in Threads, Assembled(u), u # t \/ ~Emit(t)
        PROVE  asm[u] \in DOMAIN files' /\ files'[asm[u]] = idx[u]
    <3>1. asm[u] \in DOMAIN files /\ files[asm[u]] = idx[u] /\ asm[u].k = "s"
      BY <2>5 DEF AsmInv
    <3>2. CASE UNCHANGED files
      BY <3>1, <3>2
    <3>3. CASE Written(Out(idx[t]), idx[t])
      BY <3>1, <3>3 DEF Written, Out
    <3>4. CASE Emit(t) /\ Written(mem[obj[t]], idx[t])
      <4>1. Holds(t) /\ u # t
        BY <2>5, <3>4 DEF Emit, At, Holds
      <4>2. mem[obj[t]] # asm[u]
        BY <2>5, <4>1 DEF AsmInv
      <4> QED  BY <3>1, <3>4, <4>2 DEF Written
    <3>5. CASE Written(mem[obj[t]], files[asm[t]]) /\ mem[obj[t]].k \in {"o", "out"}
      BY <3>1, <3>5 DEF Written
    <3> QED  BY <1>2, <3>2, <3>3, <3>4, <3>5, FilesEffect
  (* The name of a worker that does not move. *)
  <2>6. ASSUME NEW u \in Threads \ {t}, Assembled(u)
        PROVE  /\ Assembled(t)' => asm'[t] # asm[u]
               /\ Holds(t)' => mem'[obj'[t]] # asm[u]
    <3>1. asm[u].k = "s" /\ asm[u].n < counter /\ (Holds(t) => mem[obj[t]] # asm[u])
          /\ (Assembled(t) => asm[t] # asm[u])
      BY <2>6 DEF AsmInv
    <3>2. CASE Numbered(t)
      <4>1. mem'[obj'[t]] = Temp(kind[t], counter) /\ asm'[t] = asm[t]
            /\ (Assembled(t)' => Assembled(t))
        BY <3>2, NumberedEffect DEF Assembled
      <4>2. mem'[obj'[t]].n = counter
        BY <4>1 DEF Temp
      <4> QED  BY <2>2, <2>4, <2>6, <3>1, <4>1, <4>2
    <3>3. CASE ObjectName(t)
      <4>1. asm'[t] = asm[t] /\ (Assembled(t)' => Assembled(t))
        BY <2>2, <3>3 DEF ObjectName, At, Assembled, KindInv
      <4>2. Holds(t)' => mem'[obj'[t]] # asm[u]
        <5>1. CASE mode = "-c"
          <6>1. mem'[obj'[t]] = Out(idx[t])
            BY <3>3, <5>1, ObjectNameEffect
          <6> QED  BY <3>1, <6>1 DEF Out
        <5>2. CASE mode # "-c"
          BY <3>1, <3>3, <5>2 DEF ObjectName, At, Holds
        <5> QED  BY <5>1, <5>2
      <4> QED  BY <3>1, <4>1, <4>2
    <3>4. CASE Emit(t)
      <4>1. /\ asm'[t] = mem[obj[t]] /\ Holds(t) /\ ~Holds(t)'
        BY <2>2, <3>4 DEF Emit, At, Goto, Holds
      <4> QED  BY <3>1, <4>1
    <3>5. CASE ~Numbered(t) /\ ~ObjectName(t) /\ ~Emit(t)
      <4>1. /\ UNCHANGED <<mem, asm>> /\ (Assembled(t)' => Assembled(t))
            /\ (Holds(t)' => Holds(t) /\ obj'[t] = obj[t])
        BY <1>2, <2>2, <3>5 DEF Worker, GetWork, GotWork, Optimize, RequestNumber, PoolAdd,
           Pooled, SystemCC, Store, At, Goto, Assembled, Holds
      <4> QED  BY <3>1, <4>1
    <3> QED  BY <3>2, <3>3, <3>4, <3>5
  (* The worker that moves. *)
  <2>7. ASSUME Assembled(t)'
        PROVE  /\ asm'[t] \in DOMAIN files' /\ files'[asm'[t]] = idx'[t]
               /\ asm'[t].k = "s" /\ asm'[t].n < counter'
               /\ \A u \in Threads \ {t} :
                     /\ Assembled(u) => asm[u] # asm'[t]
                     /\ Holds(u) => mem[obj[u]] # asm'[t]
    <3>1. CASE Emit(t)
      <4>1. /\ asm'[t] = mem[obj[t]] /\ pc[t] = "emit" /\ Holds(t) /\ UNCHANGED <<idx, counter>>
        BY <2>2, <3>1 DEF Emit, At, Holds
      <4>2. mem[obj[t]].k = "s" /\ mem[obj[t]].n < counter /\ Written(mem[obj[t]], idx[t])
            /\ obj[t] \in 1..Len(mem)
        <5>1. obj[t] \in 1..Len(mem) /\ mem[obj[t]].k = "s"
          BY <4>1 DEF HeapInv, KindInv
        <5>2. mem[obj[t]].n < counter
          BY <5>1 DEF NameInv
        <5>3. Written(mem[obj[t]], idx[t])
          BY <3>1, <4>1 DEF Emit, Written
        <5> QED  BY <5>1, <5>2, <5>3
      <4>3. \A u \in Threads \ {t} : Holds(u) => mem[obj[u]] # mem[obj[t]]
        <5>1. \A u \in Threads \ {t} : Holds(u) => obj[u] \in 1..Len(mem) /\ obj[u] # obj[t]
          BY <4>1 DEF HeapInv
        <5> QED  BY <4>2, <5>1 DEF NameInv, TempKinds
      <4>4. \A u \in Threads \ {t} : Assembled(u) => asm[u] # mem[obj[t]]
        BY <4>1 DEF AsmInv
      <4>5. asm'[t] \in DOMAIN files' /\ files'[asm'[t]] = idx'[t]
        BY <4>1, <4>2 DEF Written
      <4> QED  BY <4>1, <4>2, <4>3, <4>4, <4>5
    <3>2. CASE ~Emit(t)
      <4>1. Assembled(t) /\ UNCHANGED <<asm, idx>>
        BY <1>2, <2>2, <2>7, <3>2 DEF Worker, GetWork, GotWork, Optimize, RequestNumber,
           Numbered, PoolAdd, Pooled, ObjectName, SystemCC, Store, At, Goto, Assembled, KindInv,
           TempKinds
      <4>2. asm[t].n < counter' /\ asm[t] \in DOMAIN files' /\ files'[asm[t]] = idx[t]
        BY <2>4, <2>5, <3>2, <4>1
      <4> QED  BY <4>1, <4>2 DEF AsmInv
    <3> QED  BY <3>1, <3>2
  <2>8. ASSUME NEW u \in Threads \ {t}, Assembled(u)'
        PROVE  /\ asm'[u] \in DOMAIN files' /\ files'[asm'[u]] = idx'[u]
               /\ asm'[u].k = "s" /\ asm'[u].n < counter'
    BY <2>0, <2>4, <2>5, <2>8 DEF AsmInv
  <2>9. ASSUME NEW u \in Threads \ {t}, Assembled(u)', NEW v \in Threads \ {u}
        PROVE  /\ Assembled(v)' => asm'[v] # asm'[u]
               /\ Holds(v)' => mem'[obj'[v]] # asm'[u]
    <3>1. CASE v = t
      BY <2>0, <2>6, <2>9, <3>1
    <3>2. CASE v # t
      BY <2>0, <2>1, <2>9, <3>2 DEF AsmInv
    <3> QED  BY <3>1, <3>2
  <2>10. ASSUME Assembled(t)', NEW u \in Threads \ {t}
         PROVE  /\ Assembled(u)' => asm'[u] # asm'[t]
                /\ Holds(u)' => mem'[obj'[u]] # asm'[t]
    BY <2>0, <2>1, <2>7, <2>10
  <2> QED  BY <2>7, <2>8, <2>9, <2>10 DEF AsmInv
<1> QED  BY <1>1, <1>2 DEF Next

\* A temporary file is in the pool when it is written, and the pool's entry
\* keeps its name as long as the file may exist.
LEMMA PoolStep ==
    ASSUME TypeOK, LockInv, PhaseInv, HeapInv, NameInv, KindInv, PoolInv, Next
    PROVE  PoolInv'
<1>1. CASE Main \/ Ended
  <2>1. /\ UNCHANGED <<mode, obj, counter, mem, pool>>
        /\ \A t \in Threads : pc'[t] = pc[t] \/ pc'[t] = "get"
        /\ UNCHANGED files \/ Teardown
    BY <1>1, MainFrame DEF Ended
  <2>2. \A f \in DOMAIN files' : f \in DOMAIN files
    BY <2>1 DEF Teardown
  <2> QED  BY <2>1, <2>2 DEF PoolInv
<1>2. ASSUME NEW t \in Threads, Worker(t) PROVE PoolInv'
  <2>1. /\ pc \in [Threads -> WorkerPCs] /\ counter \in Nat /\ Len(mem) \in Nat
        /\ Len(pool) \in Nat /\ freed \subseteq 1..Len(mem) /\ kind \in [Threads -> TempKinds]
        /\ pool \in Seq(1..Len(mem)) /\ mem \in Seq(Names) /\ DOMAIN files \subseteq Names
    BY Scalars DEF TypeOK
  <2>2. UNCHANGED mode /\ \A u \in Threads \ {t} : pc'[u] = pc[u] /\ obj'[u] = obj[u]
    BY <1>2, WorkerFrame
  <2>3. /\ \A c \in (1..Len(mem)) \ (freed \cup {obj[t]}) : mem'[c] = mem[c]
        /\ mode # "-c" => \A c \in 1..Len(mem) : mem'[c] = mem[c]
    BY <1>2, NamesKept
  (* The pool only grows, by what the worker holds. *)
  <2>4. /\ \A i \in 1..Len(pool) : i \in 1..Len(pool') /\ pool'[i] = pool[i]
        /\ Pooled(t) => \E i \in 1..Len(pool') : pool'[i] = obj[t]
    <3>1. CASE Pooled(t)
      <4>1. rd[t] = Len(pool) /\ obj[t] \in 1..Len(mem)
        BY <3>1 DEF Pooled, At, LockInv, HeapInv, Holds
      <4>2. pool' = Append(pool, obj[t])
        BY <2>1, <3>1, <4>1, SubSeqFull DEF Pooled
      <4> QED  BY <2>1, <4>1, <4>2, AppendProperties
    <3>2. CASE ~Pooled(t)
      <4>1. UNCHANGED pool
        BY <1>2, <3>2 DEF Worker, GetWork, GotWork, Optimize, RequestNumber, Numbered, PoolAdd,
           Emit, ObjectName, SystemCC, Store
      <4> QED  BY <3>2, <4>1
    <3> QED  BY <3>1, <3>2
  (* The temporary names that are overwritten are not names of files. *)
  <2>5. ASSUME NEW i \in 1..Len(pool), mem[pool[i]] \in DOMAIN files,
               mem[pool[i]].k \in TempKinds
        PROVE  mem'[pool[i]] = mem[pool[i]]
    <3>1. pool[i] \in 1..Len(mem)
      BY <2>1
    <3>2. CASE mode # "-c"
      BY <2>3, <3>1, <3>2
    <3>3. CASE mode = "-c"
      <4>1. mem[pool[i]].k = "s"
        BY <2>5, <3>3 DEF PoolInv, TempKinds
      <4>2. pool[i] \notin freed
        BY <3>1, <4>1 DEF NameInv
      <4>3. CASE ObjectName(t)
        <5>1. mem[obj[t]].k = "o"
          BY <4>3 DEF ObjectName, At, KindInv
        <5> QED  BY <2>3, <3>1, <4>1, <4>2, <5>1
      <4>4. CASE Numbered(t)
        BY <2>1, <3>1, <4>2, <4>4, NumberedEffect
      <4>5. CASE ~ObjectName(t) /\ ~Numbered(t)
        BY <1>2, <4>5 DEF Worker, GetWork, GotWork, Optimize, RequestNumber, PoolAdd, Pooled,
           Emit, SystemCC, Store
      <4> QED  BY <4>3, <4>4, <4>5
    <3> QED  BY <3>2, <3>3
  <2>6. ASSUME NEW u \in Threads,
               pc'[u] \in {"emit", "name"} \/ (pc'[u] = "cc" /\ mode' # "-c")
        PROVE  \E i \in 1..Len(pool') : pool'[i] = obj'[u]
    <3>1. CASE u # t \/ (ObjectName(t) /\ mode # "-c")
      <4>1. obj'[u] = obj[u]
        BY <2>2, <3>1 DEF ObjectName
      <4>2. pc[u] \in {"emit", "name"} \/ (pc[u] = "cc" /\ mode # "-c")
        BY <2>2, <2>6, <3>1 DEF ObjectName, At
      <4> QED  BY <2>4, <4>1, <4>2 DEF PoolInv
    <3>2. CASE u = t /\ Pooled(t)
      <4>1. obj'[t] = obj[t]
        BY <3>2 DEF Pooled
      <4> QED  BY <2>4, <3>2, <4>1
    <3>3. CASE u = t /\ SystemCC(t)
      <4>1. obj'[t] = obj[t] /\ pc[t] = "cc" /\ pc'[t] \in {"cc", "store"}
        BY <2>1, <3>3 DEF SystemCC, At, Goto
      <4> QED  BY <2>2, <2>4, <2>6, <3>3, <4>1 DEF PoolInv
    <3>4. CASE u = t /\ ~(ObjectName(t) /\ mode # "-c") /\ ~Pooled(t) /\ ~SystemCC(t)
      <4>1. pc'[t] \notin {"emit", "name"} /\ ~(pc'[t] = "cc" /\ mode # "-c")
        BY <1>2, <2>1, <3>4 DEF Worker, GetWork, GotWork, Optimize, RequestNumber, Numbered,
           PoolAdd, Emit, ObjectName, Store, Goto
      <4> QED  BY <2>2, <2>6, <3>4, <4>1
    <3> QED  BY <3>1, <3>2, <3>3, <3>4
  <2>7. counter' \in {counter, counter + 1}
    <3>1. Numbered(t) => counter' = counter + 1
      BY NumberedEffect
    <3> QED
      BY <1>2, <3>1 DEF Worker, GetWork, GotWork, Optimize, RequestNumber, PoolAdd, Pooled,
         Emit, ObjectName, SystemCC, Store
  (* The files that were there. *)
  <2>8. ASSUME NEW f \in DOMAIN files, f.k \in TempKinds
        PROVE  f.n < counter' /\ \E i \in 1..Len(pool') : mem'[pool'[i]] = f
    <3>1. f.n < counter /\ f.n \in Nat
      BY <2>1, <2>8 DEF PoolInv, Names
    <3>2. PICK i \in 1..Len(pool) : mem[pool[i]] = f
      BY <2>8 DEF PoolInv
    <3>3. mem'[pool[i]] = f
      BY <2>5, <2>8, <3>2
    <3>4. i \in 1..Len(pool') /\ mem'[pool'[i]] = f
      BY <2>4, <3>3
    <3>5. f.n < counter'
      BY <2>1, <2>7, <3>1
    <3> QED  BY <3>4, <3>5
  (* The file that is written. *)
  <2>9. ASSUME NEW f \in DOMAIN files', f \notin DOMAIN files
        PROVE  /\ f.k \in TempKinds =>
                     f.n < counter' /\ \E i \in 1..Len(pool') : mem'[pool'[i]] = f
               /\ mode = "-c" => f.k # "o"
    <3>1. CASE UNCHANGED files
      BY <2>9, <3>1
    <3>2. CASE Written(Out(idx[t]), idx[t])
      <4>1. f.k = "out"
        BY <2>9, <3>2 DEF Written, Out
      <4> QED  BY <4>1 DEF TempKinds
    <3>3. CASE /\ Emit(t) \/ SystemCC(t)
               /\ f = mem[obj[t]] /\ obj[t] \in 1..Len(mem)
               /\ \/ f.k = "s" /\ f.n < counter /\ Emit(t)
                  \/ f.k = "o" /\ f.n < counter /\ mode # "-c" /\ SystemCC(t)
                  \/ f.k = "out"
      <4>1. UNCHANGED <<mem, pool, counter>>
        BY <3>3 DEF Emit, SystemCC
      <4>2. f.k \in TempKinds => \E i \in 1..Len(pool) : pool[i] = obj[t]
        BY <3>3 DEF Emit, SystemCC, At, PoolInv, TempKinds
      <4> QED  BY <3>3, <4>1, <4>2 DEF TempKinds
    <3> QED
      <4>1. UNCHANGED files \/ Written(Out(idx[t]), idx[t])
            \/ \E v : /\ Written(mem[obj[t]], v) /\ obj[t] \in 1..Len(mem)
                      /\ \/ Emit(t) /\ mem[obj[t]].k = "s" /\ mem[obj[t]].n < counter
                         \/ /\ SystemCC(t)
                            /\ \/ mem[obj[t]].k = "o" /\ mode # "-c" /\ mem[obj[t]].n < counter
                               \/ mem[obj[t]].k = "out"
        BY <1>2, FilesEffect
      <4>2. (\E v : Written(mem[obj[t]], v)) => f = mem[obj[t]]
        BY <2>9 DEF Written
      <4> QED  BY <3>1, <3>2, <3>3, <4>1, <4>2
  <2>10. ASSUME mode = "-c", NEW f \in DOMAIN files PROVE f.k # "o"
    BY <2>10 DEF PoolInv
  <2> QED  BY <2>2, <2>6, <2>8, <2>9, <2>10 DEF PoolInv
<1> QED  BY <1>1, <1>2 DEF Next

\* No worker touches the object files of the command line.
LEMMA FileStep ==
    ASSUME TypeOK, PhaseInv, HeapInv, NameInv, KindInv, AsmInv, FileInv, Next
    PROVE  FileInv'
<1>1. CASE Main \/ Ended
  <2>1. UNCHANGED files \/ Teardown
    BY <1>1, MainFrame DEF Ended
  <2>2. CASE UNCHANGED files
    BY <2>2 DEF FileInv
  <2>3. CASE Teardown
    <3>1. \A i \in 1..Len(pool) : pool[i] \in 1..Len(mem)
      <4>1. pool \in Seq(1..Len(mem))
        BY DEF TypeOK
      <4> QED  BY <4>1
    <3>2. \A i \in 1..Len(pool), j \in 1..NGiven : mem[pool[i]] # Given(j)
      BY <3>1 DEF NameInv, TempKinds, Given
    <3> QED  BY <2>3, <3>2 DEF Teardown, FileInv
  <2> QED  BY <2>1, <2>2, <2>3
<1>2. ASSUME NEW t \in Threads, Worker(t) PROVE FileInv'
  <2>1. UNCHANGED files \/ \E n, v : Written(n, v) /\ v \in Nat /\ n.k \in {"s", "o", "out"}
    <3>1. idx[t] \in Nat /\ Out(idx[t]).k = "out"
      BY Scalars DEF Out
    <3>2. SystemCC(t) => files[asm[t]] \in Nat
      <4>1. SystemCC(t) => Assembled(t)
        BY DEF SystemCC, At, Assembled, KindInv
      <4> QED  BY <4>1 DEF AsmInv, FileInv
    <3> QED  BY <1>2, <3>1, <3>2, FilesEffect
  <2>2. CASE UNCHANGED files
    BY <2>2 DEF FileInv
  <2>3. ASSUME NEW n, NEW v, Written(n, v), v \in Nat, n.k \in {"s", "o", "out"}
        PROVE  FileInv'
    <3>1. \A i \in 1..NGiven : Given(i) # n
      BY <2>3 DEF Given
    <3> QED  BY <2>3, <3>1 DEF Written, FileInv
  <2> QED  BY <2>1, <2>2, <2>3
<1> QED  BY <1>1, <1>2 DEF Next

-----------------------------------------------------------------------------
(* What is linked.                                                          *)

\* To be linked, an object file that a worker made stays as it was: only the
\* worker that holds its name writes it.
LEMMA ObjectsKept ==
    ASSUME TypeOK, LockInv, PhaseInv, HeapInv, NameInv, KindInv, NEW t \in Threads, Worker(t),
           mode = "link"
    PROVE  /\ \A b \in 1..Len(mem) : b \in 1..Len(mem') /\ mem'[b] = mem[b]
           /\ \A b \in 1..Len(mem) : mem[b].k = "o" /\ b # obj[t] =>
                 /\ mem[b] \in DOMAIN files' <=> mem[b] \in DOMAIN files
                 /\ mem[b] \in DOMAIN files => files'[mem[b]] = files[mem[b]]
           /\ \A n : n.k = "o" /\ ~SystemCC(t) =>
                 /\ n \in DOMAIN files' <=> n \in DOMAIN files
                 /\ n \in DOMAIN files => files'[n] = files[n]
<1>1. \A b \in 1..Len(mem) : b \in 1..Len(mem') /\ mem'[b] = mem[b]
  BY NamesKept
<1>2. \/ UNCHANGED files
      \/ \E v : Emit(t) /\ Written(mem[obj[t]], v) /\ mem[obj[t]].k = "s"
      \/ \E v : SystemCC(t) /\ Written(mem[obj[t]], v) /\ obj[t] \in 1..Len(mem)
  BY FilesEffect
<1>3. CASE UNCHANGED files
  BY <1>1, <1>3
<1>4. ASSUME NEW v, Written(mem[obj[t]], v), mem[obj[t]].k = "s"
      PROVE  \A n : n.k = "o" =>
                 /\ n \in DOMAIN files' <=> n \in DOMAIN files
                 /\ n \in DOMAIN files => files'[n] = files[n]
  BY <1>4 DEF Written
<1>5. ASSUME NEW v, SystemCC(t), Written(mem[obj[t]], v), obj[t] \in 1..Len(mem)
      PROVE  \A b \in 1..Len(mem) : mem[b].k = "o" /\ b # obj[t] =>
                 /\ mem[b] \in DOMAIN files' <=> mem[b] \in DOMAIN files
                 /\ mem[b] \in DOMAIN files => files'[mem[b]] = files[mem[b]]
  <2> TAKE b \in 1..Len(mem)
  <2> HAVE mem[b].k = "o" /\ b # obj[t]
  <2>1. mem[b] # mem[obj[t]]
    BY <1>5 DEF NameInv, TempKinds
  <2> QED  BY <1>5, <2>1 DEF Written
<1> QED  BY <1>1, <1>2, <1>3, <1>4, <1>5

\* What the system compiler leaves: the object file holds the module that was
\* claimed, or is missing.
LEMMA ObjectMade ==
    ASSUME TypeOK, HeapInv, NameInv, KindInv, AsmInv, ResultInv, NEW t \in Threads,
           SystemCC(t), mode = "link", pc'[t] = "store"
    PROVE  Result(obj[t], idx[t])'
<1>1. pc[t] = "cc" /\ UNCHANGED <<obj, idx, mem>>
  BY DEF SystemCC, At
<1>2. obj[t] \in 1..Len(mem) /\ mem[obj[t]].k = "o"
  BY <1>1 DEF HeapInv, Holds, KindInv
<1>3. Holds(t) /\ Assembled(t)
  BY <1>1 DEF Holds, Assembled, KindInv
<1>4. files[asm[t]] = idx[t]
  BY <1>3 DEF AsmInv
<1>5. mem[obj[t]] \notin DOMAIN files
  BY <1>1, <1>2, <1>3 DEF ResultInv
<1>6. UNCHANGED files \/ Written(mem[obj[t]], idx[t])
  BY <1>4 DEF SystemCC, Written
<1> QED  BY <1>1, <1>2, <1>5, <1>6 DEF Result, Written

\* Every result that is stored, or about to be, is the module's own.
LEMMA ResultStep ==
    ASSUME TypeOK, LockInv, PhaseInv, ClaimInv, HeapInv, NameInv, KindInv, AsmInv, PoolInv,
           ResultInv, Next
    PROVE  ResultInv'
<1> SUFFICES ASSUME mode' = "link" PROVE ResultInv'
  BY DEF ResultInv
<1>1. CASE Main \/ Ended
  <2>1. /\ UNCHANGED <<mode, idx, obj, mem>>
        /\ \A t \in Threads : pc'[t] = pc[t] \/ (pc[t] = "idle" /\ pc'[t] = "get")
        /\ UNCHANGED files \/ Teardown
    BY <1>1, MainFrame DEF Ended
  <2>2. \A t \in Threads : (Holds(t)' => Holds(t)) /\ (pc'[t] = "store" => pc[t] = "store")
    BY <2>1 DEF Holds
  <2>3. \A f : /\ f \in DOMAIN files' => f \in DOMAIN files
               /\ f \in DOMAIN files' => files'[f] = files[f]
    BY <2>1 DEF Teardown
  <2>4. \A b, i : Result(b, i) => Result(b, i)'
    BY <2>1, <2>3 DEF Result
  <2>5. CASE UNCHANGED outputs
    BY <2>1, <2>2, <2>3, <2>4, <2>5 DEF ResultInv
  <2>6. CASE CompileRuntime
    <3>1. \A t \in Threads : ~Holds(t) /\ pc[t] # "store"
      BY <2>6 DEF CompileRuntime, PhaseInv, Holds
    <3>2. work' \in Seq(Nat)
      <4>1. work \in Seq(Nat) /\ Len(work) + 1 \in Nat
        BY DEF TypeOK
      <4> QED  BY <2>6, <4>1 DEF CompileRuntime
    <3>3. \A i \in 1..Len(outputs') : outputs'[i] = Uninit
      BY <2>6, <3>2 DEF CompileRuntime
    <3> QED  BY <2>2, <3>1, <3>3 DEF ResultInv
  <2>7. UNCHANGED outputs \/ CompileRuntime
    BY <1>1, SpawnEffect DEF Main, Ended, Compile, Join, Link, Teardown
  <2> QED  BY <2>5, <2>6, <2>7
<1>2. ASSUME NEW t \in Threads, Worker(t) PROVE ResultInv'
  <2> DEFINE After(b, i) == /\ b \in 1..Len(mem') /\ mem'[b].k = "o"
                            /\ mem'[b] \in DOMAIN files' => files'[mem'[b]] = i
  <2>0. /\ mode = "link" /\ UNCHANGED mode
        /\ \A u \in Threads \ {t} : pc'[u] = pc[u] /\ idx'[u] = idx[u] /\ obj'[u] = obj[u]
        /\ \A u \in Threads \ {t} : Holds(u)' <=> Holds(u)
    BY <1>2, WorkerFrame DEF Holds
  <2>1. /\ pc \in [Threads -> WorkerPCs] /\ counter \in Nat /\ Len(mem) \in Nat
        /\ Len(outputs) \in Nat /\ outputs \in Seq(Nat \cup {None})
        /\ obj \in [Threads -> Nat \cup {None}] /\ idx \in [Threads -> Nat]
    BY Scalars DEF TypeOK
  <2>2. /\ \A b \in 1..Len(mem) : b \in 1..Len(mem') /\ mem'[b] = mem[b]
        /\ \A b \in 1..Len(mem) : mem[b].k = "o" /\ b # obj[t] =>
                 /\ mem[b] \in DOMAIN files' <=> mem[b] \in DOMAIN files
                 /\ mem[b] \in DOMAIN files => files'[mem[b]] = files[mem[b]]
        /\ \A n : n.k = "o" /\ ~SystemCC(t) =>
                 /\ n \in DOMAIN files' <=> n \in DOMAIN files
                 /\ n \in DOMAIN files => files'[n] = files[n]
    BY <1>2, <2>0, ObjectsKept
  <2>3. \A b, i : Result(b, i) /\ (b # obj[t] \/ ~SystemCC(t)) => After(b, i)
    BY <2>2 DEF Result
  <2>4. \A u \in Threads : Holds(u) => obj[u] \in 1..Len(mem)
    BY DEF HeapInv
  <2>5. \A u \in Threads \ {t} : Holds(u) /\ Holds(t) => obj[u] # obj[t]
    BY DEF HeapInv
  <2>6. SystemCC(t) => Holds(t) /\ UNCHANGED <<obj, idx, mem, outputs>>
    BY DEF SystemCC, At, Holds
  (* Stored results. *)
  <2>7. ASSUME NEW i \in 1..Len(outputs'), outputs'[i] # Uninit
        PROVE  After(outputs'[i], i)
    <3>1. CASE Store(t)
      <4>1. outputs' = [outputs EXCEPT ![idx[t]] = obj[t]] /\ pc[t] = "store" /\ ~SystemCC(t)
        BY <3>1 DEF Store, At, SystemCC
      <4>2. After(obj[t], idx[t])
        <5>1. Result(obj[t], idx[t])
          BY <2>0, <4>1 DEF ResultInv
        <5> QED  BY <2>3, <4>1, <5>1
      <4>3. CASE i = idx[t]
        BY <2>1, <2>7, <4>1, <4>2, <4>3
      <4>4. CASE i # idx[t]
        <5>1. i \in 1..Len(outputs) /\ outputs'[i] = outputs[i]
          BY <2>1, <2>7, <4>1, <4>4
        <5>2. Result(outputs[i], i)
          BY <2>0, <2>7, <5>1 DEF ResultInv
        <5> QED  BY <2>3, <4>1, <5>1, <5>2
      <4> QED  BY <4>3, <4>4
    <3>2. CASE ~Store(t)
      <4>1. UNCHANGED outputs
        BY <1>2, <3>2 DEF Worker, GetWork, GotWork, Optimize, RequestNumber, Numbered, PoolAdd,
           Pooled, Emit, ObjectName, SystemCC
      <4>2. Holds(t) => outputs[i] # obj[t]
        BY <2>0, <2>7, <4>1 DEF ResultInv
      <4>3. Result(outputs[i], i)
        BY <2>0, <2>7, <4>1 DEF ResultInv
      <4> QED  BY <2>3, <2>6, <4>1, <4>2, <4>3
    <3> QED  BY <3>1, <3>2
  (* Results that are about to be stored. *)
  <2>8. ASSUME NEW u \in Threads, pc'[u] = "store"
        PROVE  After(obj'[u], idx'[u])
    <3>1. CASE u # t
      <4>1. pc[u] = "store" /\ Holds(u) /\ obj'[u] = obj[u] /\ idx'[u] = idx[u]
        BY <2>0, <2>8, <3>1 DEF Holds
      <4>2. Result(obj[u], idx[u])
        BY <2>0, <4>1 DEF ResultInv
      <4>3. obj[u] # obj[t] \/ ~SystemCC(t)
        BY <2>5, <2>6, <3>1, <4>1
      <4> QED  BY <2>3, <4>1, <4>2, <4>3
    <3>2. CASE u = t
      <4>1. SystemCC(t)
        BY <1>2, <2>0, <2>1, <2>8, <3>2 DEF Worker, GetWork, GotWork, Optimize, RequestNumber,
           Numbered, PoolAdd, Pooled, Emit, ObjectName, Store, Goto
      <4>2. Result(obj[t], idx[t])'
        BY <2>0, <2>8, <3>2, <4>1, ObjectMade
      <4> QED  BY <3>2, <4>2 DEF Result
    <3> QED  BY <3>1, <3>2
  (* An object file that is not made yet does not exist. *)
  <2>9. ASSUME NEW u \in Threads, Holds(u)', pc'[u] # "store", mem'[obj'[u]].k = "o"
        PROVE  mem'[obj'[u]] \notin DOMAIN files'
    <3>1. CASE u # t
      <4>1. /\ Holds(u) /\ pc[u] # "store" /\ obj'[u] = obj[u] /\ mem'[obj[u]] = mem[obj[u]]
            /\ obj[u] \in 1..Len(mem)
        BY <2>0, <2>2, <2>4, <2>9, <3>1
      <4>2. mem[obj[u]] \notin DOMAIN files
        BY <2>0, <2>9, <4>1 DEF ResultInv
      <4>3. obj[u] # obj[t] \/ ~SystemCC(t)
        BY <2>5, <2>6, <3>1, <4>1
      <4> QED  BY <2>2, <2>9, <4>1, <4>2, <4>3
    <3>2. CASE u = t /\ Numbered(t)
      <4>1. /\ mem'[obj'[t]] = Temp(kind[t], counter) /\ UNCHANGED files
        BY <3>2, NumberedEffect
      <4>2. mem'[obj'[t]].n = counter /\ mem'[obj'[t]].k \in TempKinds
        BY <4>1, Scalars DEF Temp
      <4>3. \A f \in DOMAIN files : f.k \in TempKinds => f.n < counter
        BY DEF PoolInv
      <4> QED  BY <2>1, <3>2, <4>1, <4>2, <4>3
    <3>3. CASE u = t /\ ~Numbered(t)
      <4>1. /\ Holds(t) /\ pc[t] # "store" /\ obj'[t] = obj[t]
            /\ UNCHANGED mem /\ (~SystemCC(t) \/ UNCHANGED files)
        <5>1. /\ UNCHANGED mem /\ pc'[t] \in {"pool", "pooled", "emit", "name", "cc", "store"}
          BY <1>2, <2>0, <2>9, <3>3 DEF Worker, GetWork, GotWork, Optimize, RequestNumber,
             PoolAdd, Pooled, Emit, ObjectName, SystemCC, Store, Holds
        <5>2. PoolAdd(t) \/ Pooled(t) \/ ObjectName(t) \/ SystemCC(t)
          BY <1>2, <2>0, <2>1, <2>9, <3>3, <5>1 DEF Worker, GetWork, GotWork, Optimize,
             RequestNumber, Emit, Store, At, Goto
        <5>3. SystemCC(t) => UNCHANGED <<files, obj>> /\ Holds(t) /\ pc[t] # "store"
          BY <2>1, <2>9, <3>3 DEF SystemCC, Goto, At, Holds
        <5> QED  BY <2>0, <5>1, <5>2, <5>3 DEF PoolAdd, Pooled, ObjectName, At, Holds, SystemCC
      <4>2. mem[obj[t]] \notin DOMAIN files
        BY <2>0, <2>9, <3>3, <4>1 DEF ResultInv
      <4> QED  BY <2>2, <2>9, <3>3, <4>1, <4>2
    <3> QED  BY <3>1, <3>2, <3>3
  (* A stored name belongs to no worker. *)
  <2>10. ASSUME NEW u \in Threads, NEW i \in 1..Len(outputs'), Holds(u)'
         PROVE  outputs'[i] # obj'[u]
    <3>1. CASE Store(t)
      <4>1. /\ outputs' = [outputs EXCEPT ![idx[t]] = obj[t]] /\ pc[t] = "store"
            /\ pc'[t] = "get"
        BY <2>1, <3>1 DEF Store, At, Goto
      <4>2. Holds(t) /\ ~Holds(t)' /\ u # t
        BY <2>0, <2>10, <4>1 DEF Holds
      <4>3. obj'[u] = obj[u] /\ Holds(u) /\ obj[u] # obj[t]
        BY <2>0, <2>5, <2>10, <4>2
      <4>4. i \in 1..Len(outputs) /\ outputs'[i] \in {outputs[i], obj[t]}
        BY <2>1, <4>1
      <4> QED  BY <2>0, <4>3, <4>4 DEF ResultInv
    <3>2. CASE Numbered(t) /\ u = t
      <4>1. obj'[t] \in freed \cup {Len(mem) + 1} /\ obj'[t] # Uninit /\ UNCHANGED outputs
        BY <3>2, NumberedEffect
      <4>2. freed = {}
        BY <2>0 DEF HeapInv
      <4>3. outputs[i] # Uninit => outputs[i] \in 1..Len(mem)
        BY <2>0, <4>1 DEF ResultInv, Result
      <4> QED  BY <2>1, <3>2, <4>1, <4>2, <4>3
    <3>3. CASE ~Store(t) /\ ~(Numbered(t) /\ u = t)
      <4>1. UNCHANGED outputs
        BY <1>2, <3>3, NumberedEffect DEF Worker, GetWork, GotWork, Optimize, RequestNumber,
           PoolAdd, Pooled, Emit, ObjectName, SystemCC
      <4>2. Holds(u) /\ obj'[u] = obj[u]
        <5>1. CASE u # t
          BY <2>0, <2>10, <5>1
        <5>2. CASE u = t
          BY <1>2, <2>0, <2>1, <2>10, <3>3, <5>2 DEF Worker, GetWork, GotWork, Optimize,
             RequestNumber, PoolAdd, Pooled, Emit, ObjectName, SystemCC, At, Goto, Holds
        <5> QED  BY <5>1, <5>2
      <4> QED  BY <2>0, <4>1, <4>2 DEF ResultInv
    <3> QED  BY <3>1, <3>2, <3>3
  <2>11. \A i \in 1..Len(outputs') : outputs'[i] # Uninit => Result(outputs[i], i)'
    BY <2>7 DEF Result
  <2>12. \A u \in Threads : pc'[u] = "store" => Result(obj[u], idx[u])'
    BY <2>8 DEF Result
  <2> QED  BY <2>9, <2>10, <2>11, <2>12 DEF ResultInv
<1> QED  BY <1>1, <1>2 DEF Next

\* The linker is given the objects of the command line and then one object
\* per module, in the order of the work list.
LEMMA ObjectStep ==
    ASSUME TypeOK, PhaseInv, ClaimInv', ResultInv, ObjectInv, Next
    PROVE  ObjectInv'
<1>1. CASE Compile \/ CompileRuntime
  BY <1>1 DEF Compile, CompileRuntime, ObjectInv
<1>2. ASSUME NEW t \in Threads, Spawn(t) PROVE ObjectInv'
  BY <1>2, SpawnEffect DEF ObjectInv
<1>3. CASE Join /\ mode # "link"
  BY <1>3 DEF Join, ObjectInv
<1>4. CASE Join /\ mode = "link"
  <2>1. main = "spawn" /\ main' = "link" /\ UNCHANGED <<work, outputs, mem>>
    BY <1>4 DEF Join
  <2>2. Len(outputs) = Len(work) /\ Len(work) \in Nat
    BY <2>1, Scalars DEF PhaseInv
  <2>3. \A i \in 1..Len(work) : outputs[i] # Uninit
    BY <2>1, <2>2 DEF ClaimInv
  <2>4. \A i \in 1..Len(work) : outputs[i] \in 1..Len(mem)
    BY <1>4, <2>2, <2>3 DEF ResultInv, Result
  <2>5. \A i \in 1..Len(work) : Deref(outputs[i]) = mem[outputs[i]]
    BY <2>4 DEF Deref
  <2>6. DEFINE tail == [i \in 1..Len(work) |-> Deref(outputs[i])]
               head == [i \in 1..NGiven |-> Given(i)]
  <2>7. objects = head /\ objects' = objects \o tail
    BY <1>4 DEF Join, ObjectInv
  <2>8. \A i \in 1..Len(work) : mem[outputs[i]] \in Names
    <3>1. mem \in Seq(Names)
      BY DEF TypeOK
    <3> QED  BY <2>4, <3>1
  <2>9. tail \in Seq(Names) /\ Len(tail) = Len(work)
    BY <2>2, <2>5, <2>8
  <2>10. head \in Seq(Names) /\ Len(head) = NGiven
    BY ShippingAssumption DEF Given, Names
  <2> HIDE DEF tail, head
  <2>11. /\ Len(head \o tail) = Len(head) + Len(tail)
         /\ \A i \in 1..Len(head) : (head \o tail)[i] = head[i]
         /\ \A i \in 1..Len(tail) : (head \o tail)[Len(head) + i] = tail[i]
    <3>1. /\ Len(head \o tail) = Len(head) + Len(tail)
          /\ \A i \in 1..(Len(head) + Len(tail)) :
                (head \o tail)[i] = IF i <= Len(head) THEN head[i] ELSE tail[i - Len(head)]
      BY <2>9, <2>10, ConcatProperties
    <3>2. Len(head) \in Nat /\ Len(tail) \in Nat
      BY <2>9, <2>10, LenProperties
    <3> QED  BY <3>1, <3>2
  <2>12. (\A i \in 1..Len(work) : tail[i] = mem[outputs[i]]) /\ \A i \in 1..NGiven : head[i] = Given(i)
    BY <2>5 DEF tail, head
  <2>13. /\ Len(objects') = NGiven + Len(work')
         /\ \A i \in 1..NGiven : objects'[i] = Given(i)
         /\ \A i \in 1..Len(work') : objects'[NGiven + i] = mem'[outputs'[i]]
    BY <2>1, <2>7, <2>9, <2>10, <2>11, <2>12
  <2> QED  BY <2>1, <2>13 DEF ObjectInv
<1>5. CASE Link \/ Teardown \/ Ended
  BY <1>5 DEF Link, Teardown, Ended, ObjectInv
<1>6. ASSUME NEW t \in Threads, Worker(t) PROVE ObjectInv'
  BY <1>6, WorkerFrame DEF ObjectInv
<1> QED  BY <1>1, <1>2, <1>3, <1>4, <1>5, <1>6 DEF Next, Main

-----------------------------------------------------------------------------
(* The invariant.                                                           *)

\* The invariant holds before the first file is compiled.
LEMMA InitInv == Init => IInv
<1> SUFFICES ASSUME Init PROVE IInv
  OBVIOUS
<1> USE ShippingAssumption DEF Init
<1>1. Len(mem) = 0 /\ Len(pool) = 0 /\ Len(outputs) = 0 /\ Len(work) = 0
  OBVIOUS
<1>2. TypeOK
  <2>1. \A i \in 1..NGiven : Given(i) \in Names
    BY DEF Given, Names
  <2>2. objects \in Seq(Names \cup {None}) /\ DOMAIN files \subseteq Names
    BY <2>1
  <2>3. /\ pc \in [Threads -> WorkerPCs] /\ rd \in [Threads -> Nat] /\ idx \in [Threads -> Nat]
        /\ kind \in [Threads -> TempKinds] /\ asm \in [Threads -> Names \cup {None}]
        /\ obj \in [Threads -> Nat \cup {None}] /\ lock \in [Locks -> Threads \cup {None}]
    BY DEF WorkerPCs, TempKinds
  <2>4. /\ work \in Seq(Nat) /\ mem \in Seq(Names) /\ outputs \in Seq(Nat \cup {None})
        /\ linked \in Seq(Int) /\ pool \in Seq(1..Len(mem))
    OBVIOUS
  <2>5. widex \in 0..Len(work) /\ freed \subseteq 1..Len(mem)
    BY <1>1
  <2>6. /\ mode \in Modes /\ threadct \in ThreadCts /\ started \subseteq Threads /\ counter \in Nat
        /\ main \in {"compile", "spawn", "link", "teardown", "done", "died"}
    OBVIOUS
  <2> QED  BY <2>2, <2>3, <2>4, <2>5, <2>6 DEF TypeOK
<1>3. LockInv /\ PhaseInv
  BY <1>1 DEF LockInv, PhaseInv
<1>4. ClaimInv /\ HeapInv /\ NameInv /\ KindInv /\ AsmInv
  BY <1>1 DEF ClaimInv, HeapInv, NameInv, KindInv, AsmInv, Busy, Holds, Assembled
<1>5. PoolInv
  BY <1>1 DEF PoolInv, Given, TempKinds
<1>6. FileInv
  BY DEF FileInv, Given
<1>7. ResultInv /\ ObjectInv
  BY <1>1 DEF ResultInv, ObjectInv, Holds
<1> QED  BY <1>2, <1>3, <1>4, <1>5, <1>6, <1>7 DEF IInv

\* Every step keeps the invariant, part by part.
LEMMA NextInv == IInv /\ [Next]_vars => IInv'
<1>1. ASSUME IInv, Next PROVE IInv'
  <2>1. TypeOK'
    <3>1. CASE Main
      BY <1>1, <3>1, MainTypes DEF IInv
    <3>2. ASSUME NEW t \in Threads, Worker(t) PROVE TypeOK'
      BY <1>1, <3>2, WorkerTypes DEF IInv
    <3>3. CASE Ended
      BY <1>1, <3>3 DEF IInv, Ended, TypeOK
    <3> QED  BY <1>1, <3>1, <3>2, <3>3 DEF Next
  <2>2. LockInv' /\ PhaseInv'
    BY <1>1, LockStep, PhaseStep DEF IInv
  <2>3. ClaimInv' /\ HeapInv'
    BY <1>1, ClaimStep, HeapStep DEF IInv
  <2>4. NameInv' /\ KindInv'
    BY <1>1, NameStep, KindStep DEF IInv
  <2>5. AsmInv' /\ PoolInv' /\ FileInv'
    BY <1>1, AsmStep, PoolStep, FileStep DEF IInv
  <2>6. ResultInv'
    BY <1>1, ResultStep DEF IInv
  <2>7. ObjectInv'
    BY <1>1, <2>3, ObjectStep DEF IInv
  <2> QED  BY <2>1, <2>2, <2>3, <2>4, <2>5, <2>6, <2>7 DEF IInv
<1>2. ASSUME IInv, UNCHANGED vars PROVE IInv'
  <2>1. TypeOK'
    BY <1>2 DEF IInv, TypeOK
  <2>2. LockInv' /\ PhaseInv'
    BY <1>2 DEF IInv, LockInv, PhaseInv
  <2>3. ClaimInv' /\ HeapInv'
    BY <1>2 DEF IInv, ClaimInv, HeapInv, Busy, Holds
  <2>4. NameInv' /\ KindInv'
    BY <1>2 DEF IInv, NameInv, KindInv, Busy
  <2>5. AsmInv' /\ PoolInv' /\ FileInv'
    BY <1>2 DEF IInv, AsmInv, PoolInv, FileInv, Assembled, Holds
  <2>6. ResultInv' /\ ObjectInv'
    BY <1>2 DEF IInv, ResultInv, ObjectInv, Result, Holds
  <2> QED  BY <2>1, <2>2, <2>3, <2>4, <2>5, <2>6 DEF IInv
<1> QED  BY <1>1, <1>2

\* The invariant, for any number of inputs, object files and threads.
THEOREM Inductive == Spec => []IInv
<1> QED  BY InitInv, NextInv, PTL DEF Spec

\* Every variable keeps its type: no worker indexes past the outputs, the
\* names or the pool.
THEOREM TypeCorrect == Spec => []TypeOK
<1>1. IInv => TypeOK
  BY DEF IInv
<1> QED  BY <1>1, Inductive, PTL

\* thr_get_next_work gives each module to one worker, once.
THEOREM ClaimedOnceHolds == Spec => []ClaimedOnce
<1>1. IInv => ClaimedOnce
  <2> SUFFICES ASSUME IInv, NEW t \in Threads, Busy(t)
               PROVE  /\ idx[t] \in DOMAIN outputs /\ outputs[idx[t]] = Uninit
                      /\ \A u \in Threads \ {t} : Busy(u) => idx[u] # idx[t]
    BY DEF ClaimedOnce
  <2>1. idx[t] \in 1..widex /\ outputs[idx[t]] = Uninit
        /\ \A u \in Threads \ {t} : Busy(u) => idx[u] # idx[t]
    BY DEF IInv, ClaimInv
  <2>2. t \in started
    BY DEF IInv, PhaseInv, Busy
  <2>3. Len(outputs) = Len(work) /\ widex \in 0..Len(work) /\ DOMAIN outputs = 1..Len(outputs)
    <3>1. outputs \in Seq(Nat \cup {None}) /\ TypeOK
      BY DEF IInv, TypeOK
    <3> QED  BY <2>2, <3>1, Scalars DEF IInv, PhaseInv
  <2> QED  BY <2>1, <2>3, Scalars DEF IInv
<1> QED  BY <1>1, Inductive, PTL

\* The numbers of thr_request_number keep the assembly files of two workers
\* apart until the system compiler has read them.
THEOREM OwnAssemblyHolds == Spec => []OwnAssembly
<1>1. IInv => OwnAssembly
  BY DEF IInv, AsmInv, KindInv, OwnAssembly, Assembled
<1> QED  BY <1>1, Inductive, PTL

\* thr_teardown removes every temporary file: each one was put into
\* unlink_pool before it was written, under a name that is still there.
THEOREM TempsRemovedHolds == Spec => []TempsRemoved
<1>1. Init => TempsRemoved
  BY DEF Init, TempsRemoved
<1>2. IInv /\ TempsRemoved /\ [Next]_vars => TempsRemoved'
  <2> SUFFICES ASSUME IInv, TempsRemoved, [Next]_vars, main' = "done"
               PROVE  \A f \in DOMAIN files' : f.k \notin TempKinds
    BY DEF TempsRemoved
  <2>1. CASE Teardown
    <3>1. DOMAIN files' = DOMAIN files \ {mem[pool[i]] : i \in 1..Len(pool)}
      BY <2>1 DEF Teardown
    <3>2. \A f \in DOMAIN files : f.k \in TempKinds => \E i \in 1..Len(pool) : mem[pool[i]] = f
      BY DEF IInv, PoolInv
    <3> QED  BY <3>1, <3>2
  <2>2. CASE Ended \/ UNCHANGED vars
    BY <2>2 DEF Ended, TempsRemoved
  <2>3. ASSUME NEW t \in Threads, Worker(t) PROVE FALSE
    BY <2>3, WorkerFrame DEF IInv
  <2>4. CASE Main /\ ~Teardown
    BY <2>4, SpawnEffect DEF IInv, Main, Compile, CompileRuntime, Join, Link
  <2> QED  BY <2>1, <2>2, <2>3, <2>4 DEF Next
<1> QED  BY <1>1, <1>2, Inductive, PTL DEF Spec

\* Where -c is not among the outputs asked for, pool_drain unlinks temporary
\* files only.
THEOREM OnlyTempsUnlinkedHolds ==
    ASSUME "-c" \notin Modes
    PROVE  Spec => OnlyTempsUnlinked
<1>1. IInv /\ [Next]_vars =>
          [\A f \in DOMAIN files : f.k \notin TempKinds => f \in DOMAIN files']_vars
  <2> SUFFICES ASSUME IInv, Next, NEW f \in DOMAIN files, f.k \notin TempKinds
               PROVE  f \in DOMAIN files'
    OBVIOUS
  <2>1. mode # "-c"
    BY DEF IInv, TypeOK
  <2>2. CASE Teardown
    <3>1. \A i \in 1..Len(pool) : pool[i] \in 1..Len(mem)
      <4>1. pool \in Seq(1..Len(mem))
        BY DEF IInv, TypeOK
      <4> QED  BY <4>1
    <3>2. \A i \in 1..Len(pool) : mem[pool[i]].k \in TempKinds
      BY <2>1, <3>1 DEF IInv, NameInv
    <3> QED  BY <2>2, <3>2 DEF Teardown
  <2>3. CASE (Main \/ Ended) /\ ~Teardown
    BY <2>3, MainFrame DEF IInv, Ended
  <2>4. ASSUME NEW t \in Threads, Worker(t) PROVE f \in DOMAIN files'
    <3>1. UNCHANGED files \/ \E n, v : Written(n, v)
      BY <2>4, FilesEffect DEF IInv
    <3> QED  BY <3>1 DEF Written
  <2> QED  BY <2>2, <2>3, <2>4 DEF Next
<1> QED  BY <1>1, Inductive, PTL DEF Spec, OnlyTempsUnlinked

-----------------------------------------------------------------------------
(* The refinement of Build.                                                 *)

Done == {i \in DOMAIN outputs : outputs[i] # Uninit}

\* Threads, locks and temporary files start outside Build's sight.
LEMMA InitBuild == Init => B!BInit
<1> SUFFICES ASSUME Init PROVE B!BInit
  OBVIOUS
<1>1. Len(work) = 0 /\ DOMAIN outputs = {} /\ linked = <<>> /\ NGiven \in Nat
  BY ShippingAssumption DEF Init
<1> QED  BY <1>1 DEF B!BInit

\* The outputs are those of the modules.
LEMMA OutputsDomain ==
    ASSUME TypeOK
    PROVE  DOMAIN outputs = 1..Len(outputs) /\ outputs \in Seq(Nat \cup {None})
<1>1. outputs \in Seq(Nat \cup {None})
  BY DEF TypeOK
<1> QED  BY <1>1

\* Storing a result compiles one more module.
LEMMA StoreBuild ==
    ASSUME IInv, NEW t \in Threads, Store(t)
    PROVE  B!CompileUnit
<1>1. /\ pc[t] = "store" /\ Busy(t) /\ outputs' = [outputs EXCEPT ![idx[t]] = obj[t]]
      /\ UNCHANGED <<work, linked>>
  BY DEF Store, At, Busy
<1>2. idx[t] \in 1..widex /\ outputs[idx[t]] = Uninit /\ obj[t] # Uninit
  BY <1>1 DEF IInv, ClaimInv
<1>3. Len(outputs) = Len(work) /\ widex \in 0..Len(work) /\ Len(work) \in Nat
  <2>1. t \in started
    BY <1>1 DEF IInv, PhaseInv
  <2> QED  BY <2>1, Scalars DEF IInv, PhaseInv
<1>4. DOMAIN outputs = 1..Len(outputs)
  BY OutputsDomain DEF IInv
<1>5. idx[t] \in (1..Len(work)) \ Done
  BY <1>2, <1>3 DEF Done
<1>6. Done' = Done \cup {idx[t]}
  BY <1>1, <1>2, <1>3, <1>4 DEF Done
<1>7. \E u \in 1..Len(work) \ Done : Done' = Done \cup {u}
  BY <1>5, <1>6
<1> QED  BY <1>1, <1>7 DEF B!CompileUnit, Done

\* The linker is called when all modules are compiled, with every object at
\* its place.
LEMMA LinkBuild ==
    ASSUME IInv, Link
    PROVE  B!LinkUnits
<1>1. /\ main = "link" /\ mode = "link" /\ linked = <<>> /\ UNCHANGED <<work, outputs>>
      /\ linked' = [i \in 1..Len(objects) |->
                       IF objects[i] \in DOMAIN files THEN files[objects[i]] ELSE -1]
  BY DEF Link, IInv, PhaseInv
<1>2. Len(outputs) = Len(work) /\ Len(work) \in Nat /\ NGiven \in Nat
  BY <1>1, Scalars, ShippingAssumption DEF IInv, PhaseInv
<1>3. \A i \in 1..Len(work) : outputs[i] # Uninit
  BY <1>1, <1>2 DEF IInv, ClaimInv
<1>4. DOMAIN outputs = 1..Len(work)
  BY <1>2, OutputsDomain DEF IInv
<1>5. Done = 1..Len(work)
  BY <1>3, <1>4 DEF Done
<1>6. /\ Len(objects) = NGiven + Len(work)
      /\ \A i \in 1..NGiven : objects[i] = Given(i)
      /\ \A i \in 1..Len(work) : objects[NGiven + i] = mem[outputs[i]]
  BY <1>1 DEF IInv, ObjectInv
<1>7. Len(linked') = NGiven + Len(work)
  BY <1>1, <1>2, <1>6
<1>8. \A i \in 1..NGiven : linked'[i] = 0
  BY <1>1, <1>2, <1>6 DEF IInv, FileInv
<1>9. ASSUME NEW u \in 1..Len(work)
      PROVE  linked'[NGiven + u] \in {u, -1}
  <2>1. Result(outputs[u], u)
    BY <1>1, <1>2, <1>3 DEF IInv, ResultInv
  <2>2. objects[NGiven + u] = mem[outputs[u]] /\ NGiven + u \in 1..Len(objects)
    BY <1>2, <1>6
  <2> QED  BY <1>1, <2>1, <2>2 DEF Result
<1> QED  BY <1>1, <1>5, <1>7, <1>8, <1>9 DEF B!LinkUnits, Done

\* Every other step adds a module or changes nothing that Build sees.
LEMMA NextBuild == IInv /\ [Next]_vars => [B!BNext]_(B!bvars)
<1> SUFFICES ASSUME IInv, [Next]_vars PROVE B!BNext \/ UNCHANGED B!bvars
  OBVIOUS
<1>1. CASE Compile
  <2>1. outputs = <<>> /\ linked = <<>> /\ UNCHANGED <<outputs, linked>>
    BY <1>1 DEF Compile, IInv, PhaseInv
  <2>2. work \in Seq(Nat) /\ Len(work) + 1 \in Nat
    BY DEF IInv, TypeOK
  <2>3. Len(work') = Len(work) \/ Len(work') = Len(work) + 1
    BY <1>1, <2>2, AppendProperties DEF Compile
  <2>4. Done = {} /\ Done' = {}
    BY <2>1 DEF Done
  <2> QED  BY <2>1, <2>3, <2>4 DEF B!BNext, B!AddUnit, B!bvars, Done
<1>2. CASE CompileRuntime
  <2>1. outputs = <<>> /\ linked = <<>> /\ UNCHANGED linked
    BY <1>2 DEF CompileRuntime, IInv, PhaseInv
  <2>2. work \in Seq(Nat) /\ Len(work) + 1 \in Nat
    BY DEF IInv, TypeOK
  <2>3. Len(work') = Len(work) \/ Len(work') = Len(work) + 1
    BY <1>2, <2>2, AppendProperties DEF CompileRuntime
  <2>4. Done = {}
    BY <2>1 DEF Done
  <2>5. Done' = {}
    BY <1>2 DEF CompileRuntime, Done
  <2> QED  BY <2>1, <2>3, <2>4, <2>5 DEF B!BNext, B!AddUnit, B!bvars, Done
<1>3. ASSUME NEW t \in Threads, Store(t) PROVE B!BNext
  BY <1>3, StoreBuild DEF B!BNext
<1>4. CASE Link
  BY <1>4, LinkBuild DEF B!BNext
<1>5. CASE UNCHANGED <<work, outputs, linked>>
  BY <1>5 DEF B!bvars
<1>6. ASSUME NEW t \in Threads, Worker(t), ~Store(t) PROVE UNCHANGED <<work, outputs, linked>>
  BY <1>6 DEF Worker, GetWork, GotWork, Optimize, RequestNumber, Numbered, PoolAdd, Pooled,
     Emit, ObjectName, SystemCC
<1>7. ASSUME NEW t \in Threads, Spawn(t) PROVE UNCHANGED <<work, outputs, linked>>
  BY <1>7 DEF Spawn
<1>8. CASE Join \/ Teardown \/ Ended \/ UNCHANGED vars
  BY <1>8, <1>5 DEF Join, Teardown, Ended
<1> QED  BY <1>1, <1>2, <1>3, <1>4, <1>5, <1>6, <1>7, <1>8 DEF Next, Main

\* The parallel back end does what compiling the modules one after the other
\* would: every module once, linked in the order of the work list.
THEOREM BackEndImplementsBuild == Spec => Implements
<1> QED  BY InitBuild, NextBuild, Inductive, PTL DEF Spec, Implements, B!BSpec

=============================================================================
