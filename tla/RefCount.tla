------------------------------ MODULE RefCount ------------------------------
(***************************************************************************)
(* The reference-counting runtime of Eagle (rc.egl) together with the      *)
(* calls that the code generator emits around every statement that         *)
(* handles a counted or a weak pointer (ac_rc.c, ac_safe_store,            *)
(* ac_compile_new_decl, the class and struct destructors).                 *)
(*                                                                         *)
(* The program is single threaded.  One statement runs at a time: it       *)
(* evaluates an expression (which may leave a transient), stores or drops  *)
(* the value, and every decrement that reaches zero suspends it while the  *)
(* destructors run.  The suspended calls are the stack stk; the statement  *)
(* itself is suspended in cont between the decrement of the old value and  *)
(* the store of the new one.                                               *)
(***************************************************************************)
EXTENDS Integers, Sequences, FiniteSets

CONSTANTS
    Objs,        \* addresses malloc hands out, reused after free
    Nil,         \* the nil pointer
    Vars,        \* stack positions of counted local variables
    WVars,       \* stack positions of weak local variables
    NF,          \* number of pointer members of a class instance
    Strong,      \* the indices of the counted members
    Weak,        \* the indices of the weak members
    Idioms       \* the delicate idioms the compiled program uses

(* The idioms, each of which the compiler accepts:                          *)
(*   "destruct"  classes declare a destruct method;                         *)
(*   "discard"   a statement drops the object it has just allocated;        *)
(*   "weakBase"  a member is assigned through a weak variable.              *)
AllIdioms == {"destruct", "discard", "weakBase"}

(* The teardown function of an object: none (plain data), a destructor that *)
(* releases the members, or one that first calls the destruct method.       *)
Kinds == {"none", "members", "destruct"}

ASSUME RCAssumption ==
    /\ IsFiniteSet(Objs) /\ Nil \notin Objs
    /\ IsFiniteSet(Vars) /\ IsFiniteSet(WVars)
    /\ NF \in Nat
    /\ Strong \subseteq 1..NF /\ Weak = (1..NF) \ Strong
    /\ Vars \cap WVars = {}
    /\ (Vars \cup WVars \cup {Nil}) \cap (Objs \X (1..NF)) = {}
    /\ Nil \notin Vars \cup WVars
    /\ Idioms \subseteq AllIdioms

\* The sentinel __egl_decr_ptr stores before it calls teardown.
Finalizing == -20

\* Pointer positions: local variables and members of an object.
Slots  == Vars \cup (Objs \X Strong)
WSlots == WVars \cup (Objs \X Weak)
Ptrs   == Objs \cup {Nil}

VARIABLES
    st,        \* per address: "free", "live", or "dying" (teardown running)
    memcount,  \* __egl_ptr.memcount
    tear,      \* __egl_ptr.teardown, as one of Kinds
    wrefs,     \* __egl_ptr.wrefs as a bag of registered weak positions
    slot,      \* contents of the counted positions
    wslot,     \* contents of the weak positions
    scope,     \* local variables currently declared
    tmp,       \* the value the current expression produced
    cont,      \* a store suspended until the old value is torn down
    stk,       \* the objects whose teardown is running, innermost last
    ph,        \* per address: how far its teardown got
    credit     \* history: the object whose count includes this position

heapVars == <<st, memcount, tear, wrefs>>
vars == <<st, memcount, tear, wrefs, slot, wslot, scope, tmp, cont, stk, ph,
          credit>>

NoTmp  == [k |-> "none", o |-> Nil]
NoCont == [d |-> Nil, v |-> Nil]
NoRegs == [w \in WSlots |-> 0]

(* Phases of a teardown: the destruct method is called, its body runs, the  *)
(* members 1..NF are released in order, and at NF + 1 free() is next.       *)
DestructCall == -1
DestructBody == 0

Init ==
    /\ st = [o \in Objs |-> "free"]
    /\ memcount = [o \in Objs |-> 0]
    /\ tear = [o \in Objs |-> "none"]
    /\ wrefs = [o \in Objs |-> NoRegs]
    /\ slot = [s \in Slots |-> Nil]
    /\ wslot = [w \in WSlots |-> Nil]
    /\ scope = {}
    /\ tmp = NoTmp
    /\ cont = NoCont
    /\ stk = <<>>
    /\ ph = [o \in Objs |-> DestructCall]
    /\ credit = [s \in Slots |-> Nil]

-----------------------------------------------------------------------------
(* The runtime: rc.egl.                                                     *)

\* __egl_incr_ptr on the counts mc.
IncrPtr(mc, o) ==
    IF o # Nil /\ mc[o] > -5 THEN [mc EXCEPT ![o] = @ + 1] ELSE mc

\* Mutant: the table is freed and no registered position is cleared.
SetNilForgets(o) ==
    /\ UNCHANGED wslot
    /\ wrefs' = [wrefs EXCEPT ![o] = NoRegs]

\* __egl_set_nil and free(ptr->wrefs): every registered position is cleared.
SetNil(o) ==
    /\ wslot' = [w \in WSlots |-> IF wrefs[o][w] > 0 THEN Nil ELSE wslot[w]]
    /\ wrefs' = [wrefs EXCEPT ![o] = NoRegs]

\* The end of __egl_decr_ptr and of __egl_check_ptr: teardown, then free.
\* A plain object has no teardown and is freed at once.
\* The caller resumes with the teardown phases p.
Finalize(p, o) ==
    /\ SetNil(o)
    /\ \/ /\ tear[o] # "none"
          /\ st' = [st EXCEPT ![o] = "dying"]
          /\ ph' = [p EXCEPT ![o] = IF tear[o] = "destruct" THEN DestructCall ELSE 1]
          /\ stk' = Append(stk, o)
       \/ /\ tear[o] = "none"
          /\ st' = [st EXCEPT ![o] = "free"]
          /\ ph' = p
          /\ UNCHANGED stk

\* Mutant: no sentinel is stored before the teardown.
DecrPtrNoSentinel(mc, p, o) ==
    \/ /\ ~ (o # Nil /\ mc[o] = 1)
       /\ memcount' = IF o = Nil \/ mc[o] < 0 THEN mc ELSE [mc EXCEPT ![o] = @ - 1]
       /\ ph' = p
       /\ UNCHANGED <<st, wslot, wrefs, stk>>
    \/ /\ o # Nil /\ mc[o] = 1
       /\ memcount' = [mc EXCEPT ![o] = 0]
       /\ Finalize(p, o)

\* __egl_decr_ptr(o), called when the counts are mc and the phases p.
DecrPtr(mc, p, o) ==
    \/ /\ ~ (o # Nil /\ mc[o] = 1)
       /\ memcount' = IF o = Nil \/ mc[o] < 0 THEN mc ELSE [mc EXCEPT ![o] = @ - 1]
       /\ ph' = p
       /\ UNCHANGED <<st, wslot, wrefs, stk>>
    \/ /\ o # Nil /\ mc[o] = 1
       /\ memcount' = [mc EXCEPT ![o] = IF tear[o] = "none" THEN 0 ELSE Finalizing]
       /\ Finalize(p, o)

\* __egl_check_ptr(o): the count stays 0 while the teardown runs.
CheckPtr(o) ==
    /\ UNCHANGED memcount
    /\ \/ /\ memcount[o] # 0
          /\ UNCHANGED <<st, wslot, wrefs, ph, stk>>
       \/ /\ memcount[o] = 0
          /\ Finalize(ph, o)

\* __egl_remove_weak(w) on the registrations reg: nothing when the position
\* is nil, one entry of the target's table otherwise.
RemoveWeak(reg, w) ==
    IF wslot[w] # Nil /\ reg[wslot[w]][w] > 0
    THEN [reg EXCEPT ![wslot[w]][w] = @ - 1]
    ELSE reg

\* __egl_add_weak(o, w): refused for nil and for an object being torn down.
AddWeak(reg, o, w) ==
    IF o # Nil /\ memcount[o] >= 0 THEN [reg EXCEPT ![o][w] = @ + 1] ELSE reg

-----------------------------------------------------------------------------
(* Statements of the compiled program.                                      *)

\* No teardown is running and no store is suspended.
Running == stk = <<>> /\ cont = NoCont

\* The objects that the counted and the weak local variables point to, and
\* the one an init method or a chained call works on.
Local  == {slot[v] : v \in scope \cap Vars} \ {Nil}
WLocal == {wslot[w] : w \in scope \cap WVars} \ {Nil}
Self   == IF tmp.k \in {"init", "loaded"} THEN {tmp.o} ELSE {}

\* The objects whose members may be assigned, and may be read.
Bases == Local \cup (IF "weakBase" \in Idioms THEN WLocal ELSE {})
Named == Local \cup Self \cup WLocal

\* Counted and weak positions reached through the objects S: a type with
\* pointer members always has a teardown.
Members(S) == {o \in S : tear[o] # "none"} \X (1..NF)
Positions(S)  == Slots \cap (scope \cup Members(S))
WPositions(S) == WSlots \cap (scope \cup Members(S))

\* The pointers an expression can read.
Values == {slot[s] : s \in Positions(Named)} \cup {wslot[w] : w \in WPositions(Named)}
            \cup {Nil}

\* A variable declaration stores nil (ac_compile_var_decl_ext).
Declare(v) ==
    /\ Running /\ v \in (Vars \cup WVars) \ scope
    /\ scope' = scope \cup {v}
    /\ slot' = IF v \in Vars THEN [slot EXCEPT ![v] = Nil] ELSE slot
    /\ wslot' = IF v \in WVars THEN [wslot EXCEPT ![v] = Nil] ELSE wslot
    /\ UNCHANGED <<heapVars, tmp, cont, stk, ph, credit>>

\* new T: malloc, __egl_prepare, the constructor sets the members to nil.
\* An init method runs with two units: the caller's __egl_incr_ptr and the
\* counted parameter self (init is not compiled as a method).
New(o, kind, hasInit) ==
    /\ Running /\ tmp = NoTmp
    /\ st[o] = "free"
    /\ kind = "destruct" => "destruct" \in Idioms
    /\ hasInit => kind # "none"
    /\ st' = [st EXCEPT ![o] = "live"]
    /\ memcount' = [memcount EXCEPT ![o] = IF hasInit THEN 2 ELSE 0]
    /\ tear' = [tear EXCEPT ![o] = kind]
    /\ wrefs' = [wrefs EXCEPT ![o] = NoRegs]
    /\ slot' = [s \in Slots |-> IF s \in {o} \X Strong THEN Nil ELSE slot[s]]
    /\ wslot' = [w \in WSlots |-> IF w \in {o} \X Weak THEN Nil ELSE wslot[w]]
    /\ tmp' = [k |-> IF hasInit THEN "init" ELSE "transient", o |-> o]
    /\ UNCHANGED <<scope, cont, stk, ph, credit>>

\* init returns: self leaves its scope (never the last unit), then
\* __egl_decr_no_free.
InitReturns ==
    /\ Running /\ tmp.k = "init"
    /\ memcount' = [memcount EXCEPT ![tmp.o] = @ - 2]
    /\ tmp' = [tmp EXCEPT !.k = "transient"]
    /\ UNCHANGED <<st, tear, wrefs, slot, wslot, scope, cont, stk, ph, credit>>

\* Mutant: the callee forgets the increment of the value it returns.
CallReturnsUncounted(s) ==
    /\ Running /\ tmp = NoTmp
    /\ s \in Positions(Named) /\ slot[s] # Nil
    /\ tmp' = [k |-> "loaded", o |-> slot[s]]
    /\ UNCHANGED <<heapVars, slot, wslot, scope, cont, stk, ph, credit>>

\* A call whose callee returns the counted value o: the callee increments it
\* before its own variables are released (ac_compile_return).
CallReturns(s) ==
    /\ Running /\ tmp = NoTmp
    /\ s \in Positions(Named) /\ slot[s] # Nil
    /\ memcount' = IncrPtr(memcount, slot[s])
    /\ tmp' = [k |-> "loaded", o |-> slot[s]]
    /\ UNCHANGED <<st, tear, wrefs, slot, wslot, scope, cont, stk, ph, credit>>

\* Mutant: the old value is decremented before the new one is incremented.
BeginStoreDecrFirst(d, v, counted) ==
    LET last == slot[d] # Nil /\ memcount[slot[d]] = 1
        mc == IF counted \/ last THEN memcount ELSE IncrPtr(memcount, v)
    IN  /\ DecrPtr(mc, ph, slot[d])
        /\ cont' = [d |-> d, v |-> v]
        /\ credit' = [credit EXCEPT ![d] = v]
        /\ UNCHANGED <<tear, slot, scope>>

\* Mutant: the value a call returned is counted a second time.
BeginStoreRecounts(d, v, counted) ==
    /\ DecrPtr(IncrPtr(memcount, v), ph, slot[d])
    /\ cont' = [d |-> d, v |-> v]
    /\ credit' = [credit EXCEPT ![d] = v]
    /\ UNCHANGED <<tear, slot, scope>>

\* ac_safe_store to a counted position d, up to the decrement of its old value.
BeginStore(d, v, counted) ==
    LET mc == IF counted THEN memcount ELSE IncrPtr(memcount, v)
    IN  /\ DecrPtr(mc, ph, slot[d])
        /\ cont' = [d |-> d, v |-> v]
        /\ credit' = [credit EXCEPT ![d] = v]
        /\ UNCHANGED <<tear, slot, scope>>

\* p = <expression read from a counted or weak position, or nil>
StoreValue(d, v) ==
    /\ Running /\ tmp.k # "transient"
    /\ d \in Positions(Bases \cup Self) /\ v \in Values
    /\ BeginStore(d, v, FALSE)
    /\ UNCHANGED tmp

\* p = new T, p = f(), and p = self inside init.
StoreTmp(d) ==
    /\ Running /\ tmp.k # "none"
    /\ d \in Positions(IF tmp.k = "init" THEN Bases \cup Self ELSE Bases)
    /\ BeginStore(d, tmp.o, tmp.k = "loaded")
    /\ tmp' = IF tmp.k = "init" THEN tmp ELSE NoTmp

\* The store itself, after the teardowns the decrement started.
FinishStore ==
    /\ stk = <<>> /\ cont # NoCont
    /\ slot' = [slot EXCEPT ![cont.d] = cont.v]
    /\ cont' = NoCont
    /\ UNCHANGED <<heapVars, wslot, scope, tmp, stk, ph, credit>>

\* ac_safe_store to a weak position: unregister, register, store.
StoreWeak(w, v) ==
    /\ Running /\ w \in WPositions(Named)
    /\ v \in (IF tmp.k = "transient" THEN {tmp.o} ELSE Values \cup {tmp.o})
    /\ wrefs' = AddWeak(RemoveWeak(wrefs, w), v, w)
    /\ wslot' = [wslot EXCEPT ![w] = v]
    /\ UNCHANGED <<st, memcount, tear, slot, scope, tmp, cont, stk, ph, credit>>

\* Mutant: only the values that calls returned are flushed.
FlushTransientsLoadedOnly ==
    /\ Running
    /\ \/ /\ tmp.k = "transient"
          /\ UNCHANGED <<memcount, st, wslot, wrefs, ph, stk>>
       \/ /\ tmp.k = "loaded"
          /\ DecrPtr(memcount, ph, tmp.o)
    /\ tmp' = NoTmp
    /\ UNCHANGED <<tear, slot, scope, cont, credit>>

\* ac_flush_transients at the end of a statement that did not store tmp.
FlushTransients ==
    /\ Running
    /\ \/ /\ tmp.k = "transient"
          /\ "discard" \in Idioms \/ memcount[tmp.o] # 0
          /\ CheckPtr(tmp.o)
       \/ /\ tmp.k = "loaded"
          /\ DecrPtr(memcount, ph, tmp.o)
    /\ tmp' = NoTmp
    /\ UNCHANGED <<tear, slot, scope, cont, credit>>

\* A counted variable leaves its scope (ac_scope_leave_callback).
LeaveScope(v) ==
    /\ Running /\ tmp = NoTmp /\ v \in scope \cap Vars
    /\ scope' = scope \ {v}
    /\ DecrPtr(memcount, ph, slot[v])
    /\ credit' = [credit EXCEPT ![v] = Nil]
    /\ UNCHANGED <<tear, slot, tmp, cont>>

\* Mutant: a weak variable leaves its scope and stays registered.
LeaveScopeWeakKeeps(w) ==
    /\ Running /\ tmp = NoTmp /\ w \in scope \cap WVars
    /\ scope' = scope \ {w}
    /\ UNCHANGED <<heapVars, slot, wslot, tmp, cont, stk, ph, credit>>

\* A weak variable leaves its scope (ac_scope_leave_weak_callback).
LeaveScopeWeak(w) ==
    /\ Running /\ tmp = NoTmp /\ w \in scope \cap WVars
    /\ scope' = scope \ {w}
    /\ wrefs' = RemoveWeak(wrefs, w)
    /\ UNCHANGED <<st, memcount, tear, slot, wslot, tmp, cont, stk, ph, credit>>

-----------------------------------------------------------------------------
(* The generated destructor of the innermost object being torn down.        *)

Top == stk[Len(stk)]
Dying(p) == stk # <<>> /\ ph[Top] = p
After(p) == [ph EXCEPT ![Top] = p]

\* The destruct method is entered.  It is not compiled as a method either:
\* its parameter self is counted.
DestructEnters ==
    /\ Dying(DestructCall)
    /\ memcount' = IncrPtr(memcount, Top)
    /\ ph' = After(DestructBody)
    /\ UNCHANGED <<st, tear, wrefs, slot, wslot, scope, tmp, cont, stk, credit>>

\* self leaves the scope of the destruct method, whose body is taken not to
\* change any count.
DestructReturns ==
    /\ Dying(DestructBody)
    /\ DecrPtr(memcount, After(1), Top)
    /\ UNCHANGED <<tear, slot, scope, tmp, cont, credit>>

\* Mutant: the destructor goes over its first member forever.
TeardownStrongStuck(i) ==
    /\ i \in Strong /\ Dying(i)
    /\ credit' = [credit EXCEPT ![<<Top, i>>] = Nil]
    /\ UNCHANGED <<heapVars, slot, wslot, scope, tmp, cont, stk, ph>>

\* ac_decr_pointer on the next member, which is counted.
TeardownStrong(i) ==
    /\ i \in Strong /\ Dying(i)
    /\ DecrPtr(memcount, After(i + 1), slot[<<Top, i>>])
    /\ credit' = [credit EXCEPT ![<<Top, i>>] = Nil]
    /\ UNCHANGED <<tear, slot, scope, tmp, cont>>

\* Mutant: the destructor steps past the next member.
TeardownWeakSkips(i) ==
    /\ i \in Weak /\ Dying(i)
    /\ wrefs' = RemoveWeak(wrefs, <<Top, i>>)
    /\ ph' = After(i + 2)
    /\ UNCHANGED <<st, memcount, tear, slot, wslot, scope, tmp, cont, stk, credit>>

\* ac_remove_weak_pointer on the next member, which is weak.
TeardownWeak(i) ==
    /\ i \in Weak /\ Dying(i)
    /\ wrefs' = RemoveWeak(wrefs, <<Top, i>>)
    /\ ph' = After(i + 1)
    /\ UNCHANGED <<st, memcount, tear, slot, wslot, scope, tmp, cont, stk, credit>>

\* teardown returns to __egl_decr_ptr or __egl_check_ptr, which frees.
Free ==
    /\ Dying(NF + 1)
    /\ st' = [st EXCEPT ![Top] = "free"]
    /\ stk' = SubSeq(stk, 1, Len(stk) - 1)
    /\ UNCHANGED <<memcount, tear, wrefs, slot, wslot, scope, tmp, cont, ph, credit>>

-----------------------------------------------------------------------------
Teardown ==
    \/ DestructEnters \/ DestructReturns
    \/ \E i \in 1..NF : TeardownStrong(i) \/ TeardownWeak(i)
    \/ Free

Statement ==
    \/ \E v \in Vars \cup WVars : Declare(v)
    \/ \E o \in Objs : \E kind \in Kinds, hasInit \in BOOLEAN : New(o, kind, hasInit)
    \/ InitReturns
    \/ \E s \in Slots : CallReturns(s)
    \/ \E d \in Slots : \E v \in Ptrs : StoreValue(d, v)
    \/ \E d \in Slots : StoreTmp(d)
    \/ FinishStore
    \/ \E w \in WSlots : \E v \in Ptrs : StoreWeak(w, v)
    \/ FlushTransients
    \/ \E v \in Vars : LeaveScope(v)
    \/ \E w \in WVars : LeaveScopeWeak(w)

Next == Statement \/ Teardown

Spec == Init /\ [][Next]_vars

\* The program is sequential and the generated destructors have no loop and no
\* wait: a teardown that has started keeps running.
FairSpec == Spec /\ WF_vars(Teardown)

-----------------------------------------------------------------------------
(* Properties.                                                              *)

TypeOK ==
    /\ st \in [Objs -> {"free", "live", "dying"}]
    /\ memcount \in [Objs -> Int]
    /\ tear \in [Objs -> Kinds]
    /\ wrefs \in [Objs -> [WSlots -> Nat]]
    /\ slot \in [Slots -> Ptrs]
    /\ wslot \in [WSlots -> Ptrs]
    /\ scope \subseteq Vars \cup WVars
    /\ tmp \in [k : {"none", "init", "transient", "loaded"}, o : Ptrs]
    /\ cont \in [d : Slots \cup {Nil}, v : Ptrs]
    /\ stk \in Seq(Objs)
    /\ ph \in [Objs -> -1..(NF + 1)]
    /\ credit \in [Slots -> Ptrs]

\* Positions that hold a reference: declared variables, members of live
\* objects, members of a dying object its destructor has not passed.
Holds(s) ==
    \/ s \in scope
    \/ \E o \in Objs, i \in 1..NF :
          /\ s = <<o, i>> /\ tear[o] # "none"
          /\ st[o] = "live" \/ (st[o] = "dying" /\ i >= ph[o])

\* The units of count that the expression being evaluated owns.
Pending(o) ==
    IF tmp.o # o THEN 0
    ELSE IF tmp.k = "init" THEN 2 ELSE IF tmp.k = "loaded" THEN 1 ELSE 0

\* memcount of a live object is the number of positions that own a reference
\* to it, plus the unit an expression holds: no call is missing or doubled.
CountExact ==
    \A o \in Objs : st[o] = "live" =>
        memcount[o] = Cardinality({s \in Slots : credit[s] = o}) + Pending(o)

\* A counted position never holds a pointer to memory that was freed or is
\* being torn down, except the destination of a store whose old value is
\* still being torn down.
StrongSafe ==
    \A s \in Slots : (Holds(s) /\ s # cont.d /\ slot[s] # Nil) => st[slot[s]] = "live"

\* A weak position is nil or points to a live object that will clear it.
WeakSafe ==
    \A w \in WSlots : (Holds(w) /\ wslot[w] # Nil) =>
        st[wslot[w]] = "live" /\ wrefs[wslot[w]][w] = 1

\* Every registered position still exists and still points to the object:
\* __egl_set_nil never writes into a freed object or a dead stack frame.
RegistrySafe ==
    \A o \in Objs : \A w \in WSlots : wrefs[o][w] > 0 =>
        Holds(w) /\ wslot[w] = o /\ st[o] = "live"

\* An object is finalized once: it is on the teardown stack at most once.
FinalizedOnce ==
    \A i, j \in 1..Len(stk) : stk[i] = stk[j] => i = j

\* Between statements every live object has an owner: an object whose last
\* owner is gone has been freed, or is being torn down.
NoOrphan ==
    (tmp = NoTmp) => \A o \in Objs : st[o] = "live" =>
        \E s \in Slots : Holds(s) /\ credit[s] = o

\* The position a suspended store is about to write still exists.
StoreTargetLive == cont # NoCont => Holds(cont.d)

\* Every teardown that starts ends, and the suspended statement resumes.
TeardownEnds == (stk # <<>>) ~> (stk = <<>>)
=============================================================================
