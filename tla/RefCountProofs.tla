--------------------------- MODULE RefCountProofs ---------------------------
(***************************************************************************)
(* Proofs about RefCount for any set of addresses, variables and members.  *)
(*                                                                         *)
(* The program may use any idiom but the two that RefCount.cfg's violation *)
(* runs show to be broken: classes with a destruct method together with    *)
(* discarded allocations, and assignments through a weak variable.         *)
(***************************************************************************)
EXTENDS RefCount, FiniteSetTheorems, SequenceTheorems, TLAPS

SafeIdioms ==
    /\ "weakBase" \notin Idioms
    /\ ~ ("destruct" \in Idioms /\ "discard" \in Idioms)

\* The positions whose reference is part of o's count.
Refs(o) == {s \in Slots : credit[s] = o}

(* The inductive invariant.  CountExact alone is not inductive: a count is   *)
(* exact after a decrement only if the position that is released is one of  *)
(* those counted (CreditInv), which fails for the target of a suspended     *)
(* store unless its container is kept alive by something the teardowns      *)
(* cannot reach (ContInv).                                                  *)

\* Counts are exact, and nothing refers to an object that is not live.
CountInv ==
    \A o \in Objs :
        /\ st[o] = "live" => memcount[o] = Cardinality(Refs(o)) + Pending(o)
        /\ st[o] # "live" => Refs(o) = {}

\* Only a transient may have a count of zero.
PosInv ==
    \A o \in Objs : st[o] = "live" /\ tmp # [k |-> "transient", o |-> o] => memcount[o] > 0

\* A position that holds a reference is credited with what it contains.
CreditInv ==
    \A s \in Slots :
        /\ Holds(s) /\ s # cont.d => credit[s] = slot[s]
        /\ ~ Holds(s) => credit[s] = Nil

\* Something keeps o alive that no teardown releases.
Anchored(o) == Pending(o) > 0 \/ \E v \in Vars \cap scope : credit[v] = o

ContInv ==
    /\ cont.d = Nil => cont = NoCont
    /\ cont # NoCont =>
          /\ Holds(cont.d) /\ credit[cont.d] = cont.v
          /\ cont.d \in Vars \/ \E o \in Objs : Anchored(o) /\ cont.d \in {o} \X Strong

TmpInv ==
    /\ tmp.k = "none" <=> tmp.o = Nil
    /\ tmp.k # "none" => st[tmp.o] = "live"
    /\ tmp.k = "transient" => Running

DyingInv ==
    \A o \in Objs :
        /\ tear[o] = "destruct" => "destruct" \in Idioms
        /\ st[o] = "dying" =>
              /\ tear[o] # "none"
              /\ ph[o] < 1 => tear[o] = "destruct"
              /\ memcount[o] = Finalizing \/ (memcount[o] = 0 /\ "discard" \in Idioms)

StkInv ==
    /\ \A o \in Objs : st[o] = "dying" <=> \E i \in 1..Len(stk) : stk[i] = o
    /\ FinalizedOnce

\* A weak position and its registration agree.
WeakInv ==
    /\ \A o \in Objs, w \in WSlots :
          /\ wrefs[o][w] \in {0, 1}
          /\ wrefs[o][w] = 1 => Holds(w) /\ wslot[w] = o /\ st[o] = "live"
    /\ \A w \in WSlots : Holds(w) /\ wslot[w] # Nil => wrefs[wslot[w]][w] = 1

IInv ==
    /\ TypeOK /\ CountInv /\ PosInv /\ CreditInv /\ ContInv /\ TmpInv
    /\ DyingInv /\ StkInv /\ WeakInv

-----------------------------------------------------------------------------
(* Facts about positions and their number.                                  *)

\* Variables, counted members, weak members and nil are all different.
LEMMA PositionsApart ==
    /\ Nil \notin Slots /\ Nil \notin WSlots
    /\ Slots \cap WSlots = {}
    /\ \A d \in (Objs \X Strong) \cup (Objs \X Weak) : d \notin Vars \cup WVars
    /\ \A o \in Objs, i \in 1..NF : <<o, i>> \notin Vars \cup WVars
<1>1. \A d \in (Objs \X Strong) \cup (Objs \X Weak) : d \in Objs \X (1..NF)
  BY RCAssumption
<1>2. \A d \in Objs \X (1..NF) : d \notin Vars /\ d \notin WVars /\ d # Nil
  BY RCAssumption
<1>3. (Objs \X Strong) \cap (Objs \X Weak) = {}
  BY RCAssumption
<1>4. Vars \cap WVars = {} /\ Nil \notin Vars /\ Nil \notin WVars
  BY RCAssumption
<1> QED  BY <1>1, <1>2, <1>3, <1>4 DEF Slots, WSlots

\* There are finitely many counted positions.
LEMMA SlotsFinite == IsFiniteSet(Slots)
<1>1. IsFiniteSet(Strong)
  <2>1. IsFiniteSet(1..NF)
    BY RCAssumption, FS_Interval
  <2> QED  BY <2>1, RCAssumption, FS_Subset
<1>2. IsFiniteSet(Objs \X Strong)
  BY <1>1, RCAssumption, FS_Product
<1> QED  BY <1>2, RCAssumption, FS_Union DEF Slots

\* Sets of counted positions can be counted.
LEMMA SlotSetCard ==
    ASSUME NEW T \in SUBSET Slots
    PROVE  IsFiniteSet(T) /\ Cardinality(T) \in Nat /\ (Cardinality(T) = 0 <=> T = {})
<1>1. IsFiniteSet(T)
  BY SlotsFinite, FS_Subset
<1> QED  BY <1>1, FS_CardinalityType, FS_EmptySet

\* How many positions map to o after one position is updated.
LEMMA CardUpdate ==
    ASSUME NEW f \in [Slots -> Ptrs], NEW g, NEW d \in Slots, NEW v \in Ptrs,
           NEW o \in Objs, g = [f EXCEPT ![d] = v]
    PROVE  Cardinality({s \in Slots : g[s] = o}) =
              Cardinality({s \in Slots : f[s] = o})
                + (IF v = o THEN 1 ELSE 0) - (IF f[d] = o THEN 1 ELSE 0)
<1> DEFINE A == {s \in Slots : f[s] = o}
           B == {s \in Slots : g[s] = o}
<1> SUFFICES Cardinality(B) =
                Cardinality(A) + (IF v = o THEN 1 ELSE 0) - (IF f[d] = o THEN 1 ELSE 0)
  OBVIOUS
<1>1. A \in SUBSET Slots /\ IsFiniteSet(A) /\ Cardinality(A) \in Nat
  BY SlotSetCard
<1>2. CASE v = o /\ f[d] = o
  <2>1. B = A
    BY <1>2
  <2> HIDE DEF A, B
  <2> QED  BY <2>1, <1>1, <1>2
<1>3. CASE v = o /\ f[d] # o
  <2>1. B = A \cup {d} /\ d \notin A
    BY <1>3
  <2> HIDE DEF A, B
  <2>2. Cardinality(B) = Cardinality(A) + 1
    BY <2>1, <1>1, FS_AddElement
  <2> QED  BY <2>2, <1>1, <1>3
<1>4. CASE v # o /\ f[d] = o
  <2>1. B = A \ {d} /\ d \in A
    BY <1>4
  <2> HIDE DEF A, B
  <2>2. Cardinality(B) = Cardinality(A) - 1
    BY <2>1, <1>1, FS_RemoveElement
  <2> QED  BY <2>2, <1>1, <1>4
<1>5. CASE v # o /\ f[d] # o
  <2>1. B = A
    BY <1>5
  <2> HIDE DEF A, B
  <2> QED  BY <2>1, <1>1, <1>5
<1> QED  BY <1>2, <1>3, <1>4, <1>5

-----------------------------------------------------------------------------
(* The invariant holds initially.                                           *)

\* Initially nothing is allocated, declared or registered.
LEMMA InitIInv == Init => IInv
<1> SUFFICES ASSUME Init PROVE IInv
  OBVIOUS
<1> USE DEF Init
<1>1. TypeOK
  BY RCAssumption DEF TypeOK, Ptrs, Kinds, NoRegs, NoTmp, NoCont, DestructCall
<1>2. \A o \in Objs : Refs(o) = {}
  BY RCAssumption DEF Refs
<1>3. \A s : ~ Holds(s)
  BY DEF Holds
<1>4. CountInv /\ PosInv
  BY <1>2 DEF CountInv, PosInv
<1>5. CreditInv
  BY <1>3 DEF CreditInv
<1>6. ContInv /\ TmpInv
  BY DEF ContInv, TmpInv, NoCont, NoTmp, Running
<1>7. DyingInv /\ StkInv
  BY DEF DyingInv, StkInv, FinalizedOnce
<1>8. WeakInv
  BY <1>3 DEF WeakInv, NoRegs
<1> QED  BY <1>1, <1>4, <1>5, <1>6, <1>7, <1>8 DEF IInv

-----------------------------------------------------------------------------
(* A call of __egl_decr_ptr on a live object (or nil).                      *)

\* Holds, with the phases p of the teardowns and the scope S.
HoldsAt(S, p, s) ==
    \/ s \in S
    \/ \E o \in Objs, i \in 1..NF :
          /\ s = <<o, i>> /\ tear[o] # "none"
          /\ st[o] = "live" \/ (st[o] = "dying" /\ i >= p[o])

\* The variables that the end of __egl_decr_ptr and of __egl_check_ptr
\* assigns keep their types.
LEMMA FinalizeType ==
    ASSUME TypeOK, NEW p \in [Objs -> -1..(NF + 1)], NEW o \in Objs, Finalize(p, o)
    PROVE  /\ st' \in [Objs -> {"free", "live", "dying"}]
           /\ wrefs' \in [Objs -> [WSlots -> Nat]]
           /\ wslot' \in [WSlots -> Ptrs]
           /\ stk' \in Seq(Objs)
           /\ ph' \in [Objs -> -1..(NF + 1)]
<1>1. wslot' \in [WSlots -> Ptrs] /\ wrefs' \in [Objs -> [WSlots -> Nat]]
  BY DEF TypeOK, Finalize, SetNil, Ptrs, NoRegs
<1>2. /\ st' = [st EXCEPT ![o] = "dying"] \/ st' = [st EXCEPT ![o] = "free"]
      /\ stk' = Append(stk, o) \/ stk' = stk
  BY DEF Finalize
<1>3. st \in [Objs -> {"free", "live", "dying"}] /\ stk \in Seq(Objs)
  BY DEF TypeOK
<1>4. st' \in [Objs -> {"free", "live", "dying"}]
  BY <1>2, <1>3
<1>5. stk' \in Seq(Objs)
  <2>1. Append(stk, o) \in Seq(Objs)
    BY <1>3, AppendProperties
  <2> QED  BY <1>2, <1>3, <2>1
<1>6. ph' \in [Objs -> -1..(NF + 1)]
  <2>1. DestructCall \in -1..(NF + 1) /\ 1 \in -1..(NF + 1)
    BY RCAssumption DEF DestructCall
  <2>2. ph' = p \/ ph' = [p EXCEPT ![o] = DestructCall] \/ ph' = [p EXCEPT ![o] = 1]
    BY DEF Finalize
  <2> QED  BY <2>1, <2>2
<1> QED  BY <1>1, <1>4, <1>5, <1>6

\* The variables that __egl_decr_ptr assigns keep their types.
LEMMA DecrType ==
    ASSUME TypeOK, NEW mc \in [Objs -> Int], NEW p \in [Objs -> -1..(NF + 1)],
           NEW o \in Ptrs, DecrPtr(mc, p, o)
    PROVE  /\ st' \in [Objs -> {"free", "live", "dying"}]
           /\ memcount' \in [Objs -> Int]
           /\ wrefs' \in [Objs -> [WSlots -> Nat]]
           /\ wslot' \in [WSlots -> Ptrs]
           /\ stk' \in Seq(Objs)
           /\ ph' \in [Objs -> -1..(NF + 1)]
<1>1. CASE ~ (o # Nil /\ mc[o] = 1)
  BY <1>1 DEF TypeOK, DecrPtr, Ptrs
<1>2. CASE o # Nil /\ mc[o] = 1
  <2>1. o \in Objs /\ Finalize(p, o)
        /\ memcount' = [mc EXCEPT ![o] = IF tear[o] = "none" THEN 0 ELSE Finalizing]
    BY <1>2 DEF DecrPtr, Ptrs
  <2>2. memcount' \in [Objs -> Int]
    BY <2>1 DEF Finalizing
  <2> QED  BY <2>1, <2>2, FinalizeType
<1> QED  BY <1>1, <1>2

\* Finalizing an object changes no position: a teardown starts before the
\* first member, and an object without one has no members.
LEMMA FinalizeHolds ==
    ASSUME TypeOK, NEW p \in [Objs -> -1..(NF + 1)], NEW o \in Objs, Finalize(p, o),
           tear' = tear, st[o] = "live"
    PROVE  \A s : Holds(s)' <=> HoldsAt(scope', p, s)
<1>1. \A q \in Objs, i \in 1..NF :
         (tear[q] # "none" /\ (st'[q] = "live" \/ (st'[q] = "dying" /\ i >= ph'[q])))
         <=> (tear[q] # "none" /\ (st[q] = "live" \/ (st[q] = "dying" /\ i >= p[q])))
  <2>1. CASE tear[o] = "none"
    <3>1. st' = [st EXCEPT ![o] = "free"] /\ ph' = p
      BY <2>1 DEF Finalize
    <3> QED  BY <2>1, <3>1 DEF TypeOK
  <2>2. CASE tear[o] # "none"
    <3>1. st' = [st EXCEPT ![o] = "dying"]
      BY <2>2 DEF Finalize
    <3>2. ph' = [p EXCEPT ![o] = DestructCall] \/ ph' = [p EXCEPT ![o] = 1]
      BY <2>2 DEF Finalize
    <3> QED  BY <2>2, <3>1, <3>2 DEF TypeOK, DestructCall
  <2> QED  BY <2>1, <2>2
<1> QED  BY <1>1 DEF Holds, HoldsAt

\* A decrement changes no position.
LEMMA DecrHolds ==
    ASSUME TypeOK, NEW mc \in [Objs -> Int], NEW p \in [Objs -> -1..(NF + 1)],
           NEW o \in Ptrs, DecrPtr(mc, p, o), tear' = tear,
           o # Nil => st[o] = "live"
    PROVE  \A s : Holds(s)' <=> HoldsAt(scope', p, s)
<1>1. CASE ~ (o # Nil /\ mc[o] = 1)
  BY <1>1 DEF DecrPtr, Holds, HoldsAt
<1>2. CASE o # Nil /\ mc[o] = 1
  <2>1. o \in Objs /\ st[o] = "live" /\ Finalize(p, o)
    BY <1>2 DEF DecrPtr, Ptrs
  <2> QED  BY <2>1, FinalizeHolds
<1> QED  BY <1>1, <1>2

\* If the counts mc are exact but for the unit that o loses, the counts are
\* exact afterwards, and an object that lost its last unit is not live.
LEMMA DecrCount ==
    ASSUME TypeOK, NEW mc \in [Objs -> Int], NEW p,
           NEW o \in Ptrs, DecrPtr(mc, p, o), o # Nil => st[o] = "live",
           TypeOK',
           \A q \in Objs : st[q] = "live" =>
               mc[q] = Cardinality(Refs(q)') + Pending(q)' + (IF q = o THEN 1 ELSE 0),
           \A q \in Objs : st[q] # "live" => Refs(q)' = {},
           \A q \in Objs : st[q] = "live" /\ tmp' # [k |-> "transient", o |-> q]
               => mc[q] > 0
    PROVE  /\ CountInv' /\ PosInv'
           /\ \A q \in Objs : st[q] = "live" /\ Pending(q)' > 0 => st'[q] = "live"
<1>1. \A q \in Objs : /\ Cardinality(Refs(q)') \in Nat
                      /\ Cardinality(Refs(q)') = 0 => Refs(q)' = {}
  BY SlotSetCard DEF Refs
<1>2. \A q \in Objs : Pending(q)' \in Nat
  BY DEF Pending
<1>3. CASE ~ (o # Nil /\ mc[o] = 1)
  <2>1. st' = st /\ memcount' = IF o = Nil \/ mc[o] < 0 THEN mc ELSE [mc EXCEPT ![o] = @ - 1]
    BY <1>3 DEF DecrPtr
  <2>2. o # Nil => o \in Objs /\ mc[o] > 1
    BY <1>1, <1>2, <1>3 DEF Ptrs
  <2>3. \A q \in Objs : memcount'[q] = IF q = o THEN mc[q] - 1 ELSE mc[q]
    BY <2>1, <2>2, RCAssumption DEF Ptrs
  <2>4. CountInv'
    <3> SUFFICES ASSUME NEW q \in Objs
                 PROVE  /\ st'[q] = "live" => memcount'[q] = Cardinality(Refs(q)') + Pending(q)'
                        /\ st'[q] # "live" => Refs(q)' = {}
      BY DEF CountInv
    <3> QED  BY <2>1, <2>3, <1>1, <1>2
  <2>5. PosInv'
    BY <2>1, <2>2, <2>3 DEF PosInv
  <2> QED  BY <2>1, <2>4, <2>5
<1>4. CASE o # Nil /\ mc[o] = 1
  <2>1. /\ o \in Objs
        /\ st' = [st EXCEPT ![o] = IF tear[o] = "none" THEN "free" ELSE "dying"]
        /\ \A q \in Objs \ {o} : memcount'[q] = mc[q]
    BY <1>4 DEF DecrPtr, Finalize, Ptrs
  <2>2. st'[o] # "live" /\ \A q \in Objs \ {o} : st'[q] = st[q]
    BY <2>1 DEF TypeOK
  <2>3. Refs(o)' = {}
    BY <1>1, <1>2, <1>4, <2>1
  <2>4. CountInv'
    <3> SUFFICES ASSUME NEW q \in Objs
                 PROVE  /\ st'[q] = "live" => memcount'[q] = Cardinality(Refs(q)') + Pending(q)'
                        /\ st'[q] # "live" => Refs(q)' = {}
      BY DEF CountInv
    <3> QED  BY <2>1, <2>2, <2>3, <1>1, <1>2
  <2>5. PosInv'
    BY <2>1, <2>2 DEF PosInv
  <2>6. Pending(o)' = 0
    BY <1>1, <1>2, <1>4, <2>1
  <2> QED  BY <2>2, <2>4, <2>5, <2>6
<1> QED  BY <1>3, <1>4

\* The teardown stack stays the list of the dying objects, each once.
LEMMA FinalizeStk ==
    ASSUME TypeOK, StkInv, DyingInv, NEW p \in [Objs -> -1..(NF + 1)],
           NEW o \in Objs, Finalize(p, o), tear' = tear, st[o] = "live",
           \A q \in Objs : st[q] # "live" => memcount'[q] = memcount[q],
           tear[o] # "none" => \/ memcount'[o] = Finalizing
                               \/ memcount'[o] = 0 /\ "discard" \in Idioms,
           \A q \in Objs : p[q] < 1 => ph[q] < 1
    PROVE  StkInv' /\ DyingInv'
<1>1. CASE tear[o] = "none"
  <2>1. st' = [st EXCEPT ![o] = "free"] /\ ph' = p /\ stk' = stk
    BY <1>1 DEF Finalize
  <2>2. StkInv'
    <3>1. \A q \in Objs : st'[q] = "dying" <=> st[q] = "dying"
      BY <2>1 DEF TypeOK
    <3> QED  BY <2>1, <3>1 DEF StkInv, FinalizedOnce
  <2>3. DyingInv'
    BY <2>1 DEF DyingInv, TypeOK
  <2> QED  BY <2>2, <2>3
<1>2. CASE tear[o] # "none"
  <2>1. /\ st' = [st EXCEPT ![o] = "dying"]
        /\ ph' = [p EXCEPT ![o] = IF tear[o] = "destruct" THEN DestructCall ELSE 1]
        /\ stk' = Append(stk, o)
    BY <1>2 DEF Finalize
  <2>2. /\ Len(stk') = Len(stk) + 1 /\ stk'[Len(stk) + 1] = o
        /\ \A i \in 1..Len(stk) : stk'[i] = stk[i]
        /\ Len(stk) \in Nat
    BY <2>1 DEF TypeOK
  <2>3. \A i \in 1..Len(stk) : stk[i] # o
    BY DEF StkInv
  <2>4. FinalizedOnce'
    BY <2>2, <2>3 DEF StkInv, FinalizedOnce
  <2>5. \A q \in Objs : st'[q] = "dying" <=> \E i \in 1..Len(stk') : stk'[i] = q
    <3> SUFFICES ASSUME NEW q \in Objs
                 PROVE  st'[q] = "dying" <=> \E i \in 1..Len(stk') : stk'[i] = q
      OBVIOUS
    <3>1. CASE q = o
      BY <3>1, <2>1, <2>2 DEF TypeOK
    <3>2. CASE q # o
      <4>1. st'[q] = st[q]
        BY <3>2, <2>1 DEF TypeOK
      <4>2. (\E i \in 1..Len(stk') : stk'[i] = q) <=> (\E i \in 1..Len(stk) : stk[i] = q)
        BY <3>2, <2>2
      <4> QED  BY <4>1, <4>2 DEF StkInv
    <3> QED  BY <3>1, <3>2
  <2>6. DyingInv'
    <3> SUFFICES ASSUME NEW q \in Objs
                 PROVE  /\ tear'[q] = "destruct" => "destruct" \in Idioms
                        /\ st'[q] = "dying" =>
                            /\ tear'[q] # "none"
                            /\ ph'[q] < 1 => tear'[q] = "destruct"
                            /\ \/ memcount'[q] = Finalizing
                               \/ memcount'[q] = 0 /\ "discard" \in Idioms
      BY DEF DyingInv
    <3>1. CASE q = o
      BY <3>1, <2>1, <1>2 DEF DyingInv, TypeOK
    <3>2. CASE q # o
      BY <3>2, <2>1 DEF DyingInv, TypeOK
    <3> QED  BY <3>1, <3>2
  <2> QED  BY <2>4, <2>5, <2>6 DEF StkInv
<1> QED  BY <1>1, <1>2

\* The same for a decrement.
LEMMA DecrStk ==
    ASSUME TypeOK, StkInv, DyingInv, NEW mc \in [Objs -> Int],
           NEW p \in [Objs -> -1..(NF + 1)], NEW o \in Ptrs, DecrPtr(mc, p, o),
           tear' = tear, o # Nil => st[o] = "live" /\ mc[o] > 0,
           \A q \in Objs : st[q] # "live" => mc[q] = memcount[q],
           \A q \in Objs : p[q] < 1 => ph[q] < 1
    PROVE  StkInv' /\ DyingInv'
<1>1. CASE ~ (o # Nil /\ mc[o] = 1)
  <2>1. /\ st' = st /\ stk' = stk /\ ph' = p
        /\ memcount' = IF o = Nil \/ mc[o] < 0 THEN mc ELSE [mc EXCEPT ![o] = @ - 1]
    BY <1>1 DEF DecrPtr
  <2>2. \A q \in Objs : st[q] # "live" => memcount'[q] = memcount[q]
    BY <2>1 DEF Ptrs
  <2>3. StkInv'
    BY <2>1 DEF StkInv, FinalizedOnce
  <2>4. DyingInv'
    BY <2>1, <2>2 DEF DyingInv
  <2> QED  BY <2>3, <2>4
<1>2. CASE o # Nil /\ mc[o] = 1
  <2>1. /\ o \in Objs /\ st[o] = "live" /\ Finalize(p, o)
        /\ memcount' = [mc EXCEPT ![o] = IF tear[o] = "none" THEN 0 ELSE Finalizing]
    BY <1>2 DEF DecrPtr, Ptrs
  <2>2. /\ \A q \in Objs : st[q] # "live" => memcount'[q] = memcount[q]
        /\ tear[o] # "none" => memcount'[o] = Finalizing
    BY <2>1
  <2> QED  BY <2>1, <2>2, FinalizeStk
<1> QED  BY <1>1, <1>2

\* Weak positions of a finalized object are cleared; the others are kept.
LEMMA FinalizeWeak ==
    ASSUME TypeOK, WeakInv, NEW p, NEW o \in Objs, Finalize(p, o),
           \A w \in WSlots : Holds(w)' <=> Holds(w)
    PROVE  WeakInv'
<1>1. /\ SetNil(o)
      /\ st' = [st EXCEPT ![o] = "dying"] \/ st' = [st EXCEPT ![o] = "free"]
  BY DEF Finalize
<1>2. \A w \in WSlots : wrefs'[o][w] = 0
  BY <1>1 DEF SetNil, NoRegs, TypeOK
<1>3. \A q \in Objs \ {o} : wrefs'[q] = wrefs[q] /\ st'[q] = st[q]
  BY <1>1 DEF SetNil, TypeOK
<1>4. \A w \in WSlots : wslot'[w] = IF wslot[w] = o /\ wrefs[o][w] = 1 THEN Nil ELSE wslot[w]
  BY <1>1 DEF SetNil, WeakInv
<1>5. \A q \in Objs, w \in WSlots :
         /\ wrefs'[q][w] \in {0, 1}
         /\ wrefs'[q][w] = 1 => Holds(w)' /\ wslot'[w] = q /\ st'[q] = "live"
  <2> SUFFICES ASSUME NEW q \in Objs, NEW w \in WSlots
               PROVE  /\ wrefs'[q][w] \in {0, 1}
                      /\ wrefs'[q][w] = 1 => Holds(w)' /\ wslot'[w] = q /\ st'[q] = "live"
    OBVIOUS
  <2>1. CASE q = o
    BY <2>1, <1>2
  <2>2. CASE q # o
    BY <2>2, <1>3, <1>4 DEF WeakInv
  <2> QED  BY <2>1, <2>2
<1>6. \A w \in WSlots : Holds(w)' /\ wslot'[w] # Nil => wrefs'[wslot'[w]][w] = 1
  <2> SUFFICES ASSUME NEW w \in WSlots, Holds(w)', wslot'[w] # Nil
               PROVE  wrefs'[wslot'[w]][w] = 1
    OBVIOUS
  <2>1. Holds(w) /\ wslot'[w] = wslot[w] /\ wrefs[wslot[w]][w] = 1
    BY <1>4 DEF WeakInv
  <2>2. wslot[w] # o /\ wslot[w] \in Objs
    BY <2>1, <1>4 DEF TypeOK, Ptrs
  <2> QED  BY <2>1, <2>2, <1>3
<1> QED  BY <1>5, <1>6 DEF WeakInv

\* The same for a decrement.
LEMMA DecrWeak ==
    ASSUME TypeOK, WeakInv, NEW mc \in [Objs -> Int], NEW p,
           NEW o \in Ptrs, DecrPtr(mc, p, o),
           \A w \in WSlots : Holds(w)' <=> Holds(w)
    PROVE  WeakInv'
<1>1. CASE ~ (o # Nil /\ mc[o] = 1)
  BY <1>1 DEF DecrPtr, WeakInv
<1>2. CASE o # Nil /\ mc[o] = 1
  <2>1. o \in Objs /\ Finalize(p, o)
    BY <1>2 DEF DecrPtr, Ptrs
  <2> QED  BY <2>1, FinalizeWeak
<1> QED  BY <1>1, <1>2

-----------------------------------------------------------------------------
(* What the invariant says to a statement that starts.                      *)

\* A credited object is live.
LEMMA CreditLive ==
    ASSUME IInv, NEW s \in Slots, credit[s] # Nil
    PROVE  credit[s] \in Objs /\ st[credit[s]] = "live"
<1>1. credit[s] \in Objs /\ s \in Refs(credit[s])
  BY DEF IInv, TypeOK, Ptrs, Refs
<1> QED  BY <1>1 DEF IInv, CountInv

\* What a weak position contains is live.
LEMMA WeakLive ==
    ASSUME IInv, NEW w \in WSlots, Holds(w), wslot[w] # Nil
    PROVE  wslot[w] \in Objs /\ st[wslot[w]] = "live"
<1>1. wslot[w] \in Objs
  BY DEF IInv, TypeOK, Ptrs
<1>2. wrefs[wslot[w]][w] = 1
  BY DEF IInv, WeakInv
<1> QED  BY <1>1, <1>2 DEF IInv, WeakInv

\* While a statement runs, every position contains what it is credited with,
\* and no object is being torn down.
LEMMA RunningSlots ==
    ASSUME IInv, Running
    PROVE  /\ cont.d = Nil
           /\ \A s \in Slots : s # cont.d
           /\ \A s \in Slots : Holds(s) =>
                 credit[s] = slot[s] /\ (slot[s] # Nil => slot[s] \in Objs /\ st[slot[s]] = "live")
           /\ \A o \in Objs : st[o] # "dying"
<1>1. cont.d = Nil
  BY DEF Running, NoCont
<1>2. Nil \notin Slots
  BY PositionsApart
<1>3. \A s \in Slots : Holds(s) => credit[s] = slot[s]
  BY <1>1, <1>2 DEF IInv, CreditInv
<1>4. \A o \in Objs : st[o] # "dying"
  <2>1. Len(stk) = 0
    BY DEF Running
  <2> QED  BY <2>1 DEF IInv, StkInv
<1> QED  BY <1>1, <1>2, <1>3, <1>4, CreditLive

\* The objects a statement can name are live.
LEMMA NamedLive ==
    ASSUME IInv, Running
    PROVE  \A o \in Named : o \in Objs /\ st[o] = "live"
<1> SUFFICES ASSUME NEW o \in Named PROVE o \in Objs /\ st[o] = "live"
  OBVIOUS
<1>1. CASE o \in Local
  <2>1. PICK v \in scope \cap Vars : slot[v] = o /\ o # Nil
    BY <1>1 DEF Local
  <2>2. v \in Slots /\ Holds(v)
    BY DEF Slots, Holds
  <2> QED  BY <2>1, <2>2, RunningSlots
<1>2. CASE o \in WLocal
  <2>1. PICK w \in scope \cap WVars : wslot[w] = o /\ o # Nil
    BY <1>2 DEF WLocal
  <2>2. w \in WSlots /\ Holds(w)
    BY DEF WSlots, Holds
  <2> QED  BY <2>1, <2>2, WeakLive
<1>3. CASE o \in Self
  <2>1. o = tmp.o /\ tmp.k # "none"
    BY <1>3 DEF Self
  <2> QED  BY <2>1 DEF IInv, TmpInv, TypeOK, Ptrs
<1> QED  BY <1>1, <1>2, <1>3 DEF Named

\* The positions a statement can reach hold references.
LEMMA PositionsHold ==
    ASSUME IInv, Running, NEW S \in SUBSET Named
    PROVE  /\ \A d \in Positions(S) : d \in Slots /\ Holds(d)
           /\ \A w \in WPositions(S) : w \in WSlots /\ Holds(w)
<1>1. \A d \in scope : Holds(d)
  BY DEF Holds
<1>2. ASSUME NEW d \in Members(S) PROVE Holds(d)
  <2>1. PICK o \in S, i \in 1..NF : d = <<o, i>> /\ tear[o] # "none"
    BY <1>2 DEF Members
  <2>2. o \in Objs /\ st[o] = "live"
    BY NamedLive
  <2> QED  BY <2>1, <2>2 DEF Holds
<1> QED  BY <1>1, <1>2 DEF Positions, WPositions

\* The values an expression can read are nil or live.
LEMMA ValuesLive ==
    ASSUME IInv, Running, NEW v \in Values
    PROVE  v \in Ptrs /\ (v # Nil => v \in Objs /\ st[v] = "live")
<1>1. CASE v = Nil
  BY <1>1 DEF Ptrs
<1>2. CASE \E s \in Positions(Named) : v = slot[s]
  <2>1. PICK s \in Positions(Named) : v = slot[s]
    BY <1>2
  <2>2. s \in Slots /\ Holds(s)
    BY PositionsHold
  <2> QED  BY <2>1, <2>2, RunningSlots DEF Ptrs
<1>3. CASE \E w \in WPositions(Named) : v = wslot[w]
  <2>1. PICK w \in WPositions(Named) : v = wslot[w]
    BY <1>3
  <2>2. w \in WSlots /\ Holds(w)
    BY PositionsHold
  <2> QED  BY <2>1, <2>2, WeakLive DEF Ptrs
<1> QED  BY <1>1, <1>2, <1>3 DEF Values

\* A member that may be assigned belongs to an object that a variable or the
\* current expression keeps alive.
LEMMA BasesAnchored ==
    ASSUME IInv, Running, SafeIdioms, NEW S \in SUBSET (Bases \cup Self), NEW d \in Positions(S)
    PROVE  d \in Vars \/ \E o \in S : o \in Objs /\ d \in {o} \X Strong /\ Anchored(o)
<1>1. Bases = Local
  BY DEF SafeIdioms, Bases
<1>2. \A o \in S : o \in Named /\ o \in Objs
  BY <1>1, NamedLive DEF Named
<1>3. \A o \in S : Anchored(o)
  <2> SUFFICES ASSUME NEW o \in S PROVE Anchored(o)
    OBVIOUS
  <2>1. CASE o \in Self
    BY <2>1 DEF Self, Anchored, Pending
  <2>2. CASE o \in Local
    <3>1. PICK v \in scope \cap Vars : slot[v] = o /\ o # Nil
      BY <2>2 DEF Local
    <3>2. v \in Slots /\ Holds(v)
      BY DEF Slots, Holds
    <3>3. credit[v] = o
      BY <3>1, <3>2, RunningSlots
    <3> QED  BY <3>3 DEF Anchored
  <2> QED  BY <2>1, <2>2, <1>1
<1>4. CASE d \in Vars
  BY <1>4
<1>5. CASE d \in Objs \X Strong
  <2>1. d \notin scope
    BY <1>5, PositionsApart DEF IInv, TypeOK
  <2>2. d \in Members(S)
    BY <2>1 DEF Positions
  <2>3. PICK o \in S, i \in 1..NF : d = <<o, i>>
    BY <2>2 DEF Members
  <2>4. i \in Strong
    BY <2>3, <1>5
  <2> QED  BY <2>3, <2>4, <1>2, <1>3
<1> QED  BY <1>4, <1>5 DEF Positions, Slots

-----------------------------------------------------------------------------
(* The steps of a statement.                                                *)

\* Counts are not negative.
LEMMA CountNat ==
    ASSUME IInv, NEW o \in Objs
    PROVE  /\ Cardinality(Refs(o)) \in Nat /\ Pending(o) \in Nat
           /\ st[o] = "live" => memcount[o] >= 0 /\ memcount[o] = Cardinality(Refs(o)) + Pending(o)
<1>1. Cardinality(Refs(o)) \in Nat
  BY SlotSetCard DEF Refs
<1>2. Pending(o) \in Nat
  BY DEF Pending
<1> QED  BY <1>1, <1>2 DEF IInv, CountInv

\* ac_safe_store, up to the decrement of the old value.
LEMMA StoreStep ==
    ASSUME IInv, Running, NEW d \in Slots, Holds(d),
           NEW v \in Ptrs, v # Nil => st[v] = "live",
           NEW counted \in BOOLEAN, BeginStore(d, v, counted),
           \/ tmp' = tmp /\ tmp.k # "transient" /\ ~ counted
           \/ /\ tmp' = NoTmp /\ v = tmp.o
              /\ (tmp.k = "loaded" /\ counted) \/ (tmp.k = "transient" /\ ~ counted),
           \/ d \in Vars
           \/ \E o \in Objs : /\ d \in {o} \X Strong
                              /\ Pending(o)' > 0 \/ \E x \in Vars \cap scope : credit[x] = o
    PROVE  IInv'
<1> DEFINE old == slot[d]
           mc  == IF counted THEN memcount ELSE IncrPtr(memcount, v)
<1>1. /\ DecrPtr(mc, ph, old)
      /\ cont' = [d |-> d, v |-> v] /\ credit' = [credit EXCEPT ![d] = v]
      /\ tear' = tear /\ slot' = slot /\ scope' = scope
  BY DEF BeginStore
<1>2. credit[d] = old /\ old \in Ptrs /\ (old # Nil => old \in Objs /\ st[old] = "live")
  BY RunningSlots DEF IInv, TypeOK
<1>3. /\ mc \in [Objs -> Int]
      /\ \A q \in Objs : mc[q] = memcount[q] + (IF ~ counted /\ q = v THEN 1 ELSE 0)
  <2>1. v # Nil => v \in Objs /\ memcount[v] > -5
    BY CountNat DEF Ptrs
  <2>2. memcount \in [Objs -> Int] /\ Nil \notin Objs
    BY RCAssumption DEF IInv, TypeOK
  <2> QED  BY <2>1, <2>2 DEF IncrPtr
<1> HIDE DEF mc
<1>4. TypeOK'
  <2>1. TypeOK /\ ph \in [Objs -> -1..(NF + 1)]
    BY DEF IInv, TypeOK
  <2>2. /\ st' \in [Objs -> {"free", "live", "dying"}] /\ memcount' \in [Objs -> Int]
        /\ wrefs' \in [Objs -> [WSlots -> Nat]] /\ wslot' \in [WSlots -> Ptrs]
        /\ stk' \in Seq(Objs) /\ ph' \in [Objs -> -1..(NF + 1)]
    BY <2>1, <1>1, <1>2, <1>3, DecrType
  <2>3. tmp' \in [k : {"none", "init", "transient", "loaded"}, o : Ptrs]
    BY <2>1 DEF TypeOK, NoTmp, Ptrs
  <2>4. cont' \in [d : Slots \cup {Nil}, v : Ptrs] /\ credit' \in [Slots -> Ptrs]
    BY <2>1, <1>1 DEF TypeOK
  <2> QED  BY <2>1, <2>2, <2>3, <2>4, <1>1 DEF TypeOK
<1>5. \A s : Holds(s)' <=> Holds(s)
  <2>1. \A s : Holds(s)' <=> HoldsAt(scope', ph, s)
    BY <1>1, <1>2, <1>3, DecrHolds DEF IInv, TypeOK
  <2> QED  BY <2>1, <1>1 DEF Holds, HoldsAt
<1>6. \A q \in Objs : Pending(q)' = Pending(q) - (IF counted /\ q = v THEN 1 ELSE 0)
  BY RCAssumption DEF Pending, NoTmp
<1>7. \A q \in Objs : Cardinality(Refs(q)') =
          Cardinality(Refs(q)) + (IF v = q THEN 1 ELSE 0) - (IF old = q THEN 1 ELSE 0)
  <2> SUFFICES ASSUME NEW q \in Objs
               PROVE  Cardinality(Refs(q)') = Cardinality(Refs(q))
                        + (IF v = q THEN 1 ELSE 0) - (IF old = q THEN 1 ELSE 0)
    OBVIOUS
  <2>1. credit \in [Slots -> Ptrs]
    BY DEF IInv, TypeOK
  <2>2. Refs(q)' = {s \in Slots : credit'[s] = q} /\ Refs(q) = {s \in Slots : credit[s] = q}
    BY DEF Refs
  <2>3. Cardinality({s \in Slots : credit'[s] = q}) = Cardinality({s \in Slots : credit[s] = q})
            + (IF v = q THEN 1 ELSE 0) - (IF credit[d] = q THEN 1 ELSE 0)
    BY <2>1, <1>1, CardUpdate
  <2> QED  BY <2>2, <2>3, <1>2
<1>8. \A q \in Objs : st[q] = "live" =>
          mc[q] = Cardinality(Refs(q)') + Pending(q)' + (IF q = old THEN 1 ELSE 0)
  BY <1>3, <1>6, <1>7, CountNat
<1>9. \A q \in Objs : st[q] # "live" => Refs(q)' = {} /\ mc[q] = memcount[q]
  <2> SUFFICES ASSUME NEW q \in Objs, st[q] # "live"
               PROVE  Refs(q)' = {} /\ mc[q] = memcount[q]
    OBVIOUS
  <2>1. q # v /\ Refs(q) = {}
    BY RCAssumption DEF IInv, CountInv
  <2> QED  BY <2>1, <1>1, <1>3 DEF Refs, IInv, TypeOK
<1>10. \A q \in Objs : st[q] = "live" /\ tmp' # [k |-> "transient", o |-> q] => mc[q] > 0
  <2> SUFFICES ASSUME NEW q \in Objs, st[q] = "live" PROVE mc[q] > 0
    OBVIOUS
  <2>1. CASE tmp = [k |-> "transient", o |-> q]
    BY <2>1, <1>3, CountNat DEF IInv, TypeOK
  <2>2. CASE tmp # [k |-> "transient", o |-> q]
    <3>1. memcount[q] > 0 /\ memcount[q] \in Int
      BY <2>2 DEF IInv, TypeOK, PosInv
    <3> QED  BY <3>1, <1>3
  <2> QED  BY <2>1, <2>2
<1>11. /\ CountInv' /\ PosInv'
       /\ \A q \in Objs : st[q] = "live" /\ Pending(q)' > 0 => st'[q] = "live"
  BY <1>1, <1>2, <1>3, <1>4, <1>8, <1>9, <1>10, DecrCount DEF IInv
<1>12. StkInv' /\ DyingInv'
  <2>1. old # Nil => st[old] = "live" /\ mc[old] > 0
    <3>1. \A q \in Objs : Cardinality(Refs(q)') \in Nat /\ Pending(q)' \in Nat
      BY SlotSetCard DEF Refs, Pending
    <3>2. \A q \in Objs : st[q] = "live" /\ q = old => mc[q] > 0
      BY <3>1, <1>8
    <3> QED  BY <3>2, <1>2
  <2>2. ph \in [Objs -> -1..(NF + 1)]
    BY DEF IInv, TypeOK
  <2>3. TypeOK /\ StkInv /\ DyingInv
    BY DEF IInv
  <2> HIDE DEF old
  <2> QED  BY <2>1, <2>2, <2>3, <1>1, <1>2, <1>3, <1>9, DecrStk
<1>13. WeakInv'
  BY <1>1, <1>2, <1>3, <1>5, DecrWeak DEF IInv
<1>14. CreditInv'
  BY <1>1, <1>5, RunningSlots DEF IInv, CreditInv, TypeOK
<1>15. ContInv'
  <2>1. cont'.d = d /\ cont'.v = v /\ d # Nil
    BY <1>1, PositionsApart
  <2>2. Holds(d)' /\ credit'[d] = v
    BY <1>1, <1>5 DEF IInv, TypeOK
  <2>3. d \in Vars \/ \E o \in Objs : Anchored(o)' /\ d \in {o} \X Strong
    <3> SUFFICES ASSUME d \notin Vars
                 PROVE  \E o \in Objs : Anchored(o)' /\ d \in {o} \X Strong
      OBVIOUS
    <3>1. PICK o \in Objs : /\ d \in {o} \X Strong
                            /\ Pending(o)' > 0 \/ \E x \in Vars \cap scope : credit[x] = o
      OBVIOUS
    <3>2. \A x \in Vars : credit'[x] = credit[x]
      BY <1>1 DEF IInv, TypeOK, Slots
    <3>3. Anchored(o)'
      BY <3>1, <3>2, <1>1 DEF Anchored
    <3> QED  BY <3>1, <3>3
  <2>4. Holds(cont.d)' <=> Holds(d)'
    BY <2>1 DEF Holds
  <2> QED  BY <2>1, <2>2, <2>3, <2>4 DEF ContInv
<1>16. TmpInv'
  <2>1. CASE tmp' = NoTmp
    BY <2>1 DEF TmpInv, NoTmp
  <2>2. CASE tmp' = tmp /\ tmp.k # "transient"
    <3>1. tmp.k # "none" => tmp.o \in Objs /\ st[tmp.o] = "live" /\ Pending(tmp.o)' > 0
      BY <2>2 DEF IInv, TmpInv, TypeOK, Ptrs, Pending
    <3> QED  BY <2>2, <3>1, <1>11 DEF IInv, TmpInv
  <2> QED  BY <2>1, <2>2
<1> QED  BY <1>4, <1>11, <1>12, <1>13, <1>14, <1>15, <1>16 DEF IInv

\* What stays true of a statement's step that leaves cont and stk alone.
LEMMA StillRunning ==
    ASSUME IInv, Running, cont' = cont, stk' = stk
    PROVE  ContInv' /\ Running'
BY DEF Running, ContInv, NoCont

\* A declared variable is nil and was not credited before.
LEMMA DeclareStep ==
    ASSUME IInv, NEW v \in Vars \cup WVars, Declare(v)
    PROVE  IInv'
<1>1. /\ Running /\ v \notin scope /\ scope' = scope \cup {v}
      /\ slot' = IF v \in Vars THEN [slot EXCEPT ![v] = Nil] ELSE slot
      /\ wslot' = IF v \in WVars THEN [wslot EXCEPT ![v] = Nil] ELSE wslot
      /\ st' = st /\ memcount' = memcount /\ tear' = tear /\ wrefs' = wrefs
      /\ tmp' = tmp /\ cont' = cont /\ stk' = stk /\ ph' = ph /\ credit' = credit
  BY DEF Declare, heapVars
<1>2. ContInv' /\ Running'
  BY <1>1, StillRunning
<1>3. TypeOK'
  BY <1>1 DEF IInv, TypeOK, Ptrs
<1>4. ~ Holds(v)
  BY <1>1, PositionsApart DEF Holds
<1>5. \A s : Holds(s)' <=> Holds(s) \/ s = v
  BY <1>1 DEF Holds
<1>6. CountInv' /\ PosInv'
  BY <1>1 DEF IInv, CountInv, PosInv, Refs, Pending
<1>7. CreditInv'
  <2> SUFFICES ASSUME NEW s \in Slots
               PROVE  /\ Holds(s)' /\ s # cont'.d => credit'[s] = slot'[s]
                      /\ ~ Holds(s)' => credit'[s] = Nil
    BY DEF CreditInv
  <2>1. s = v => v \in Vars
    BY PositionsApart DEF WSlots
  <2> QED  BY <2>1, <1>1, <1>4, <1>5 DEF IInv, CreditInv, TypeOK
<1>8. TmpInv' /\ DyingInv' /\ StkInv'
  BY <1>1, <1>2 DEF IInv, TmpInv, DyingInv, StkInv, FinalizedOnce
<1>9. WeakInv'
  <2>1. \A o \in Objs, w \in WSlots : wrefs[o][w] = 1 => w # v
    BY <1>4 DEF IInv, WeakInv
  <2>2. \A w \in WSlots : w = v => wslot'[w] = Nil
    <3>1. \A w \in WSlots : w = v => v \in WVars
      BY PositionsApart DEF Slots
    <3> QED  BY <3>1, <1>1 DEF IInv, TypeOK
  <2>3. \A w \in WSlots : w # v => wslot'[w] = wslot[w]
    BY <1>1 DEF IInv, TypeOK
  <2> QED  BY <2>1, <2>2, <2>3, <1>1, <1>5 DEF IInv, WeakInv
<1> QED  BY <1>2, <1>3, <1>6, <1>7, <1>8, <1>9 DEF IInv

\* A new object is referred to by nothing, and its members are nil.
LEMMA NewStep ==
    ASSUME IInv, NEW o \in Objs, NEW kind \in Kinds, NEW hasInit \in BOOLEAN,
           New(o, kind, hasInit)
    PROVE  IInv'
<1>1. /\ Running /\ tmp = NoTmp /\ st[o] = "free"
      /\ kind = "destruct" => "destruct" \in Idioms
      /\ st' = [st EXCEPT ![o] = "live"]
      /\ memcount' = [memcount EXCEPT ![o] = IF hasInit THEN 2 ELSE 0]
      /\ tear' = [tear EXCEPT ![o] = kind]
      /\ wrefs' = [wrefs EXCEPT ![o] = NoRegs]
      /\ slot' = [s \in Slots |-> IF s \in {o} \X Strong THEN Nil ELSE slot[s]]
      /\ wslot' = [w \in WSlots |-> IF w \in {o} \X Weak THEN Nil ELSE wslot[w]]
      /\ tmp' = [k |-> IF hasInit THEN "init" ELSE "transient", o |-> o]
      /\ scope' = scope /\ cont' = cont /\ stk' = stk /\ ph' = ph /\ credit' = credit
  BY DEF New
<1>2. ContInv' /\ Running'
  BY <1>1, StillRunning
<1>3. TypeOK'
  <2>1. TypeOK
    BY DEF IInv
  <2>2. st' \in [Objs -> {"free", "live", "dying"}] /\ memcount' \in [Objs -> Int]
    BY <1>1, <2>1 DEF TypeOK
  <2>3. tear' \in [Objs -> Kinds] /\ wrefs' \in [Objs -> [WSlots -> Nat]]
    BY <1>1, <2>1 DEF TypeOK, NoRegs
  <2>4. slot' \in [Slots -> Ptrs] /\ wslot' \in [WSlots -> Ptrs]
    BY <1>1, <2>1 DEF TypeOK, Ptrs
  <2>5. tmp' \in [k : {"none", "init", "transient", "loaded"}, o : Ptrs]
    BY <1>1 DEF Ptrs
  <2> QED  BY <1>1, <2>1, <2>2, <2>3, <2>4, <2>5 DEF TypeOK
<1>4. \A i \in 1..NF : ~ Holds(<<o, i>>)
  <2> SUFFICES ASSUME NEW i \in 1..NF, Holds(<<o, i>>) PROVE FALSE
    OBVIOUS
  <2>1. <<o, i>> \notin scope
    BY PositionsApart DEF IInv, TypeOK
  <2> QED  BY <2>1, <1>1 DEF Holds
<1>5. \A s : Holds(s)' <=> Holds(s) \/ (kind # "none" /\ s \in {o} \X (1..NF))
  <2>1. \A q \in Objs : q # o => st'[q] = st[q] /\ tear'[q] = tear[q] /\ ph'[q] = ph[q]
    BY <1>1 DEF IInv, TypeOK
  <2>2. st'[o] = "live" /\ tear'[o] = kind
    BY <1>1 DEF IInv, TypeOK
  <2> QED  BY <2>1, <2>2, <1>1 DEF Holds
<1>6. \A q \in Objs : Refs(q)' = Refs(q) /\ Pending(q) = 0
                      /\ Pending(q)' = IF q = o /\ hasInit THEN 2 ELSE 0
  BY <1>1, RCAssumption DEF Refs, Pending, NoTmp
<1>7. Refs(o) = {} /\ Cardinality(Refs(o)) = 0
  <2>1. Refs(o) = {}
    BY <1>1 DEF IInv, CountInv
  <2> QED  BY <2>1, FS_EmptySet
<1>8. CountInv'
  <2> SUFFICES ASSUME NEW q \in Objs
               PROVE  /\ st'[q] = "live" => memcount'[q] = Cardinality(Refs(q)') + Pending(q)'
                      /\ st'[q] # "live" => Refs(q)' = {}
    BY DEF CountInv
  <2>1. CASE q = o
    <3>1. st'[q] = "live" /\ memcount'[q] = IF hasInit THEN 2 ELSE 0
      BY <2>1, <1>1 DEF IInv, TypeOK
    <3> QED  BY <2>1, <3>1, <1>6, <1>7
  <2>2. CASE q # o
    <3>1. st'[q] = st[q] /\ memcount'[q] = memcount[q]
      BY <2>2, <1>1 DEF IInv, TypeOK
    <3> QED  BY <2>2, <3>1, <1>6 DEF IInv, CountInv
  <2> QED  BY <2>1, <2>2
<1>9. PosInv'
  <2> SUFFICES ASSUME NEW q \in Objs, st'[q] = "live", tmp' # [k |-> "transient", o |-> q]
               PROVE  memcount'[q] > 0
    BY DEF PosInv
  <2>1. CASE q = o
    BY <2>1, <1>1 DEF IInv, TypeOK
  <2>2. CASE q # o
    <3>1. st'[q] = st[q] /\ memcount'[q] = memcount[q]
      BY <2>2, <1>1 DEF IInv, TypeOK
    <3>2. tmp # [k |-> "transient", o |-> q]
      BY <1>1 DEF NoTmp
    <3> QED  BY <3>1, <3>2 DEF IInv, PosInv
  <2> QED  BY <2>1, <2>2
<1>10. CreditInv'
  <2> SUFFICES ASSUME NEW s \in Slots
               PROVE  /\ Holds(s)' /\ s # cont'.d => credit'[s] = slot'[s]
                      /\ ~ Holds(s)' => credit'[s] = Nil
    BY DEF CreditInv
  <2>1. CASE s \in {o} \X Strong
    <3>1. PICK i \in Strong : s = <<o, i>>
      BY <2>1
    <3>2. i \in 1..NF
      BY RCAssumption
    <3>3. ~ Holds(s)
      BY <3>1, <3>2, <1>4
    <3> QED  BY <2>1, <3>3, <1>1 DEF IInv, CreditInv
  <2>2. CASE s \notin {o} \X Strong
    <3>1. s \notin {o} \X (1..NF)
      <4> SUFFICES ASSUME s \in {o} \X (1..NF) PROVE FALSE
        OBVIOUS
      <4>1. s \in Vars => FALSE
        BY PositionsApart
      <4> QED  BY <4>1, <2>2 DEF Slots
    <3> QED  BY <2>2, <3>1, <1>1, <1>5 DEF IInv, CreditInv
  <2> QED  BY <2>1, <2>2
<1>11. TmpInv' /\ DyingInv' /\ StkInv'
  <2>1. TmpInv'
    BY <1>1, <1>2, RCAssumption DEF IInv, TmpInv, TypeOK
  <2>2. DyingInv'
    BY <1>1 DEF IInv, DyingInv, TypeOK
  <2>3. \A q \in Objs : st'[q] = "dying" <=> st[q] = "dying"
    BY <1>1 DEF IInv, TypeOK
  <2> QED  BY <2>1, <2>2, <2>3, <1>1 DEF IInv, StkInv, FinalizedOnce
<1>12. WeakInv'
  <2>1. \A w \in {o} \X Weak : ~ Holds(w)
    BY <1>4, RCAssumption
  <2>2. \A w \in WSlots : wrefs'[o][w] = 0 /\ wrefs[o][w] # 1
    BY <1>1 DEF IInv, WeakInv, TypeOK, NoRegs
  <2>3. \A q \in Objs \ {o} : wrefs'[q] = wrefs[q] /\ st'[q] = st[q]
    BY <1>1 DEF IInv, TypeOK
  <2>4. \A w \in WSlots : wslot'[w] = IF w \in {o} \X Weak THEN Nil ELSE wslot[w]
    BY <1>1
  <2>5. \A q \in Objs, w \in WSlots :
           /\ wrefs'[q][w] \in {0, 1}
           /\ wrefs'[q][w] = 1 => Holds(w)' /\ wslot'[w] = q /\ st'[q] = "live"
    <3> SUFFICES ASSUME NEW q \in Objs, NEW w \in WSlots
                 PROVE  /\ wrefs'[q][w] \in {0, 1}
                        /\ wrefs'[q][w] = 1 => Holds(w)' /\ wslot'[w] = q /\ st'[q] = "live"
      OBVIOUS
    <3>1. CASE q = o
      BY <3>1, <2>2
    <3>2. CASE q # o
      BY <3>2, <2>1, <2>3, <2>4, <1>5 DEF IInv, WeakInv
    <3> QED  BY <3>1, <3>2
  <2>6. \A w \in WSlots : Holds(w)' /\ wslot'[w] # Nil => wrefs'[wslot'[w]][w] = 1
    <3> SUFFICES ASSUME NEW w \in WSlots, Holds(w)', wslot'[w] # Nil
                 PROVE  wrefs'[wslot'[w]][w] = 1
      OBVIOUS
    <3>1. w \notin {o} \X Weak /\ wslot'[w] = wslot[w]
      BY <2>4
    <3>2. w \notin {o} \X (1..NF)
      <4> SUFFICES ASSUME w \in {o} \X (1..NF) PROVE FALSE
        OBVIOUS
      <4>1. w \in WVars => FALSE
        BY PositionsApart
      <4> QED  BY <4>1, <3>1 DEF WSlots
    <3>3. Holds(w) /\ wrefs[wslot[w]][w] = 1 /\ wslot[w] \in Objs
      BY <3>1, <3>2, <1>5 DEF IInv, WeakInv, TypeOK, Ptrs
    <3> QED  BY <3>1, <3>3, <2>2, <2>3
  <2> QED  BY <2>5, <2>6 DEF WeakInv
<1> QED  BY <1>2, <1>3, <1>8, <1>9, <1>10, <1>11, <1>12 DEF IInv

\* When init returns, both of its units are given back and none is freed.
LEMMA InitReturnsStep ==
    ASSUME IInv, InitReturns
    PROVE  IInv'
<1> DEFINE t == tmp.o
<1>1. /\ Running /\ tmp.k = "init"
      /\ memcount' = [memcount EXCEPT ![t] = @ - 2]
      /\ tmp' = [tmp EXCEPT !.k = "transient"]
      /\ st' = st /\ tear' = tear /\ wrefs' = wrefs /\ slot' = slot /\ wslot' = wslot
      /\ scope' = scope /\ cont' = cont /\ stk' = stk /\ ph' = ph /\ credit' = credit
  BY DEF InitReturns
<1>2. ContInv' /\ Running'
  BY <1>1, StillRunning
<1>3. t \in Objs /\ st[t] = "live" /\ tmp' = [k |-> "transient", o |-> t]
  BY <1>1 DEF IInv, TmpInv, TypeOK, Ptrs
<1>4. TypeOK'
  <2>1. tmp' \in [k : {"none", "init", "transient", "loaded"}, o : Ptrs]
    BY <1>3 DEF Ptrs
  <2>2. memcount' \in [Objs -> Int]
    BY <1>1, <1>3 DEF IInv, TypeOK
  <2> QED  BY <2>1, <2>2, <1>1 DEF IInv, TypeOK
<1>5. \A s : Holds(s)' <=> Holds(s)
  BY <1>1 DEF Holds
<1>6. \A q \in Objs : /\ Refs(q)' = Refs(q) /\ Pending(q)' = 0
                      /\ Pending(q) = IF q = t THEN 2 ELSE 0
  BY <1>1, <1>3 DEF Refs, Pending
<1>7. \A q \in Objs : memcount'[q] = IF q = t THEN memcount[q] - 2 ELSE memcount[q]
  BY <1>1, <1>3 DEF IInv, TypeOK
<1> HIDE DEF t
<1>8. CountInv'
  BY <1>1, <1>6, <1>7, CountNat DEF IInv, CountInv
<1>9. PosInv'
  <2> SUFFICES ASSUME NEW q \in Objs, st'[q] = "live", tmp' # [k |-> "transient", o |-> q]
               PROVE  memcount'[q] > 0
    BY DEF PosInv
  <2>1. q # t /\ memcount'[q] = memcount[q]
    BY <1>3, <1>7
  <2>2. tmp # [k |-> "transient", o |-> q] /\ st[q] = "live"
    BY <1>1
  <2> QED  BY <2>1, <2>2 DEF IInv, PosInv
<1>10. CreditInv' /\ WeakInv'
  BY <1>1, <1>5 DEF IInv, CreditInv, WeakInv
<1>11. TmpInv'
  BY <1>1, <1>2, <1>3, RCAssumption DEF TmpInv
<1>12. DyingInv' /\ StkInv'
  BY <1>1, <1>3, <1>7 DEF IInv, DyingInv, StkInv, FinalizedOnce
<1> QED  BY <1>2, <1>4, <1>8, <1>9, <1>10, <1>11, <1>12 DEF IInv

\* The value a call returns is live and carries one unit of its own.
LEMMA CallReturnsStep ==
    ASSUME IInv, NEW s \in Slots, CallReturns(s)
    PROVE  IInv'
<1> DEFINE t == slot[s]
<1>1. /\ Running /\ tmp = NoTmp /\ s \in Positions(Named) /\ t # Nil
      /\ memcount' = IncrPtr(memcount, t)
      /\ tmp' = [k |-> "loaded", o |-> t]
      /\ st' = st /\ tear' = tear /\ wrefs' = wrefs /\ slot' = slot /\ wslot' = wslot
      /\ scope' = scope /\ cont' = cont /\ stk' = stk /\ ph' = ph /\ credit' = credit
  BY DEF CallReturns
<1>2. ContInv' /\ Running'
  BY <1>1, StillRunning
<1>3. t \in Objs /\ st[t] = "live"
  <2>1. Holds(s)
    BY <1>1, PositionsHold
  <2> QED  BY <1>1, <2>1, RunningSlots
<1> HIDE DEF t
<1>4. \A q \in Objs : memcount'[q] = IF q = t THEN memcount[q] + 1 ELSE memcount[q]
  BY <1>1, <1>3, CountNat DEF IncrPtr, IInv, TypeOK
<1>5. TypeOK'
  <2>1. memcount' \in [Objs -> Int]
    BY <1>1, <1>3 DEF IncrPtr, IInv, TypeOK
  <2>2. tmp' \in [k : {"none", "init", "transient", "loaded"}, o : Ptrs]
    BY <1>1, <1>3 DEF Ptrs
  <2> QED  BY <2>1, <2>2, <1>1 DEF IInv, TypeOK
<1>6. \A q : Holds(q)' <=> Holds(q)
  BY <1>1 DEF Holds
<1>7. \A q \in Objs : /\ Refs(q)' = Refs(q) /\ Pending(q) = 0
                      /\ Pending(q)' = IF q = t THEN 1 ELSE 0
  <2>1. \A q \in Objs : Refs(q)' = Refs(q) /\ Pending(q) = 0
    BY <1>1, RCAssumption DEF Refs, Pending, NoTmp
  <2>2. \A q \in Objs : Pending(q)' = IF q = t THEN 1 ELSE 0
    BY <1>1 DEF Pending
  <2> QED  BY <2>1, <2>2
<1>8. CountInv'
  BY <1>1, <1>4, <1>7, CountNat DEF IInv, CountInv
<1>9. PosInv'
  <2>1. \A q \in Objs : st[q] = "live" => memcount[q] > 0
    BY <1>1 DEF IInv, PosInv, NoTmp
  <2> QED  BY <2>1, <1>1, <1>3, <1>4, CountNat DEF PosInv
<1>10. CreditInv' /\ WeakInv'
  BY <1>1, <1>6 DEF IInv, CreditInv, WeakInv
<1>11. TmpInv'
  BY <1>1, <1>3 DEF TmpInv
<1>12. DyingInv' /\ StkInv'
  BY <1>1, <1>3, <1>4 DEF IInv, DyingInv, StkInv, FinalizedOnce
<1> QED  BY <1>2, <1>5, <1>8, <1>9, <1>10, <1>11, <1>12 DEF IInv

\* The suspended store writes the value its target is already credited with.
LEMMA FinishStoreStep ==
    ASSUME IInv, FinishStore
    PROVE  IInv'
<1> DEFINE d == cont.d
<1>1. /\ stk = <<>> /\ cont # NoCont
      /\ slot' = [slot EXCEPT ![d] = cont.v] /\ cont' = NoCont
      /\ st' = st /\ memcount' = memcount /\ tear' = tear /\ wrefs' = wrefs
      /\ wslot' = wslot /\ scope' = scope /\ tmp' = tmp /\ stk' = stk /\ ph' = ph
      /\ credit' = credit
  BY DEF FinishStore, heapVars
<1>2. d \in Slots /\ credit[d] = cont.v /\ cont.v \in Ptrs
  BY <1>1 DEF IInv, ContInv, TypeOK
<1> HIDE DEF d
<1>3. TypeOK'
  <2>1. cont' \in [d : Slots \cup {Nil}, v : Ptrs]
    BY <1>1 DEF NoCont, Ptrs
  <2>2. slot' \in [Slots -> Ptrs]
    BY <1>1, <1>2 DEF IInv, TypeOK
  <2> QED  BY <2>1, <2>2, <1>1 DEF IInv, TypeOK
<1>4. \A s : Holds(s)' <=> Holds(s)
  BY <1>1 DEF Holds
<1>5. CountInv' /\ PosInv'
  BY <1>1 DEF IInv, CountInv, PosInv, Refs, Pending
<1>6. CreditInv'
  <2> SUFFICES ASSUME NEW s \in Slots
               PROVE  /\ Holds(s)' => credit'[s] = slot'[s]
                      /\ ~ Holds(s)' => credit'[s] = Nil
    BY DEF CreditInv
  <2>1. CASE s = d
    <3>1. slot'[s] = cont.v
      BY <2>1, <1>1, <1>2 DEF IInv, TypeOK
    <3>2. ~ Holds(s) => credit[s] = Nil
      BY DEF IInv, CreditInv
    <3> QED  BY <2>1, <3>1, <3>2, <1>1, <1>2, <1>4
  <2>2. CASE s # d
    <3>1. slot'[s] = slot[s]
      BY <2>2, <1>1, <1>2 DEF IInv, TypeOK
    <3>2. /\ Holds(s) => credit[s] = slot[s]
          /\ ~ Holds(s) => credit[s] = Nil
      BY <2>2 DEF IInv, CreditInv, d
    <3> QED  BY <3>1, <3>2, <1>1, <1>4
  <2> QED  BY <2>1, <2>2
<1>7. ContInv'
  BY <1>1 DEF ContInv, NoCont
<1>8. TmpInv' /\ DyingInv' /\ StkInv'
  BY <1>1 DEF IInv, TmpInv, DyingInv, StkInv, FinalizedOnce, Running
<1>9. WeakInv'
  BY <1>1, <1>4 DEF IInv, WeakInv
<1> QED  BY <1>3, <1>5, <1>6, <1>7, <1>8, <1>9 DEF IInv

\* p = <expression>: the member's container is kept alive by a variable or by
\* the expression.
LEMMA StoreValueStep ==
    ASSUME IInv, SafeIdioms, NEW d \in Slots, NEW v \in Ptrs, StoreValue(d, v)
    PROVE  IInv'
<1>1. /\ Running /\ tmp.k # "transient" /\ d \in Positions(Bases \cup Self) /\ v \in Values
      /\ BeginStore(d, v, FALSE) /\ tmp' = tmp
  BY DEF StoreValue
<1>2. Bases \cup Self \in SUBSET Named
  BY DEF SafeIdioms, Bases, Named
<1>3. Holds(d) /\ (v # Nil => st[v] = "live")
  BY <1>1, <1>2, PositionsHold, ValuesLive
<1>4. \/ d \in Vars
      \/ \E o \in Objs : /\ d \in {o} \X Strong
                         /\ Pending(o)' > 0 \/ \E x \in Vars \cap scope : credit[x] = o
  <2>1. \A o \in Objs : Pending(o)' = Pending(o)
    BY <1>1 DEF Pending
  <2>2. d \in Vars \/ \E o \in Bases \cup Self : o \in Objs /\ d \in {o} \X Strong /\ Anchored(o)
    BY <1>1, BasesAnchored
  <2> QED  BY <2>1, <2>2 DEF Anchored
<1> QED  BY <1>1, <1>3, <1>4, StoreStep

\* p = new T, p = f() and p = self in an init method: when the expression's
\* unit passes to the position, the container is held by a variable.
LEMMA StoreTmpStep ==
    ASSUME IInv, SafeIdioms, NEW d \in Slots, StoreTmp(d)
    PROVE  IInv'
<1>1. /\ Running /\ tmp.k # "none"
      /\ d \in Positions(IF tmp.k = "init" THEN Bases \cup Self ELSE Bases)
      /\ BeginStore(d, tmp.o, tmp.k = "loaded")
      /\ tmp' = IF tmp.k = "init" THEN tmp ELSE NoTmp
  BY DEF StoreTmp
<1>2. tmp.o \in Ptrs /\ (tmp.o # Nil => st[tmp.o] = "live")
      /\ tmp.k \in {"init", "transient", "loaded"}
  BY <1>1 DEF IInv, TypeOK, TmpInv
<1>3. Bases = Local
  BY DEF SafeIdioms, Bases
<1>4. Bases \cup Self \in SUBSET Named /\ Bases \in SUBSET Named
  BY <1>3 DEF Named
<1>5. Holds(d)
  BY <1>1, <1>4, PositionsHold
<1>6. CASE tmp.k = "init"
  <2>1. d \in Vars \/ \E o \in Bases \cup Self : o \in Objs /\ d \in {o} \X Strong /\ Anchored(o)
    BY <1>1, <1>6, BasesAnchored
  <2>2. \A o \in Objs : Pending(o)' = Pending(o)
    BY <1>1, <1>6 DEF Pending
  <2>3. \/ d \in Vars
        \/ \E o \in Objs : /\ d \in {o} \X Strong
                           /\ Pending(o)' > 0 \/ \E x \in Vars \cap scope : credit[x] = o
    BY <2>1, <2>2 DEF Anchored
  <2>4. BeginStore(d, tmp.o, FALSE) /\ tmp' = tmp /\ tmp.k # "transient"
    BY <1>1, <1>6
  <2> QED  BY <2>3, <2>4, <1>1, <1>2, <1>5, StoreStep
<1>7. CASE tmp.k # "init"
  <2>1. d \in Positions(Bases)
    BY <1>1, <1>7
  <2>2. d \in Vars \/ \E o \in Objs : d \in {o} \X Strong /\ o \in Local
    <3>1. d \in Vars \/ \E o \in Bases : o \in Objs /\ d \in {o} \X Strong /\ Anchored(o)
      BY <1>1, <2>1, BasesAnchored
    <3> QED  BY <3>1, <1>3
  <2>3. \A o \in Local : \E x \in Vars \cap scope : credit[x] = o
    <3> SUFFICES ASSUME NEW o \in Local PROVE \E x \in Vars \cap scope : credit[x] = o
      OBVIOUS
    <3>1. PICK x \in scope \cap Vars : slot[x] = o
      BY DEF Local
    <3>2. x \in Slots /\ Holds(x)
      BY DEF Slots, Holds
    <3> QED  BY <3>1, <3>2, <1>1, RunningSlots
  <2>4. \/ d \in Vars
        \/ \E o \in Objs : /\ d \in {o} \X Strong
                           /\ Pending(o)' > 0 \/ \E x \in Vars \cap scope : credit[x] = o
    BY <2>2, <2>3
  <2>5. tmp' = NoTmp
    BY <1>1, <1>7
  <2>6. CASE tmp.k = "loaded"
    <3>1. BeginStore(d, tmp.o, TRUE)
      BY <2>6, <1>1
    <3> QED  BY <2>4, <2>5, <2>6, <3>1, <1>1, <1>2, <1>5, StoreStep
  <2>7. CASE tmp.k = "transient"
    <3>1. BeginStore(d, tmp.o, FALSE)
      BY <2>7, <1>1
    <3> QED  BY <2>4, <2>5, <2>7, <3>1, <1>1, <1>2, <1>5, StoreStep
  <2> QED  BY <2>6, <2>7, <1>2, <1>7
<1> QED  BY <1>6, <1>7

\* A position that is unregistered is registered nowhere afterwards.
LEMMA Unregistered ==
    ASSUME TypeOK, WeakInv, NEW w \in WSlots
    PROVE  /\ RemoveWeak(wrefs, w) \in [Objs -> [WSlots -> Nat]]
           /\ \A o \in Objs, x \in WSlots :
                 RemoveWeak(wrefs, w)[o][x] = IF x = w THEN 0 ELSE wrefs[o][x]
<1>1. /\ wrefs \in [Objs -> [WSlots -> Nat]]
      /\ \A o \in Objs, x \in WSlots : wrefs[o][x] \in {0, 1}
      /\ \A o \in Objs : wrefs[o][w] = 1 => wslot[w] = o
      /\ Nil \notin Objs
  BY RCAssumption DEF TypeOK, WeakInv
<1>2. CASE wslot[w] # Nil /\ wrefs[wslot[w]][w] > 0
  <2>1. wslot[w] \in Objs
    BY <1>2 DEF TypeOK, Ptrs
  <2>2. RemoveWeak(wrefs, w) = [wrefs EXCEPT ![wslot[w]][w] = @ - 1]
    BY <1>2 DEF RemoveWeak
  <2>3. wrefs[wslot[w]][w] = 1
    BY <1>1, <1>2, <2>1
  <2> QED  BY <1>1, <2>1, <2>2, <2>3
<1>3. CASE ~ (wslot[w] # Nil /\ wrefs[wslot[w]][w] > 0)
  <2>1. RemoveWeak(wrefs, w) = wrefs
    BY <1>3 DEF RemoveWeak
  <2>2. \A o \in Objs : wrefs[o][w] = 0
    BY <1>1, <1>3
  <2> QED  BY <1>1, <2>1, <2>2
<1> QED  BY <1>2, <1>3

\* A weak store moves the registration of the position to the new target.
LEMMA StoreWeakStep ==
    ASSUME IInv, NEW w \in WSlots, NEW v \in Ptrs, StoreWeak(w, v)
    PROVE  IInv'
<1> DEFINE reg == RemoveWeak(wrefs, w)
<1>1. /\ Running /\ w \in WPositions(Named)
      /\ v \in (IF tmp.k = "transient" THEN {tmp.o} ELSE Values \cup {tmp.o})
      /\ wrefs' = AddWeak(reg, v, w) /\ wslot' = [wslot EXCEPT ![w] = v]
      /\ st' = st /\ memcount' = memcount /\ tear' = tear /\ slot' = slot /\ scope' = scope
      /\ tmp' = tmp /\ cont' = cont /\ stk' = stk /\ ph' = ph /\ credit' = credit
  BY DEF StoreWeak
<1>2. ContInv' /\ Running'
  BY <1>1, StillRunning
<1>3. Holds(w)
  BY <1>1, PositionsHold DEF Named
<1>4. v # Nil => v \in Objs /\ st[v] = "live" /\ memcount[v] >= 0
  <2>1. v # Nil => v \in Objs /\ st[v] = "live"
    <3>1. CASE v = tmp.o
      BY <3>1 DEF IInv, TmpInv, Ptrs
    <3>2. CASE v # tmp.o
      BY <3>2, <1>1, ValuesLive
    <3> QED  BY <3>1, <3>2
  <2> QED  BY <2>1, CountNat
<1>5. /\ reg \in [Objs -> [WSlots -> Nat]]
      /\ \A o \in Objs, x \in WSlots : reg[o][x] = IF x = w THEN 0 ELSE wrefs[o][x]
  BY Unregistered DEF IInv
<1> HIDE DEF reg
<1>6. /\ wrefs' \in [Objs -> [WSlots -> Nat]]
      /\ \A o \in Objs, x \in WSlots :
            wrefs'[o][x] = IF x = w THEN (IF o = v THEN 1 ELSE 0) ELSE wrefs[o][x]
  <2>1. CASE v = Nil
    <3>1. wrefs' = reg /\ v \notin Objs
      BY <2>1, <1>1, RCAssumption DEF AddWeak
    <3> QED  BY <3>1, <1>5
  <2>2. CASE v # Nil
    <3>1. wrefs' = [reg EXCEPT ![v][w] = @ + 1] /\ v \in Objs
      BY <2>2, <1>1, <1>4 DEF AddWeak
    <3> QED  BY <3>1, <1>5
  <2> QED  BY <2>1, <2>2
<1>7. TypeOK'
  BY <1>1, <1>6 DEF IInv, TypeOK
<1>8. \A s : Holds(s)' <=> Holds(s)
  BY <1>1 DEF Holds
<1>9. CountInv' /\ PosInv' /\ CreditInv'
  BY <1>1, <1>8 DEF IInv, CountInv, PosInv, Refs, Pending, CreditInv
<1>10. TmpInv' /\ DyingInv' /\ StkInv'
  BY <1>1, <1>2 DEF IInv, TmpInv, DyingInv, StkInv, FinalizedOnce
<1>11. WeakInv'
  <2>1. \A x \in WSlots : wslot'[x] = IF x = w THEN v ELSE wslot[x]
    BY <1>1 DEF IInv, TypeOK
  <2>2. \A o \in Objs, x \in WSlots :
           /\ wrefs'[o][x] \in {0, 1}
           /\ wrefs'[o][x] = 1 => Holds(x)' /\ wslot'[x] = o /\ st'[o] = "live"
    <3> SUFFICES ASSUME NEW o \in Objs, NEW x \in WSlots
                 PROVE  /\ wrefs'[o][x] \in {0, 1}
                        /\ wrefs'[o][x] = 1 => Holds(x)' /\ wslot'[x] = o /\ st'[o] = "live"
      OBVIOUS
    <3>1. CASE x = w
      <4>1. wrefs'[o][x] = (IF o = v THEN 1 ELSE 0) /\ wslot'[x] = v /\ Holds(x)'
        BY <3>1, <1>3, <1>6, <1>8, <2>1
      <4>2. o = v => st'[o] = "live"
        BY <1>1, <1>4, RCAssumption
      <4> QED  BY <4>1, <4>2
    <3>2. CASE x # w
      BY <3>2, <2>1, <1>1, <1>6, <1>8 DEF IInv, WeakInv
    <3> QED  BY <3>1, <3>2
  <2>3. \A x \in WSlots : Holds(x)' /\ wslot'[x] # Nil => wrefs'[wslot'[x]][x] = 1
    <3> SUFFICES ASSUME NEW x \in WSlots, Holds(x)', wslot'[x] # Nil
                 PROVE  wrefs'[wslot'[x]][x] = 1
      OBVIOUS
    <3>1. CASE x = w
      BY <3>1, <2>1, <1>4, <1>6
    <3>2. CASE x # w
      <4>1. wslot'[x] = wslot[x] /\ wslot[x] \in Objs /\ wrefs[wslot[x]][x] = 1
        BY <3>2, <2>1, <1>8 DEF IInv, WeakInv, TypeOK, Ptrs
      <4> QED  BY <3>2, <4>1, <1>6
    <3> QED  BY <3>1, <3>2
  <2> QED  BY <2>2, <2>3 DEF WeakInv
<1> QED  BY <1>2, <1>7, <1>9, <1>10, <1>11 DEF IInv

\* The end of a statement: a value that a call returned loses its unit, a
\* transient nobody counted is finalized.
LEMMA FlushTransientsStep ==
    ASSUME IInv, FlushTransients
    PROVE  IInv'
<1> DEFINE t == tmp.o
<1>1. /\ Running /\ tmp' = NoTmp
      /\ tear' = tear /\ slot' = slot /\ scope' = scope /\ cont' = cont /\ credit' = credit
  BY DEF FlushTransients
<1>2. tmp.k \in {"transient", "loaded"} /\ t \in Objs /\ st[t] = "live"
  BY DEF FlushTransients, IInv, TmpInv, TypeOK, Ptrs
<1>3. TmpInv' /\ cont' = NoCont /\ ContInv'
  BY <1>1 DEF TmpInv, NoTmp, ContInv, Running, NoCont
<1>4. TypeOK /\ StkInv /\ DyingInv /\ WeakInv /\ ph \in [Objs -> -1..(NF + 1)]
  BY DEF IInv, TypeOK
<1>5. \A q \in Objs : /\ Refs(q)' = Refs(q) /\ Pending(q)' = 0
                      /\ Pending(q) = IF tmp.k = "loaded" /\ q = t THEN 1 ELSE 0
  <2>1. \A q \in Objs : Refs(q)' = Refs(q)
    BY <1>1 DEF Refs
  <2>2. \A q \in Objs : Pending(q)' = 0
    BY <1>1, RCAssumption DEF Pending, NoTmp
  <2>3. \A q \in Objs : Pending(q) = IF tmp.k = "loaded" /\ q = t THEN 1 ELSE 0
    BY <1>2 DEF Pending
  <2> QED  BY <2>1, <2>2, <2>3
<1>6. tmp' \in [k : {"none", "init", "transient", "loaded"}, o : Ptrs]
  BY <1>1 DEF NoTmp, Ptrs
<1>7. ASSUME \A s : Holds(s)' <=> HoldsAt(scope', ph, s)
      PROVE  (\A s : Holds(s)' <=> Holds(s)) /\ CreditInv'
  <2>1. \A s : Holds(s)' <=> Holds(s)
    BY <1>1, <1>7 DEF Holds, HoldsAt
  <2> QED  BY <2>1, <1>1 DEF IInv, CreditInv
<1>8. CASE tmp.k = "loaded"
  <2>1. DecrPtr(memcount, ph, t)
    BY <1>8 DEF FlushTransients
  <2>2. t \in Ptrs /\ memcount \in [Objs -> Int]
    BY <1>2 DEF Ptrs, IInv, TypeOK
  <2>3. TypeOK'
    BY <2>1, <2>2, <1>1, <1>4, <1>6, DecrType DEF TypeOK
  <2>4. (\A s : Holds(s)' <=> Holds(s)) /\ CreditInv'
    BY <2>1, <2>2, <1>1, <1>2, <1>4, <1>7, DecrHolds
  <2>5. \A q \in Objs : st[q] = "live" =>
            memcount[q] = Cardinality(Refs(q)') + Pending(q)' + (IF q = t THEN 1 ELSE 0)
    BY <1>5, <1>8, CountNat
  <2>6. \A q \in Objs : st[q] = "live" => memcount[q] > 0
    BY <1>8 DEF IInv, PosInv
  <2>7. \A q \in Objs : st[q] # "live" => Refs(q)' = {}
    BY <1>5 DEF IInv, CountInv
  <2> HIDE DEF t
  <2>8. CountInv' /\ PosInv'
    <3>1. \A q \in Objs : st[q] = "live" =>
            memcount[q] = Cardinality(Refs(q)') + Pending(q)' + (IF q = t THEN 1 ELSE 0)
      BY <2>5
    <3> QED  BY <3>1, <2>1, <2>2, <2>3, <2>6, <2>7, <1>2, <1>4, DecrCount
  <2>9. StkInv' /\ DyingInv'
    BY <2>1, <2>2, <2>6, <1>1, <1>2, <1>4, DecrStk
  <2>10. WeakInv'
    BY <2>1, <2>2, <2>4, <1>4, DecrWeak
  <2> QED  BY <2>3, <2>4, <2>8, <2>9, <2>10, <1>3 DEF IInv
<1>9. CASE tmp.k = "transient" /\ memcount[t] # 0
  <2>1. st' = st /\ memcount' = memcount /\ wslot' = wslot /\ wrefs' = wrefs /\ ph' = ph /\ stk' = stk
    BY <1>9 DEF FlushTransients, CheckPtr
  <2>2. TypeOK'
    BY <2>1, <1>1, <1>4, <1>6 DEF TypeOK
  <2>3. (\A s : Holds(s)' <=> Holds(s)) /\ CreditInv'
    <3>1. \A s : Holds(s)' <=> HoldsAt(scope', ph, s)
      BY <2>1, <1>1 DEF Holds, HoldsAt
    <3> QED  BY <3>1, <1>7
  <2>4. CountInv'
    BY <2>1, <1>5, <1>9 DEF IInv, CountInv
  <2>5. PosInv'
    <3> SUFFICES ASSUME NEW q \in Objs, st[q] = "live" PROVE memcount[q] > 0
      BY <2>1 DEF PosInv
    <3>1. CASE q = t
      BY <3>1, <1>9, CountNat DEF IInv, TypeOK
    <3>2. CASE q # t
      BY <3>2 DEF IInv, PosInv
    <3> QED  BY <3>1, <3>2
  <2>6. StkInv' /\ DyingInv' /\ WeakInv'
    BY <2>1, <2>3, <1>1, <1>4 DEF StkInv, FinalizedOnce, DyingInv, WeakInv
  <2> QED  BY <2>2, <2>3, <2>4, <2>5, <2>6, <1>3 DEF IInv
<1>10. CASE tmp.k = "transient" /\ memcount[t] = 0
  <2>1. Finalize(ph, t) /\ "discard" \in Idioms /\ memcount' = memcount
    BY <1>10 DEF FlushTransients, CheckPtr
  <2>2. TypeOK'
    BY <2>1, <1>1, <1>2, <1>4, <1>6, FinalizeType DEF TypeOK
  <2>3. (\A s : Holds(s)' <=> Holds(s)) /\ CreditInv'
    BY <2>1, <1>1, <1>2, <1>4, <1>7, FinalizeHolds
  <2>4. st'[t] # "live" /\ \A q \in Objs \ {t} : st'[q] = st[q]
    <3>1. st' = [st EXCEPT ![t] = "dying"] \/ st' = [st EXCEPT ![t] = "free"]
      BY <2>1 DEF Finalize
    <3> QED  BY <3>1, <1>2, <1>4 DEF TypeOK
  <2>5. Refs(t) = {}
    <3>1. Cardinality(Refs(t)) = 0
      BY <1>2, <1>5, <1>10, CountNat
    <3> QED  BY <3>1, SlotSetCard DEF Refs
  <2>6. CountInv'
    <3> SUFFICES ASSUME NEW q \in Objs
                 PROVE  /\ st'[q] = "live" => memcount'[q] = Cardinality(Refs(q)') + Pending(q)'
                        /\ st'[q] # "live" => Refs(q)' = {}
      BY DEF CountInv
    <3>1. CASE q = t
      BY <3>1, <2>4, <2>5, <1>5
    <3>2. CASE q # t
      BY <3>2, <2>1, <2>4, <1>5, <1>10 DEF IInv, CountInv
    <3> QED  BY <3>1, <3>2
  <2>7. PosInv'
    <3> SUFFICES ASSUME NEW q \in Objs, st'[q] = "live" PROVE memcount[q] > 0
      BY <2>1 DEF PosInv
    <3>1. q # t /\ st[q] = "live"
      BY <2>4
    <3> QED  BY <3>1 DEF IInv, PosInv
  <2>8. StkInv' /\ DyingInv'
    BY <2>1, <1>1, <1>2, <1>4, <1>10, FinalizeStk
  <2>9. WeakInv'
    BY <2>1, <2>3, <1>2, <1>4, FinalizeWeak
  <2> QED  BY <2>2, <2>3, <2>6, <2>7, <2>8, <2>9, <1>3 DEF IInv
<1> QED  BY <1>2, <1>8, <1>9, <1>10

\* A counted variable leaves its scope and gives its unit back.
LEMMA LeaveScopeStep ==
    ASSUME IInv, NEW v \in Vars, LeaveScope(v)
    PROVE  IInv'
<1> DEFINE old == slot[v]
<1>1. /\ Running /\ tmp = NoTmp /\ v \in scope /\ scope' = scope \ {v}
      /\ DecrPtr(memcount, ph, old) /\ credit' = [credit EXCEPT ![v] = Nil]
      /\ tear' = tear /\ slot' = slot /\ tmp' = tmp /\ cont' = cont
  BY DEF LeaveScope
<1>2. v \in Slots /\ Holds(v) /\ v \notin WSlots
  BY <1>1, PositionsApart DEF Slots, Holds
<1>3. credit[v] = old /\ old \in Ptrs /\ (old # Nil => old \in Objs /\ st[old] = "live")
  BY <1>1, <1>2, RunningSlots DEF IInv, TypeOK
<1>4. TypeOK /\ StkInv /\ DyingInv /\ WeakInv /\ ph \in [Objs -> -1..(NF + 1)]
      /\ memcount \in [Objs -> Int] /\ credit \in [Slots -> Ptrs]
  BY DEF IInv, TypeOK
<1> HIDE DEF old
<1>5. TypeOK'
  <2>1. credit' \in [Slots -> Ptrs]
    BY <1>1, <1>4 DEF Ptrs
  <2> QED  BY <2>1, <1>1, <1>3, <1>4, DecrType DEF TypeOK
<1>6. \A s : Holds(s)' <=> Holds(s) /\ s # v
  <2>1. \A s : Holds(s)' <=> HoldsAt(scope', ph, s)
    BY <1>1, <1>3, <1>4, DecrHolds
  <2>2. \A o \in Objs, i \in 1..NF : v # <<o, i>>
    BY PositionsApart
  <2>3. \A s : HoldsAt(scope', ph, s) <=> Holds(s) /\ s # v
    BY <2>2, <1>1 DEF Holds, HoldsAt
  <2> QED  BY <2>1, <2>3
<1>7. \A q \in Objs : Pending(q)' = 0 /\ Pending(q) = 0
  BY <1>1, RCAssumption DEF Pending, NoTmp
<1>8. \A q \in Objs : Cardinality(Refs(q)') = Cardinality(Refs(q)) - (IF q = old THEN 1 ELSE 0)
  <2> SUFFICES ASSUME NEW q \in Objs
               PROVE  Cardinality(Refs(q)') = Cardinality(Refs(q)) - (IF q = old THEN 1 ELSE 0)
    OBVIOUS
  <2>1. Refs(q)' = {s \in Slots : credit'[s] = q} /\ Refs(q) = {s \in Slots : credit[s] = q}
    BY DEF Refs
  <2>2. Nil \in Ptrs /\ Nil # q
    BY RCAssumption DEF Ptrs
  <2>3. Cardinality({s \in Slots : credit'[s] = q}) = Cardinality({s \in Slots : credit[s] = q})
            + (IF Nil = q THEN 1 ELSE 0) - (IF credit[v] = q THEN 1 ELSE 0)
    <3>1. credit' = [credit EXCEPT ![v] = Nil] /\ credit \in [Slots -> Ptrs] /\ v \in Slots
      BY <1>1, <1>2, <1>4
    <3> QED  BY <2>2, <3>1, CardUpdate
  <2>4. Cardinality(Refs(q)) \in Nat
    BY CountNat
  <2> QED  BY <2>1, <2>2, <2>3, <2>4, <1>3
<1>9. \A q \in Objs : st[q] = "live" =>
          memcount[q] = Cardinality(Refs(q)') + Pending(q)' + (IF q = old THEN 1 ELSE 0)
  BY <1>7, <1>8, CountNat
<1>10. \A q \in Objs : st[q] = "live" => memcount[q] > 0
  BY <1>1 DEF IInv, PosInv, NoTmp
<1>11. \A q \in Objs : st[q] # "live" => Refs(q)' = {}
  <2> SUFFICES ASSUME NEW q \in Objs, st[q] # "live" PROVE Refs(q)' = {}
    OBVIOUS
  <2>1. Refs(q) = {} /\ q # Nil
    BY RCAssumption DEF IInv, CountInv
  <2> QED  BY <2>1, <1>1, <1>4 DEF Refs
<1>12. CountInv' /\ PosInv'
  BY <1>1, <1>3, <1>4, <1>5, <1>9, <1>10, <1>11, DecrCount
<1>13. StkInv' /\ DyingInv'
  BY <1>1, <1>3, <1>4, <1>10, DecrStk
<1>14. WeakInv'
  BY <1>1, <1>2, <1>3, <1>4, <1>6, DecrWeak
<1>15. CreditInv'
  <2> SUFFICES ASSUME NEW s \in Slots
               PROVE  /\ Holds(s)' /\ s # cont'.d => credit'[s] = slot'[s]
                      /\ ~ Holds(s)' => credit'[s] = Nil
    BY DEF CreditInv
  <2>1. credit'[s] = IF s = v THEN Nil ELSE credit[s]
    BY <1>1, <1>4
  <2> QED  BY <2>1, <1>1, <1>6 DEF IInv, CreditInv
<1>16. ContInv'
  BY <1>1 DEF ContInv, Running, NoCont
<1>17. TmpInv'
  BY <1>1 DEF TmpInv, NoTmp
<1> QED  BY <1>5, <1>12, <1>13, <1>14, <1>15, <1>16, <1>17 DEF IInv

\* A weak variable leaves its scope and is registered nowhere afterwards.
LEMMA LeaveScopeWeakStep ==
    ASSUME IInv, NEW w \in WVars, LeaveScopeWeak(w)
    PROVE  IInv'
<1>1. /\ Running /\ w \in scope /\ scope' = scope \ {w} /\ wrefs' = RemoveWeak(wrefs, w)
      /\ st' = st /\ memcount' = memcount /\ tear' = tear /\ slot' = slot /\ wslot' = wslot
      /\ tmp' = tmp /\ cont' = cont /\ stk' = stk /\ ph' = ph /\ credit' = credit
  BY DEF LeaveScopeWeak
<1>2. w \in WSlots /\ w \notin Slots
  BY PositionsApart DEF WSlots
<1>3. ContInv' /\ Running'
  BY <1>1, StillRunning
<1>4. /\ wrefs' \in [Objs -> [WSlots -> Nat]]
      /\ \A o \in Objs, x \in WSlots : wrefs'[o][x] = IF x = w THEN 0 ELSE wrefs[o][x]
  BY <1>1, <1>2, Unregistered DEF IInv
<1>5. TypeOK'
  BY <1>1, <1>4 DEF IInv, TypeOK
<1>6. \A s : Holds(s)' <=> Holds(s) /\ s # w
  <2>1. \A o \in Objs, i \in 1..NF : w # <<o, i>>
    BY PositionsApart
  <2> QED  BY <2>1, <1>1 DEF Holds
<1>7. CountInv' /\ PosInv'
  BY <1>1 DEF IInv, CountInv, PosInv, Refs, Pending
<1>8. CreditInv'
  BY <1>1, <1>2, <1>6 DEF IInv, CreditInv
<1>9. TmpInv' /\ DyingInv' /\ StkInv'
  BY <1>1, <1>3 DEF IInv, TmpInv, DyingInv, StkInv, FinalizedOnce
<1>10. WeakInv'
  <2>1. \A x \in WSlots : Holds(x)' /\ wslot'[x] # Nil => wrefs'[wslot'[x]][x] = 1
    <3> SUFFICES ASSUME NEW x \in WSlots, Holds(x)', wslot'[x] # Nil
                 PROVE  wrefs'[wslot'[x]][x] = 1
      OBVIOUS
    <3>1. Holds(x) /\ x # w /\ wslot'[x] = wslot[x]
      BY <1>1, <1>6
    <3>2. wslot[x] \in Objs /\ wrefs[wslot[x]][x] = 1
      BY <3>1 DEF IInv, WeakInv, TypeOK, Ptrs
    <3> QED  BY <3>1, <3>2, <1>4
  <2>2. \A o \in Objs, x \in WSlots :
           /\ wrefs'[o][x] \in {0, 1}
           /\ wrefs'[o][x] = 1 => Holds(x)' /\ wslot'[x] = o /\ st'[o] = "live"
    BY <1>1, <1>4, <1>6 DEF IInv, WeakInv
  <2> QED  BY <2>1, <2>2 DEF WeakInv
<1> QED  BY <1>3, <1>5, <1>7, <1>8, <1>9, <1>10 DEF IInv

-----------------------------------------------------------------------------
(* The steps of a teardown.                                                 *)

\* The innermost teardown: its object is dying, and no statement runs.
LEMMA TopDying ==
    ASSUME IInv, NEW p, Dying(p)
    PROVE  /\ Top \in Objs /\ st[Top] = "dying" /\ tear[Top] # "none" /\ ph[Top] = p
           /\ Len(stk) \in Nat /\ Len(stk) > 0 /\ Top = stk[Len(stk)]
           /\ p < 1 => tear[Top] = "destruct"
           /\ ~ Running /\ tmp.k # "transient"
<1>1. stk # <<>> /\ ph[Top] = p /\ stk \in Seq(Objs)
  BY DEF Dying, IInv, TypeOK
<1>2. Len(stk) \in Nat /\ Len(stk) > 0
  BY <1>1, EmptySeq, LenProperties
<1>3. Top \in Objs /\ Top = stk[Len(stk)]
  BY <1>1, <1>2, ElementOfSeq DEF Top
<1>4. st[Top] = "dying"
  <2>1. \E i \in 1..Len(stk) : stk[i] = Top
    BY <1>2, <1>3
  <2> QED  BY <2>1, <1>3 DEF IInv, StkInv
<1>5. tear[Top] # "none" /\ (p < 1 => tear[Top] = "destruct")
  BY <1>1, <1>3, <1>4 DEF IInv, DyingInv
<1>6. ~ Running /\ tmp.k # "transient"
  BY <1>1 DEF Running, IInv, TmpInv
<1> QED  BY <1>1, <1>2, <1>3, <1>4, <1>5, <1>6

\* The object that contains the target of a suspended store is live, so the
\* target is no member of a dying object.
LEMMA TargetNotDying ==
    ASSUME IInv, NEW o \in Objs, st[o] = "dying", NEW i \in 1..NF
    PROVE  cont.d # <<o, i>>
<1> SUFFICES ASSUME cont.d = <<o, i>> PROVE FALSE
  OBVIOUS
<1>1. <<o, i>> \notin Vars /\ Nil # <<o, i>>
  BY PositionsApart, RCAssumption
<1>2. cont # NoCont
  BY <1>1 DEF NoCont
<1>3. PICK q \in Objs : Anchored(q) /\ <<o, i>> \in {q} \X Strong
  BY <1>1, <1>2 DEF IInv, ContInv
<1>4. Anchored(o)
  BY <1>3
<1>5. st[o] = "live"
  <2>1. CASE Pending(o) > 0
    <3>1. tmp.o = o /\ tmp.k # "none"
      BY <2>1 DEF Pending
    <3> QED  BY <3>1 DEF IInv, TmpInv
  <2>2. CASE \E v \in Vars \cap scope : credit[v] = o
    <3>1. PICK v \in Vars \cap scope : credit[v] = o
      BY <2>2
    <3>2. v \in Slots /\ o # Nil
      BY RCAssumption DEF Slots
    <3> QED  BY <3>1, <3>2, CreditLive
  <2> QED  BY <1>4, <2>1, <2>2 DEF Anchored
<1> QED  BY <1>5

\* The destruct method and its self parameter change nothing but the phase of
\* the teardown: the sentinel keeps the count from moving.
LEMMA DestructStep ==
    ASSUME IInv, SafeIdioms, DestructEnters \/ DestructReturns
    PROVE  IInv'
<1>1. PICK p \in {DestructCall, DestructBody} : Dying(p)
  BY DEF DestructEnters, DestructReturns
<1>2. /\ Top \in Objs /\ st[Top] = "dying" /\ tear[Top] = "destruct"
      /\ ph[Top] = p /\ p < 1
  BY <1>1, TopDying DEF DestructCall, DestructBody
<1>3. memcount[Top] = Finalizing
  BY <1>2 DEF SafeIdioms, IInv, DyingInv
<1>4. /\ tear' = tear /\ slot' = slot /\ scope' = scope /\ tmp' = tmp /\ cont' = cont
      /\ credit' = credit /\ st' = st /\ memcount' = memcount /\ wslot' = wslot
      /\ wrefs' = wrefs /\ stk' = stk
  <2>1. CASE DestructEnters
    <3>1. IncrPtr(memcount, Top) = memcount
      BY <1>3 DEF IncrPtr, Finalizing
    <3> QED  BY <2>1, <3>1 DEF DestructEnters
  <2>2. CASE DestructReturns
    <3>1. DecrPtr(memcount, After(1), Top)
      BY <2>2 DEF DestructReturns
    <3>2. memcount[Top] < 0 /\ memcount[Top] # 1
      BY <1>3 DEF Finalizing
    <3> QED  BY <2>2, <3>1, <3>2 DEF DestructReturns, DecrPtr
  <2> QED  BY <2>1, <2>2
<1>5. ph' = [ph EXCEPT ![Top] = 0] \/ ph' = [ph EXCEPT ![Top] = 1]
  <2>1. CASE DestructEnters
    BY <2>1 DEF DestructEnters, After, DestructBody
  <2>2. CASE DestructReturns
    BY <2>2, <1>3 DEF DestructReturns, DecrPtr, After, Finalizing
  <2> QED  BY <2>1, <2>2
<1>6. TypeOK'
  <2>1. 0 \in -1..(NF + 1) /\ 1 \in -1..(NF + 1)
    BY RCAssumption
  <2>2. ph' \in [Objs -> -1..(NF + 1)]
    BY <2>1, <1>2, <1>5 DEF IInv, TypeOK
  <2> QED  BY <2>2, <1>4 DEF IInv, TypeOK
<1>7. \A q \in Objs : \/ ph'[q] = ph[q]
                      \/ q = Top /\ ph'[q] \in {0, 1} /\ ph[q] < 1
  BY <1>2, <1>5 DEF IInv, TypeOK
<1>8. \A s : Holds(s)' <=> Holds(s)
  <2>1. \A q \in Objs, i \in 1..NF : i >= ph'[q] <=> i >= ph[q]
    <3> SUFFICES ASSUME NEW q \in Objs, NEW i \in 1..NF PROVE i >= ph'[q] <=> i >= ph[q]
      OBVIOUS
    <3>1. ph[q] \in -1..(NF + 1)
      BY DEF IInv, TypeOK
    <3> QED  BY <3>1, <1>7
  <2> QED  BY <2>1, <1>4 DEF Holds
<1>9. CountInv' /\ PosInv' /\ CreditInv'
  BY <1>4, <1>8 DEF IInv, CountInv, PosInv, Refs, Pending, CreditInv
<1>10. ContInv' /\ TmpInv'
  BY <1>4, <1>8 DEF IInv, ContInv, TmpInv, Anchored, Pending, Running
<1>11. DyingInv' /\ StkInv'
  <2>1. DyingInv'
    BY <1>2, <1>4, <1>7 DEF IInv, DyingInv
  <2> QED  BY <2>1, <1>4 DEF IInv, StkInv, FinalizedOnce
<1>12. WeakInv'
  BY <1>4, <1>8 DEF IInv, WeakInv
<1> QED  BY <1>6, <1>9, <1>10, <1>11, <1>12 DEF IInv

\* A destructor releases a counted member that its object owns: the unit it
\* gives back is one the count includes.
LEMMA TeardownStrongStep ==
    ASSUME IInv, NEW i \in 1..NF, TeardownStrong(i)
    PROVE  IInv'
<1> DEFINE m   == <<Top, i>>
           old == slot[m]
           p   == After(i + 1)
<1>1. /\ i \in Strong /\ Dying(i) /\ DecrPtr(memcount, p, old)
      /\ credit' = [credit EXCEPT ![m] = Nil]
      /\ tear' = tear /\ slot' = slot /\ scope' = scope /\ tmp' = tmp /\ cont' = cont
  BY DEF TeardownStrong
<1>2. /\ Top \in Objs /\ st[Top] = "dying" /\ tear[Top] # "none" /\ ph[Top] = i
      /\ tmp.k # "transient"
  BY <1>1, TopDying
<1>3. m \in Slots /\ m \notin WSlots /\ m # Nil
  BY <1>1, <1>2, PositionsApart DEF Slots
<1>4. Holds(m) /\ m # cont.d
  <2>1. m # cont.d
    BY <1>2, TargetNotDying
  <2>2. i >= ph[Top]
    BY <1>2
  <2> QED  BY <2>1, <2>2, <1>2 DEF Holds
<1>5. credit[m] = old /\ old \in Ptrs /\ (old # Nil => old \in Objs /\ st[old] = "live")
  <2>1. credit[m] = old
    BY <1>3, <1>4 DEF IInv, CreditInv
  <2> QED  BY <2>1, <1>3, CreditLive DEF IInv, TypeOK
<1>6. TypeOK /\ StkInv /\ DyingInv /\ WeakInv /\ ph \in [Objs -> -1..(NF + 1)]
      /\ memcount \in [Objs -> Int] /\ credit \in [Slots -> Ptrs] /\ NF \in Nat
  BY RCAssumption DEF IInv, TypeOK
<1>7. /\ p \in [Objs -> -1..(NF + 1)]
      /\ p[Top] = i + 1 /\ \A q \in Objs \ {Top} : p[q] = ph[q]
      /\ \A q \in Objs : p[q] < 1 => ph[q] < 1
  <2>1. i + 1 \in -1..(NF + 1) /\ ~ (i + 1 < 1)
    BY <1>6
  <2>2. p = [ph EXCEPT ![Top] = i + 1]
    BY DEF After
  <2> HIDE DEF p
  <2> QED  BY <2>1, <2>2, <1>2, <1>6
<1> HIDE DEF old, p
<1>8. TypeOK'
  <2>1. credit' \in [Slots -> Ptrs]
    BY <1>1, <1>6 DEF Ptrs
  <2> QED  BY <2>1, <1>1, <1>5, <1>6, <1>7, DecrType DEF TypeOK
<1>9. \A s : Holds(s)' <=> Holds(s) /\ s # m
  <2>1. \A s : Holds(s)' <=> HoldsAt(scope', p, s)
    BY <1>1, <1>5, <1>6, <1>7, DecrHolds
  <2>2. m \notin scope
    BY <1>2, <1>6, PositionsApart DEF TypeOK
  <2>3. ASSUME NEW s PROVE HoldsAt(scope, p, s) <=> Holds(s) /\ s # m
    <3>1. CASE s \in scope
      BY <3>1, <2>2 DEF Holds, HoldsAt
    <3>2. CASE s \notin scope
      <4>1. \A q \in Objs, j \in 1..NF :
               (st[q] = "dying" /\ j >= p[q]) <=>
               (st[q] = "dying" /\ j >= ph[q] /\ <<q, j>> # m)
        <5> SUFFICES ASSUME NEW q \in Objs, NEW j \in 1..NF, st[q] = "dying"
                     PROVE  j >= p[q] <=> j >= ph[q] /\ <<q, j>> # m
          OBVIOUS
        <5>1. CASE q = Top
          BY <5>1, <1>2, <1>7
        <5>2. CASE q # Top
          BY <5>2, <1>2, <1>7
        <5> QED  BY <5>1, <5>2
      <4>2. \A q \in Objs, j \in 1..NF : st[q] = "live" => <<q, j>> # m
        BY <1>2
      <4> QED  BY <3>2, <4>1, <4>2 DEF Holds, HoldsAt
    <3> QED  BY <3>1, <3>2
  <2> QED  BY <2>1, <2>3, <1>1
<1>10. \A q \in Objs : Pending(q)' = Pending(q)
  BY <1>1 DEF Pending
<1>11. \A q \in Objs : Cardinality(Refs(q)') = Cardinality(Refs(q)) - (IF q = old THEN 1 ELSE 0)
  <2> SUFFICES ASSUME NEW q \in Objs
               PROVE  Cardinality(Refs(q)') = Cardinality(Refs(q)) - (IF q = old THEN 1 ELSE 0)
    OBVIOUS
  <2>1. Refs(q)' = {s \in Slots : credit'[s] = q} /\ Refs(q) = {s \in Slots : credit[s] = q}
    BY DEF Refs
  <2>2. Nil \in Ptrs /\ Nil # q
    BY RCAssumption DEF Ptrs
  <2>3. Cardinality({s \in Slots : credit'[s] = q}) = Cardinality({s \in Slots : credit[s] = q})
            + (IF Nil = q THEN 1 ELSE 0) - (IF credit[m] = q THEN 1 ELSE 0)
    <3>1. PICK d \in Slots : d = m
      BY <1>3
    <3>2. credit' = [credit EXCEPT ![d] = Nil] /\ credit \in [Slots -> Ptrs]
      BY <3>1, <1>1, <1>6
    <3>3. Cardinality({s \in Slots : credit'[s] = q}) = Cardinality({s \in Slots : credit[s] = q})
              + (IF Nil = q THEN 1 ELSE 0) - (IF credit[d] = q THEN 1 ELSE 0)
      BY <2>2, <3>2, CardUpdate
    <3> QED  BY <3>1, <3>3
  <2>4. Cardinality(Refs(q)) \in Nat
    BY CountNat
  <2> QED  BY <2>1, <2>2, <2>3, <2>4, <1>5
<1>12. \A q \in Objs : st[q] = "live" =>
          memcount[q] = Cardinality(Refs(q)') + Pending(q)' + (IF q = old THEN 1 ELSE 0)
  BY <1>10, <1>11, CountNat
<1>13. \A q \in Objs : st[q] = "live" => memcount[q] > 0
  BY <1>2 DEF IInv, PosInv
<1>14. \A q \in Objs : st[q] # "live" => Refs(q)' = {}
  <2> SUFFICES ASSUME NEW q \in Objs, st[q] # "live" PROVE Refs(q)' = {}
    OBVIOUS
  <2>1. Refs(q) = {} /\ q # Nil
    BY RCAssumption DEF IInv, CountInv
  <2>2. \A s \in Slots : credit'[s] = IF s = m THEN Nil ELSE credit[s]
    BY <1>1, <1>6
  <2> QED  BY <2>1, <2>2 DEF Refs
<1>15. /\ CountInv' /\ PosInv'
       /\ \A q \in Objs : st[q] = "live" /\ Pending(q)' > 0 => st'[q] = "live"
  BY <1>1, <1>5, <1>6, <1>8, <1>12, <1>13, <1>14, DecrCount
<1>16. StkInv' /\ DyingInv'
  BY <1>1, <1>5, <1>6, <1>7, <1>13, DecrStk
<1>17. WeakInv'
  BY <1>1, <1>3, <1>5, <1>6, <1>9, DecrWeak
<1>18. \A s \in Slots : credit'[s] = IF s = m THEN Nil ELSE credit[s]
  BY <1>1, <1>6
<1>19. CreditInv'
  BY <1>1, <1>9, <1>18 DEF IInv, CreditInv
<1>20. ContInv'
  <2>1. cont.d = Nil => cont = NoCont
    BY DEF IInv, ContInv
  <2> SUFFICES ASSUME cont # NoCont
               PROVE  /\ Holds(cont.d)' /\ credit'[cont.d] = cont.v
                      /\ cont.d \in Vars \/ \E o \in Objs : Anchored(o)' /\ cont.d \in {o} \X Strong
    BY <2>1, <1>1 DEF ContInv
  <2>2. /\ Holds(cont.d) /\ credit[cont.d] = cont.v /\ cont.d \in Slots
        /\ cont.d \in Vars \/ \E o \in Objs : Anchored(o) /\ cont.d \in {o} \X Strong
    BY <2>1 DEF IInv, ContInv, TypeOK
  <2>3. Holds(cont.d)'
    <3>1. Holds(cont.d)' <=> Holds(cont.d) /\ cont.d # m
      BY <1>1, <1>9 DEF Holds
    <3> QED  BY <3>1, <2>2, <1>4
  <2>4. \A o \in Objs : Anchored(o) => Anchored(o)'
    <3>1. \A v \in Vars : v \in Slots /\ v # m
      BY <1>2, PositionsApart DEF Slots
    <3> QED  BY <3>1, <1>1, <1>10, <1>18 DEF Anchored
  <2> QED  BY <2>2, <2>3, <2>4, <1>4, <1>18
<1>21. TmpInv'
  <2>1. tmp.k # "none" => tmp.o \in Objs /\ st[tmp.o] = "live" /\ Pending(tmp.o) > 0
    BY <1>2 DEF IInv, TmpInv, TypeOK, Ptrs, Pending
  <2>2. tmp.k # "none" => st'[tmp.o] = "live"
    BY <2>1, <1>10, <1>15
  <2> QED  BY <2>2, <1>1, <1>2 DEF IInv, TmpInv
<1> QED  BY <1>8, <1>15, <1>16, <1>17, <1>19, <1>20, <1>21 DEF IInv

\* A destructor unregisters a weak member before it steps past it.
LEMMA TeardownWeakStep ==
    ASSUME IInv, NEW i \in 1..NF, TeardownWeak(i)
    PROVE  IInv'
<1> DEFINE m == <<Top, i>>
<1>1. /\ i \in Weak /\ Dying(i) /\ wrefs' = RemoveWeak(wrefs, m)
      /\ ph' = [ph EXCEPT ![Top] = i + 1]
      /\ st' = st /\ memcount' = memcount /\ tear' = tear /\ slot' = slot /\ wslot' = wslot
      /\ scope' = scope /\ tmp' = tmp /\ cont' = cont /\ stk' = stk /\ credit' = credit
  BY DEF TeardownWeak, After
<1>2. /\ Top \in Objs /\ st[Top] = "dying" /\ tear[Top] # "none" /\ ph[Top] = i
  BY <1>1, TopDying
<1>3. m \in WSlots /\ m \notin Slots
  BY <1>1, <1>2, PositionsApart DEF WSlots
<1>4. TypeOK /\ ph \in [Objs -> -1..(NF + 1)] /\ NF \in Nat
  BY RCAssumption DEF IInv, TypeOK
<1>5. /\ ph' \in [Objs -> -1..(NF + 1)]
      /\ ph'[Top] = i + 1 /\ \A q \in Objs \ {Top} : ph'[q] = ph[q]
  <2>1. i + 1 \in -1..(NF + 1)
    BY <1>4
  <2> QED  BY <2>1, <1>1, <1>2, <1>4
<1>6. /\ wrefs' \in [Objs -> [WSlots -> Nat]]
      /\ \A o \in Objs, x \in WSlots : wrefs'[o][x] = IF x = m THEN 0 ELSE wrefs[o][x]
  <2>1. PICK w \in WSlots : w = m
    BY <1>3
  <2>2. wrefs' = RemoveWeak(wrefs, w)
    BY <2>1, <1>1
  <2>3. /\ wrefs' \in [Objs -> [WSlots -> Nat]]
        /\ \A o \in Objs, x \in WSlots : wrefs'[o][x] = IF x = w THEN 0 ELSE wrefs[o][x]
    BY <2>2, Unregistered DEF IInv
  <2> QED  BY <2>1, <2>3
<1>7. TypeOK'
  BY <1>1, <1>5, <1>6 DEF IInv, TypeOK
<1>8. \A s : Holds(s)' <=> Holds(s) /\ s # m
  <2>1. m \notin scope
    BY <1>2, <1>4, PositionsApart DEF TypeOK
  <2>2. ASSUME NEW s PROVE Holds(s)' <=> Holds(s) /\ s # m
    <3>1. CASE s \in scope
      BY <3>1, <2>1, <1>1 DEF Holds
    <3>2. CASE s \notin scope
      <4>1. \A q \in Objs, j \in 1..NF :
               (st[q] = "dying" /\ j >= ph'[q]) <=>
               (st[q] = "dying" /\ j >= ph[q] /\ <<q, j>> # m)
        <5> SUFFICES ASSUME NEW q \in Objs, NEW j \in 1..NF, st[q] = "dying"
                     PROVE  j >= ph'[q] <=> j >= ph[q] /\ <<q, j>> # m
          OBVIOUS
        <5>1. CASE q = Top
          BY <5>1, <1>2, <1>5
        <5>2. CASE q # Top
          BY <5>2, <1>2, <1>5
        <5> QED  BY <5>1, <5>2
      <4>2. \A q \in Objs, j \in 1..NF : st[q] = "live" => <<q, j>> # m
        BY <1>2
      <4> QED  BY <3>2, <4>1, <4>2, <1>1 DEF Holds
    <3> QED  BY <3>1, <3>2
  <2> QED  BY <2>2
<1>9. CountInv' /\ PosInv'
  BY <1>1 DEF IInv, CountInv, PosInv, Refs, Pending
<1>10. CreditInv'
  BY <1>1, <1>3, <1>8 DEF IInv, CreditInv
<1>11. ContInv'
  <2>1. cont # NoCont => cont.d \in Slots
    BY DEF IInv, ContInv, TypeOK
  <2>2. cont # NoCont => (Holds(cont.d)' <=> Holds(cont.d))
    <3>1. Holds(cont.d)' <=> Holds(cont.d) /\ cont.d # m
      BY <1>1, <1>8 DEF Holds
    <3> QED  BY <3>1, <2>1, <1>3
  <2>3. \A o : Anchored(o)' <=> Anchored(o)
    BY <1>1 DEF Anchored, Pending
  <2> QED  BY <2>2, <2>3, <1>1 DEF IInv, ContInv
<1>12. TmpInv' /\ StkInv'
  BY <1>1 DEF IInv, TmpInv, Running, StkInv, FinalizedOnce
<1>13. DyingInv'
  <2>1. \A q \in Objs : ph'[q] < 1 => ph[q] < 1
    BY <1>2, <1>5
  <2> QED  BY <2>1, <1>1 DEF IInv, DyingInv
<1>14. WeakInv'
  <2>1. \A x \in WSlots : Holds(x)' /\ wslot'[x] # Nil => wrefs'[wslot'[x]][x] = 1
    <3> SUFFICES ASSUME NEW x \in WSlots, Holds(x)', wslot'[x] # Nil
                 PROVE  wrefs'[wslot'[x]][x] = 1
      OBVIOUS
    <3>1. Holds(x) /\ x # m /\ wslot'[x] = wslot[x]
      BY <1>1, <1>8
    <3>2. wslot[x] \in Objs /\ wrefs[wslot[x]][x] = 1
      BY <3>1 DEF IInv, WeakInv, TypeOK, Ptrs
    <3> QED  BY <3>1, <3>2, <1>6
  <2>2. \A o \in Objs, x \in WSlots :
           /\ wrefs'[o][x] \in {0, 1}
           /\ wrefs'[o][x] = 1 => Holds(x)' /\ wslot'[x] = o /\ st'[o] = "live"
    <3> SUFFICES ASSUME NEW o \in Objs, NEW x \in WSlots
                 PROVE  /\ wrefs'[o][x] \in {0, 1}
                        /\ wrefs'[o][x] = 1 => Holds(x)' /\ wslot'[x] = o /\ st'[o] = "live"
      OBVIOUS
    <3>1. CASE x = m
      BY <3>1, <1>6
    <3>2. CASE x # m
      <4>1. wrefs'[o][x] = wrefs[o][x] /\ (Holds(x)' <=> Holds(x))
        BY <3>2, <1>6, <1>8
      <4> QED  BY <4>1, <1>1 DEF IInv, WeakInv
    <3> QED  BY <3>1, <3>2
  <2> QED  BY <2>1, <2>2 DEF WeakInv
<1> QED  BY <1>7, <1>9, <1>10, <1>11, <1>12, <1>13, <1>14 DEF IInv

\* The object is freed after its destructor has passed its last member.
LEMMA FreeStep ==
    ASSUME IInv, Free
    PROVE  IInv'
<1>1. /\ Dying(NF + 1) /\ st' = [st EXCEPT ![Top] = "free"]
      /\ stk' = SubSeq(stk, 1, Len(stk) - 1)
      /\ memcount' = memcount /\ tear' = tear /\ wrefs' = wrefs /\ slot' = slot
      /\ wslot' = wslot /\ scope' = scope /\ tmp' = tmp /\ cont' = cont /\ ph' = ph
      /\ credit' = credit
  BY DEF Free
<1>2. /\ Top \in Objs /\ st[Top] = "dying" /\ ph[Top] = NF + 1
      /\ Len(stk) \in Nat /\ Len(stk) > 0 /\ Top = stk[Len(stk)] /\ tmp.k # "transient"
  BY <1>1, TopDying
<1>3. st'[Top] = "free" /\ \A q \in Objs \ {Top} : st'[q] = st[q]
  BY <1>1, <1>2 DEF IInv, TypeOK
<1>4. /\ stk' \in Seq(Objs) /\ Len(stk') = Len(stk) - 1
      /\ \A i \in 1..(Len(stk) - 1) : stk'[i] = stk[i]
  <2>1. stk \in Seq(Objs) /\ Len(stk) - 1 \in Nat
    BY <1>2 DEF IInv, TypeOK
  <2>2. \A i \in 1..(Len(stk) - 1) : stk[i] \in Objs
    BY <2>1, <1>2, ElementOfSeq
  <2>3. stk' = [i \in 1..(Len(stk) - 1) |-> stk[i]]
    <3>1. stk' = [i \in 1..((Len(stk) - 1) - 1 + 1) |-> stk[1 + i - 1]]
      BY <2>1, <1>1
    <3> QED  BY <2>1, <1>2, <3>1
  <2> HIDE DEF Top
  <2> QED  BY <2>1, <2>2, <2>3
<1>5. TypeOK'
  BY <1>1, <1>4 DEF IInv, TypeOK
<1>6. \A s : Holds(s)' <=> Holds(s)
  <2>1. \A q \in Objs, i \in 1..NF :
           st'[q] = "live" \/ (st'[q] = "dying" /\ i >= ph'[q])
           <=> st[q] = "live" \/ (st[q] = "dying" /\ i >= ph[q])
    <3> SUFFICES ASSUME NEW q \in Objs, NEW i \in 1..NF
                 PROVE  st'[q] = "live" \/ (st'[q] = "dying" /\ i >= ph'[q])
                        <=> st[q] = "live" \/ (st[q] = "dying" /\ i >= ph[q])
      OBVIOUS
    <3>1. CASE q = Top
      <4>1. ~ (i >= NF + 1)
        BY RCAssumption
      <4> QED  BY <3>1, <4>1, <1>2, <1>3
    <3>2. CASE q # Top
      BY <3>2, <1>1, <1>3
    <3> QED  BY <3>1, <3>2
  <2> QED  BY <2>1, <1>1 DEF Holds
<1>7. \A q \in Objs : st'[q] = "live" <=> st[q] = "live"
  BY <1>2, <1>3
<1>8. CountInv' /\ PosInv' /\ CreditInv'
  <2>1. \A q \in Objs : Refs(q)' = Refs(q) /\ Pending(q)' = Pending(q)
    BY <1>1 DEF Refs, Pending
  <2>2. CountInv'
    BY <2>1, <1>1, <1>7 DEF IInv, CountInv
  <2>3. PosInv' /\ CreditInv'
    BY <1>1, <1>6, <1>7 DEF IInv, PosInv, CreditInv
  <2> QED  BY <2>2, <2>3
<1>9. ContInv'
  <2>1. Holds(cont.d)' <=> Holds(cont.d)
    BY <1>1, <1>6 DEF Holds
  <2>2. \A o : Anchored(o)' <=> Anchored(o)
    BY <1>1 DEF Anchored, Pending
  <2> QED  BY <2>1, <2>2, <1>1 DEF IInv, ContInv
<1>10. TmpInv'
  <2>1. tmp.k # "none" => tmp.o \in Objs
    BY DEF IInv, TmpInv, TypeOK, Ptrs
  <2> QED  BY <2>1, <1>1, <1>2, <1>7 DEF IInv, TmpInv
<1>11. DyingInv'
  BY <1>1, <1>2, <1>3 DEF IInv, DyingInv
<1>12. StkInv'
  <2>1. \A i, j \in 1..Len(stk) : stk[i] = stk[j] => i = j
    BY DEF IInv, StkInv, FinalizedOnce
  <2>2. \A q \in Objs : st[q] = "dying" <=> \E i \in 1..Len(stk) : stk[i] = q
    BY DEF IInv, StkInv
  <2>3. FinalizedOnce'
    BY <2>1, <1>2, <1>4 DEF FinalizedOnce
  <2>4. \A q \in Objs : st'[q] = "dying" <=> \E i \in 1..Len(stk') : stk'[i] = q
    <3> SUFFICES ASSUME NEW q \in Objs
                 PROVE  st'[q] = "dying" <=> \E i \in 1..Len(stk') : stk'[i] = q
      OBVIOUS
    <3>1. CASE q = Top
      <4>1. \A i \in 1..(Len(stk) - 1) : stk[i] # Top
        BY <2>1, <1>2
      <4> QED  BY <3>1, <4>1, <1>2, <1>3, <1>4
    <3>2. CASE q # Top
      <4>1. (\E i \in 1..Len(stk) : stk[i] = q) <=> (\E i \in 1..(Len(stk) - 1) : stk[i] = q)
        BY <3>2, <1>2
      <4> QED  BY <3>2, <4>1, <2>2, <1>2, <1>3, <1>4
    <3> QED  BY <3>1, <3>2
  <2> QED  BY <2>3, <2>4 DEF StkInv
<1>13. WeakInv'
  BY <1>1, <1>6, <1>7 DEF IInv, WeakInv
<1> QED  BY <1>5, <1>8, <1>9, <1>10, <1>11, <1>12, <1>13 DEF IInv

-----------------------------------------------------------------------------
(* The theorems.                                                            *)

\* Every step of the program keeps the invariant.
LEMMA StepIInv ==
    ASSUME IInv, SafeIdioms, [Next]_vars
    PROVE  IInv'
<1>1. CASE Statement
  <2>1. ASSUME NEW v \in Vars \cup WVars, Declare(v) PROVE IInv'
    BY <2>1, DeclareStep
  <2>2. ASSUME NEW o \in Objs, NEW kind \in Kinds, NEW hasInit \in BOOLEAN,
               New(o, kind, hasInit)
        PROVE  IInv'
    BY <2>2, NewStep
  <2>3. CASE InitReturns
    BY <2>3, InitReturnsStep
  <2>4. ASSUME NEW s \in Slots, CallReturns(s) PROVE IInv'
    BY <2>4, CallReturnsStep
  <2>5. ASSUME NEW d \in Slots, NEW v \in Ptrs, StoreValue(d, v) PROVE IInv'
    BY <2>5, StoreValueStep
  <2>6. ASSUME NEW d \in Slots, StoreTmp(d) PROVE IInv'
    BY <2>6, StoreTmpStep
  <2>7. CASE FinishStore
    BY <2>7, FinishStoreStep
  <2>8. ASSUME NEW w \in WSlots, NEW v \in Ptrs, StoreWeak(w, v) PROVE IInv'
    BY <2>8, StoreWeakStep
  <2>9. CASE FlushTransients
    BY <2>9, FlushTransientsStep
  <2>10. ASSUME NEW v \in Vars, LeaveScope(v) PROVE IInv'
    BY <2>10, LeaveScopeStep
  <2>11. ASSUME NEW w \in WVars, LeaveScopeWeak(w) PROVE IInv'
    BY <2>11, LeaveScopeWeakStep
  <2> QED  BY <1>1, <2>1, <2>2, <2>3, <2>4, <2>5, <2>6, <2>7, <2>8, <2>9, <2>10, <2>11
           DEF Statement
<1>2. CASE Teardown
  <2>1. CASE DestructEnters \/ DestructReturns
    BY <2>1, DestructStep
  <2>2. ASSUME NEW i \in 1..NF, TeardownStrong(i) PROVE IInv'
    BY <2>2, TeardownStrongStep
  <2>3. ASSUME NEW i \in 1..NF, TeardownWeak(i) PROVE IInv'
    BY <2>3, TeardownWeakStep
  <2>4. CASE Free
    BY <2>4, FreeStep
  <2> QED  BY <1>2, <2>1, <2>2, <2>3, <2>4 DEF Teardown
<1>3. CASE UNCHANGED vars
  <2>1. /\ st' = st /\ memcount' = memcount /\ tear' = tear /\ wrefs' = wrefs /\ slot' = slot
        /\ wslot' = wslot /\ scope' = scope /\ tmp' = tmp /\ cont' = cont /\ stk' = stk
        /\ ph' = ph /\ credit' = credit
    BY <1>3 DEF vars
  <2>2. TypeOK' /\ CountInv' /\ PosInv'
    <3>1. TypeOK' /\ PosInv'
      BY <2>1 DEF IInv, TypeOK, PosInv
    <3>2. \A q \in Objs : Refs(q)' = Refs(q) /\ Pending(q)' = Pending(q)
      BY <2>1 DEF Refs, Pending
    <3>3. CountInv'
      BY <2>1, <3>2 DEF IInv, CountInv
    <3> QED  BY <3>1, <3>3
  <2>3. CreditInv' /\ ContInv' /\ TmpInv'
    BY <2>1 DEF IInv, CreditInv, ContInv, TmpInv, Holds, Anchored, Pending, Running
  <2>4. DyingInv' /\ StkInv' /\ WeakInv'
    BY <2>1 DEF IInv, DyingInv, StkInv, FinalizedOnce, WeakInv, Holds
  <2> QED  BY <2>2, <2>3, <2>4 DEF IInv
<1> QED  BY <1>1, <1>2, <1>3 DEF Next

\* The invariant implies the safety properties.
LEMMA IInvSafe ==
    ASSUME IInv
    PROVE  /\ TypeOK /\ CountExact /\ StrongSafe /\ WeakSafe /\ RegistrySafe
           /\ FinalizedOnce /\ NoOrphan /\ StoreTargetLive
<1>1. TypeOK
  BY DEF IInv
<1>2. CountExact
  BY DEF IInv, CountInv, CountExact, Refs
<1>3. StrongSafe
  <2> SUFFICES ASSUME NEW s \in Slots, Holds(s), s # cont.d, slot[s] # Nil
               PROVE  st[slot[s]] = "live"
    BY DEF StrongSafe
  <2>1. credit[s] = slot[s]
    BY DEF IInv, CreditInv
  <2> QED  BY <2>1, CreditLive
<1>4. WeakSafe
  <2> SUFFICES ASSUME NEW w \in WSlots, Holds(w), wslot[w] # Nil
               PROVE  st[wslot[w]] = "live" /\ wrefs[wslot[w]][w] = 1
    BY DEF WeakSafe
  <2>1. wrefs[wslot[w]][w] = 1
    BY DEF IInv, WeakInv
  <2> QED  BY <2>1, WeakLive
<1>5. RegistrySafe
  <2> SUFFICES ASSUME NEW o \in Objs, NEW w \in WSlots, wrefs[o][w] > 0
               PROVE  Holds(w) /\ wslot[w] = o /\ st[o] = "live"
    BY DEF RegistrySafe
  <2>1. wrefs[o][w] = 1
    BY DEF IInv, WeakInv
  <2> QED  BY <2>1 DEF IInv, WeakInv
<1>6. FinalizedOnce
  BY DEF IInv, StkInv
<1>7. NoOrphan
  <2> SUFFICES ASSUME tmp = NoTmp, NEW o \in Objs, st[o] = "live"
               PROVE  \E s \in Slots : Holds(s) /\ credit[s] = o
    BY DEF NoOrphan
  <2>1. memcount[o] > 0 /\ Pending(o) = 0
    BY RCAssumption DEF IInv, PosInv, NoTmp, Pending
  <2>2. Cardinality(Refs(o)) # 0
    BY <2>1, CountNat
  <2>3. Refs(o) # {}
    BY <2>2, FS_EmptySet
  <2>4. PICK s \in Slots : credit[s] = o
    BY <2>3 DEF Refs
  <2>5. Holds(s)
    BY <2>4, RCAssumption DEF IInv, CreditInv
  <2> QED  BY <2>4, <2>5
<1>8. StoreTargetLive
  BY DEF IInv, ContInv, StoreTargetLive
<1> QED  BY <1>1, <1>2, <1>3, <1>4, <1>5, <1>6, <1>7, <1>8

\* The variables of a program that keeps to the safe idioms have their types.
THEOREM TypeCorrect == SafeIdioms => (Spec => []TypeOK)
<1> SUFFICES ASSUME SafeIdioms PROVE Spec => []TypeOK
  OBVIOUS
<1>1. IInv /\ [Next]_vars => IInv'
  BY StepIInv
<1>2. IInv => TypeOK
  BY IInvSafe
<1> QED  BY InitIInv, <1>1, <1>2, PTL DEF Spec

\* Counts are exact: no emitted call of __egl_incr_ptr or __egl_decr_ptr is
\* missing or doubled, for any number of objects, variables and members.
THEOREM CountsExact == SafeIdioms => (Spec => []CountExact)
<1> SUFFICES ASSUME SafeIdioms PROVE Spec => []CountExact
  OBVIOUS
<1>1. IInv /\ [Next]_vars => IInv'
  BY StepIInv
<1>2. IInv => CountExact
  BY IInvSafe
<1> QED  BY InitIInv, <1>1, <1>2, PTL DEF Spec

\* No counted pointer dangles, and the target of a store outlives the
\* teardown of the old value.
THEOREM PointersSafe == SafeIdioms => (Spec => [](StrongSafe /\ StoreTargetLive))
<1> SUFFICES ASSUME SafeIdioms PROVE Spec => [](StrongSafe /\ StoreTargetLive)
  OBVIOUS
<1>1. IInv /\ [Next]_vars => IInv'
  BY StepIInv
<1>2. IInv => StrongSafe /\ StoreTargetLive
  BY IInvSafe
<1> QED  BY InitIInv, <1>1, <1>2, PTL DEF Spec

\* No weak pointer dangles, and the registry of an object names only positions
\* that still exist.
THEOREM WeakPointersSafe == SafeIdioms => (Spec => [](WeakSafe /\ RegistrySafe))
<1> SUFFICES ASSUME SafeIdioms PROVE Spec => [](WeakSafe /\ RegistrySafe)
  OBVIOUS
<1>1. IInv /\ [Next]_vars => IInv'
  BY StepIInv
<1>2. IInv => WeakSafe /\ RegistrySafe
  BY IInvSafe
<1> QED  BY InitIInv, <1>1, <1>2, PTL DEF Spec

\* No object is finalized twice, and an object without an owner is gone.
THEOREM FreedExactlyOnce == SafeIdioms => (Spec => [](FinalizedOnce /\ NoOrphan))
<1> SUFFICES ASSUME SafeIdioms PROVE Spec => [](FinalizedOnce /\ NoOrphan)
  OBVIOUS
<1>1. IInv /\ [Next]_vars => IInv'
  BY StepIInv
<1>2. IInv => FinalizedOnce /\ NoOrphan
  BY IInvSafe
<1> QED  BY InitIInv, <1>1, <1>2, PTL DEF Spec
=============================================================================
