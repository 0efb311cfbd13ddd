----------------------------- MODULE TypesProofs -----------------------------
(***************************************************************************)
(* The instances of generic functions get one body each, in the order they *)
(* were asked for in, whatever the types of a program are; and a call      *)
(* through an interface reaches the method of the object's class, for any  *)
(* interfaces and classes and wherever malloc puts the nodes, as long as   *)
(* no value of one interface is passed for another one.                    *)
(***************************************************************************)
EXTENDS Generics, Interfaces, FiniteSetTheorems, SequenceTheorems, WellFoundedInduction, TLAPS

-----------------------------------------------------------------------------
(* Generics: the inductive invariant.                                       *)

\* Of whatever members.
Sequence(s) == s \in Seq(Range(s))

\* A concrete function has a body from its turn in the work list on.
FuncIs(f) ==
    /\ funcs[f] = [key |-> funcs[f].key, sig |-> funcs[f].sig,
                   bodies |-> funcs[f].bodies, asked |-> funcs[f].asked]
    /\ IF f < next THEN Len(funcs[f].bodies) = 1 ELSE funcs[f].bodies = <<>>

FuncsInv == Sequence(funcs) /\ \A f \in 1..Len(funcs) : FuncIs(f)

\* The work list has the functions in their order, each once.
WorksInv ==
    /\ Sequence(works) /\ Len(works) = Len(funcs)
    /\ \A k \in 1..Len(works) : works[k].func = k

GenericsIInv == FuncsInv /\ WorksInv /\ next \in Nat /\ next <= Len(works) + 1

-----------------------------------------------------------------------------
(* Sequences.                                                               *)

LEMMA Lengthened ==
    ASSUME NEW s, Sequence(s), NEW x
    PROVE  LET u == Append(s, x)
           IN  /\ Sequence(u) /\ Len(s) \in Nat /\ Len(u) = Len(s) + 1
               /\ \A i \in 1..Len(s) : u[i] = s[i]
               /\ u[Len(s) + 1] = x
<1> DEFINE S == Range(s) \cup {x}
           u == Append(s, x)
<1>1. s \in Seq(S) /\ x \in S /\ Len(s) \in Nat
  <2>1. s \in [1..Len(s) -> Range(s)] /\ Len(s) \in Nat
    BY LenProperties DEF Sequence
  <2> QED
    BY <2>1, SeqDef
<1>2. /\ u \in Seq(S) /\ Len(u) = Len(s) + 1
      /\ \A i \in 1..Len(s) : u[i] = s[i]
      /\ u[Len(s) + 1] = x
  BY <1>1, AppendProperties
<1>3. Sequence(u)
  <2>1. Len(u) \in Nat /\ DOMAIN u = 1..Len(u)
    BY <1>1, <1>2, LenProperties
  <2>2. u \in [1..Len(u) -> Range(u)]
    <3>1. u \in [1..Len(u) -> S]
      BY <1>2, LenProperties
    <3> HIDE DEF u, S
    <3>2. \A i \in 1..Len(u) : u[i] \in Range(u)
      BY <2>1 DEF Range
    <3> QED
      BY <3>1, <3>2
  <2> QED
    BY <2>1, <2>2, SeqDef DEF Sequence
<1> QED
  BY <1>1, <1>2, <1>3

LEMMA SequenceIs ==
    ASSUME NEW s, Sequence(s)
    PROVE  s \in [1..Len(s) -> Range(s)] /\ Len(s) \in Nat
BY LenProperties DEF Sequence

\* One of the same length.
LEMMA SameLength ==
    ASSUME NEW n \in Nat, NEW S, NEW u \in [1..n -> S]
    PROVE  Sequence(u) /\ Len(u) = n
<1>1. u \in Seq(S)
  BY SeqDef
<1>2. Len(u) \in Nat /\ DOMAIN u = 1..Len(u) /\ DOMAIN u = 1..n
  BY <1>1, LenProperties
<1>3. Len(u) = n
  BY <1>2
<1>4. u \in [1..n -> Range(u)]
  BY <1>2 DEF Range
<1> QED
  BY <1>3, <1>4, SeqDef DEF Sequence

\* The instance that is found is a function of the list.
LEMMA InstanceIn ==
    ASSUME Sequence(funcs), NEW key
    PROVE  Instance(key) \in 0..Len(funcs)
<1> DEFINE I == {k \in 1..Len(funcs) : funcs[k].key = key}
<1>1. Instance(key) = IF I # {} THEN Min(I) ELSE 0
  BY DEF Instance, SelectInSeq
<1>2. Len(funcs) \in Nat
  BY LenProperties DEF Sequence
<1>3. ASSUME I # {} PROVE Min(I) \in I
  <2> DEFINE R == OpToRel(<, Nat)
  <2>1. IsWellFoundedOn(R, Nat)
    BY NatLessThanWellFounded
  <2>5. I \in SUBSET Nat
    OBVIOUS
  <2> HIDE DEF I
  <2>2. PICK n \in I : \A m \in I : <<m, n>> \notin R
    BY <1>3, <2>1, <2>5, WFMin
  <2>3. ASSUME NEW m \in I, m < n PROVE FALSE
    <3>1. <<m, n>> \in R
      BY <2>3, <2>5 DEF OpToRel
    <3> QED
      BY <2>2, <3>1
  <2>4. \A m \in I : n <= m
    BY <2>3, <2>5
  <2> QED
    BY <2>4 DEF Min
<1> QED
  BY <1>1, <1>2, <1>3

-----------------------------------------------------------------------------
(* The steps.                                                               *)

LEMMA RegisterKeeps ==
    ASSUME GenericsIInv, Register
    PROVE  GenericsIInv'
<1>1. funcs' = funcs /\ works' = works /\ next = 0 /\ next' = 1
  BY DEF Register
<1>2. Len(funcs) \in Nat
  BY LenProperties DEF GenericsIInv, FuncsInv, Sequence
<1>3. \A f \in 1..Len(funcs) : FuncIs(f)'
  BY <1>1, <1>2 DEF GenericsIInv, FuncsInv, FuncIs
<1> QED
  BY <1>1, <1>2, <1>3 DEF GenericsIInv, FuncsInv, WorksInv, Sequence

\* An instance that is found stays as it is; a new one goes to the end of both
\* lists.
LEMMA GenericGetKeeps ==
    ASSUME GenericsIInv, GenericGet
    PROVE  GenericsIInv'
<1>1. next' = next /\ next \in Nat /\ next <= Len(works) + 1
  BY DEF GenericGet, GenericsIInv
<1>2. /\ Sequence(funcs) /\ Sequence(works) /\ Len(works) = Len(funcs) /\ Len(funcs) \in Nat
      /\ \A f \in 1..Len(funcs) : FuncIs(f) /\ works[f].func = f
  BY LenProperties DEF GenericsIInv, FuncsInv, WorksInv, Sequence
<1>3. CASE UNCHANGED <<funcs, works>>
  <2>1. \A f \in 1..Len(funcs) : FuncIs(f)'
    BY <1>1, <1>2, <1>3 DEF FuncIs
  <2> QED
    BY <1>1, <1>2, <1>3, <2>1 DEF GenericsIInv, FuncsInv, WorksInv, Sequence
<1>4. ASSUME NEW call, Request(call, FALSE)
      PROVE  GenericsIInv'
  <2> DEFINE i == Instance(call.key)
  <2>1. i \in 0..Len(funcs)
    BY <1>2, InstanceIn
  <2>2. CASE i # 0
    <3> DEFINE y == funcs[i]
               x == [y EXCEPT !.asked = @ \cup {call.sig}]
    <3>1. funcs' = [funcs EXCEPT ![i] = x] /\ works' = works
      BY <1>4, <2>2 DEF Request
    <3>2. i \in 1..Len(funcs)
      BY <1>2, <2>1, <2>2
    <3>3. FuncIs(i)
      BY <1>2, <3>2
    <3>4. /\ x = [key |-> x.key, sig |-> x.sig, bodies |-> x.bodies, asked |-> x.asked]
          /\ x.bodies = funcs[i].bodies
      <4>1. y = [key |-> y.key, sig |-> y.sig, bodies |-> y.bodies, asked |-> y.asked]
        BY <3>3 DEF FuncIs
      <4>2. y.bodies = funcs[i].bodies
        OBVIOUS
      <4> HIDE DEF y
      <4>3. x = [key |-> y.key, sig |-> y.sig, bodies |-> y.bodies, asked |-> y.asked \cup {call.sig}]
        BY <4>1
      <4> HIDE DEF x
      <4> QED
        BY <4>2, <4>3
    <3> HIDE DEF i, x
    <3>5. /\ Sequence(funcs') /\ Len(funcs') = Len(funcs)
          /\ \A f \in 1..Len(funcs) : funcs'[f] = IF f = i THEN x ELSE funcs[f]
      <4>1. funcs \in [1..Len(funcs) -> Range(funcs)]
        BY <1>2, SequenceIs
      <4>2. /\ funcs' \in [1..Len(funcs) -> Range(funcs) \cup {x}]
            /\ \A f \in 1..Len(funcs) : funcs'[f] = IF f = i THEN x ELSE funcs[f]
        BY <3>1, <3>2, <4>1
      <4> QED
        BY <1>2, <4>2, SameLength
    <3>6. ASSUME NEW f \in 1..Len(funcs) PROVE FuncIs(f)'
      BY <1>1, <1>2, <3>3, <3>4, <3>5 DEF FuncIs
    <3> QED
      BY <1>1, <1>2, <3>1, <3>5, <3>6 DEF GenericsIInv, FuncsInv, WorksInv, Sequence
  <2>3. CASE i = 0
    <3> DEFINE n == Len(funcs) + 1
               x == [key |-> call.key, sig |-> call.sig, bodies |-> <<>>, asked |-> {call.sig}]
               w == [fun |-> TheCall.fun, scanned |-> call.scanned, func |-> n]
    <3>1. funcs' = Append(funcs, x) /\ works' = Append(works, w)
      BY <1>4, <2>3 DEF Request
    <3>2. /\ x = [key |-> x.key, sig |-> x.sig, bodies |-> x.bodies, asked |-> x.asked]
          /\ x.bodies = <<>> /\ w.func = n
      OBVIOUS
    <3> HIDE DEF x, w
    <3>3. /\ Sequence(funcs') /\ Len(funcs') = n /\ funcs'[n] = x
          /\ \A f \in 1..Len(funcs) : funcs'[f] = funcs[f]
      BY <1>2, <3>1, Lengthened
    <3>4. /\ Sequence(works') /\ Len(works') = n /\ works'[n] = w
          /\ \A f \in 1..Len(funcs) : works'[f] = works[f]
      BY <1>2, <3>1, Lengthened
    <3>5. ASSUME NEW f \in 1..n PROVE FuncIs(f)' /\ works'[f].func = f
      <4>1. CASE f = n
        BY <1>1, <1>2, <3>2, <3>3, <3>4, <4>1 DEF FuncIs
      <4>2. CASE f \in 1..Len(funcs)
        BY <1>1, <1>2, <3>3, <3>4, <4>2 DEF FuncIs
      <4> QED
        BY <1>2, <4>1, <4>2
    <3>6. next <= Len(works') + 1
      BY <1>1, <1>2, <3>4
    <3> HIDE DEF n
    <3> QED
      BY <1>1, <3>3, <3>4, <3>5, <3>6 DEF GenericsIInv, FuncsInv, WorksInv, Sequence
  <2> QED
    BY <2>2, <2>3
<1> QED
  BY <1>3, <1>4 DEF GenericGet, Examine

LEMMA CompileWorkKeeps ==
    ASSUME GenericsIInv, CompileWork
    PROVE  GenericsIInv'
<1>1. /\ next \in 1..Len(works) /\ next' = next + 1 /\ works' = works
      /\ next \in Nat
  BY DEF CompileWork, GenericsIInv
<1>2. /\ Sequence(funcs) /\ Sequence(works) /\ Len(works) = Len(funcs) /\ Len(funcs) \in Nat
      /\ \A f \in 1..Len(funcs) : FuncIs(f) /\ works[f].func = f
  BY LenProperties DEF GenericsIInv, FuncsInv, WorksInv, Sequence
<1>3. works[next].func = next /\ next \in 1..Len(funcs) /\ FuncIs(next)
  BY <1>1, <1>2
<1>4. PICK sig : funcs' = [funcs EXCEPT ![works[next].func].bodies = Append(@, sig)]
  BY DEF CompileWork
<1> DEFINE x == [funcs[next] EXCEPT !.bodies = Append(@, sig)]
<1>5. funcs' = [funcs EXCEPT ![next] = x]
  BY <1>3, <1>4
<1>6. funcs[next].bodies = <<>>
  BY <1>3 DEF FuncIs
<1>7. /\ x = [key |-> x.key, sig |-> x.sig, bodies |-> x.bodies, asked |-> x.asked]
      /\ x.bodies = Append(<<>>, sig)
  BY <1>3, <1>6 DEF FuncIs
<1>8. Len(x.bodies) = 1
  <2>1. Sequence(<<>>) /\ Len(<<>>) = 0
    <3>1. <<>> \in Seq(Range(<<>>)) /\ Len(<<>>) = 0
      BY EmptySeq
    <3> QED
      BY <3>1 DEF Sequence
  <2>2. Len(Append(<<>>, sig)) = Len(<<>>) + 1
    BY <2>1, Lengthened, Zenon
  <2>3. x.bodies = Append(<<>>, sig)
    BY <1>7
  <2>4. Len(x.bodies) = 0 + 1
    BY <2>1, <2>2, <2>3, Zenon
  <2> QED
    BY <2>4
<1> HIDE DEF x
<1>9. /\ Sequence(funcs') /\ Len(funcs') = Len(funcs)
      /\ \A f \in 1..Len(funcs) : funcs'[f] = IF f = next THEN x ELSE funcs[f]
  <2>1. funcs \in [1..Len(funcs) -> Range(funcs)]
    BY <1>2, SequenceIs
  <2>2. /\ funcs' \in [1..Len(funcs) -> Range(funcs) \cup {x}]
        /\ \A f \in 1..Len(funcs) : funcs'[f] = IF f = next THEN x ELSE funcs[f]
    BY <1>3, <1>5, <2>1
  <2> QED
    BY <1>2, <2>2, SameLength
<1>10. ASSUME NEW f \in 1..Len(funcs) PROVE FuncIs(f)'
  <2>1. FuncIs(f) /\ (f = next \/ (f < next + 1 <=> f < next))
    BY <1>1, <1>2
  <2>2. CASE f = next
    BY <1>1, <1>7, <1>8, <1>9, <2>2 DEF FuncIs
  <2>3. CASE f # next
    BY <1>1, <1>9, <2>1, <2>3 DEF FuncIs
  <2> QED
    BY <2>2, <2>3
<1>11. next' \in Nat /\ next' <= Len(works) + 1
  BY <1>1, <1>2
<1> QED
  BY <1>1, <1>2, <1>9, <1>10, <1>11 DEF GenericsIInv, FuncsInv, WorksInv, Sequence

LEMMA InvariantHolds == GenericsSpec => []GenericsIInv
<1>1. GenericsInit => GenericsIInv
  <2> SUFFICES ASSUME GenericsInit PROVE GenericsIInv
    OBVIOUS
  <2>1. funcs = <<>> /\ works = <<>> /\ next = 0
    BY DEF GenericsInit
  <2>2. <<>> \in Seq(Range(<<>>)) /\ Len(<<>>) = 0
    BY EmptySeq
  <2> QED
    BY <2>1, <2>2 DEF GenericsIInv, FuncsInv, WorksInv, Sequence
<1>2. GenericsIInv /\ [GenericsNext]_genVars => GenericsIInv'
  <2> SUFFICES ASSUME GenericsIInv, [GenericsNext]_genVars PROVE GenericsIInv'
    OBVIOUS
  <2>1. CASE EndFunction \/ UNCHANGED genVars
    <3>1. funcs' = funcs /\ works' = works /\ next' = next
      BY <2>1 DEF EndFunction, genVars
    <3>2. \A f : FuncIs(f)' <=> FuncIs(f)
      BY <3>1 DEF FuncIs
    <3> QED
      BY <3>1, <3>2 DEF GenericsIInv, FuncsInv, WorksInv, Sequence
  <2> QED
    BY <2>1, RegisterKeeps, GenericGetKeeps, CompileWorkKeeps DEF GenericsNext
<1> QED
  BY <1>1, <1>2, PTL DEF GenericsSpec

-----------------------------------------------------------------------------

\* For any programs and whatever is computed of their types: the work list of
\* ac_compile_generics gives the functions that ac_generic_get declares one body
\* each, in their order, while the bodies it compiles ask for more.
THEOREM OneBodyHolds == GenericsSpec => []OneBody
<1>1. GenericsIInv => OneBody
  <2> SUFFICES ASSUME GenericsIInv, NEW f \in 1..Len(funcs)
               PROVE  Len(funcs[f].bodies) = IF f < next THEN 1 ELSE 0
    BY DEF OneBody
  <2>1. FuncIs(f) /\ Len(<<>>) = 0
    BY EmptySeq DEF GenericsIInv, FuncsInv
  <2> QED
    BY <2>1 DEF FuncIs
<1> QED
  BY <1>1, InvariantHolds, PTL

\* When ac_compile_generics is through with the work list, every function that
\* was declared has its body: WorkEnds, but for that it comes to an end.
AllCompiled ==
    next > Len(works) => \A f \in 1..Len(funcs) : Len(funcs[f].bodies) = 1

THEOREM AllCompiledHolds == GenericsSpec => []AllCompiled
<1>1. GenericsIInv => AllCompiled
  <2> SUFFICES ASSUME GenericsIInv, next > Len(works), NEW f \in 1..Len(funcs)
               PROVE  Len(funcs[f].bodies) = 1
    BY DEF AllCompiled
  <2>1. FuncIs(f) /\ Len(works) = Len(funcs) /\ Len(funcs) \in Nat /\ next \in Nat
    BY LenProperties DEF GenericsIInv, FuncsInv, WorksInv, Sequence
  <2>2. f < next
    BY <2>1
  <2> QED
    BY <2>1, <2>2 DEF FuncIs
<1> QED
  BY <1>1, InvariantHolds, PTL

-----------------------------------------------------------------------------
(* Interfaces: the inductive invariant.                                     *)

\* The methods of the interface i in the order of their declarations.
Declared(i) == [n \in DOMAIN hierarchy.ifcs[i] |-> hierarchy.ifcs[i][n].name]

\* Every module lists the methods in that order.
ListingsInv ==
    \A m \in DOMAIN listings : listings[m] = [i \in DOMAIN hierarchy.ifcs |-> Declared(i)]

\* Behind the offset of an interface a class's table has the class's methods of
\* the names the interface declares, in that order.
TableInv(c) ==
    LET ifcs == hierarchy.classes[c].ifcs
        table == vtables[c]
    IN  /\ table.names = ifcs
        /\ \A k \in 1..Len(ifcs) : \A x \in 1..Len(Declared(ifcs[k])) :
              table.functions[(x - 1) + table.offsets[k]] = <<c, Declared(ifcs[k])[x]>>

VtablesInv == \A c \in DOMAIN vtables : c \in DOMAIN hierarchy.classes /\ TableInv(c)

\* The object has its own class's type, or its class lists its interfaces.
HeldInv ==
    held # <<>> =>
        /\ Linked
        /\ held = [class |-> held.class, type |-> held.type]
        /\ held.class \in DOMAIN hierarchy.classes
        /\ \/ held.type = ClassType(held.class)
           \/ /\ held.type = InterfaceType(held.type.names)
              /\ held.type.names \in Seq(ToSet(hierarchy.classes[held.class].ifcs))

InterfacesIInv ==
    /\ hierarchy \in Hierarchies
    /\ ListingsInv /\ VtablesInv /\ HeldInv
    /\ held = <<>> => called = Nothing
    /\ DispatchRight

-----------------------------------------------------------------------------
(* Positions.                                                               *)

LEMMA MinIn ==
    ASSUME NEW S \in SUBSET Nat, S # {}
    PROVE  Min(S) \in S
<1> DEFINE R == OpToRel(<, Nat)
<1>1. IsWellFoundedOn(R, Nat)
  BY NatLessThanWellFounded
<1>2. PICK n \in S : \A m \in S : <<m, n>> \notin R
  BY <1>1, WFMin
<1>3. ASSUME NEW m \in S, m < n PROVE FALSE
  <2>1. <<m, n>> \in R
    BY <1>3 DEF OpToRel
  <2> QED
    BY <1>2, <2>1
<1>4. \A m \in S : n <= m
  BY <1>3
<1> QED
  BY <1>4 DEF Min

\* What SelectInSeq returns: I are the positions that pass its test.
LEMMA FirstIn ==
    ASSUME NEW n \in Nat, NEW I \in SUBSET (1..n)
    PROVE  LET x == IF I # {} THEN Min(I) ELSE 0
           IN  x \in 0..n /\ (x # 0 => x \in I) /\ (I # {} => x # 0)
<1>1. I \in SUBSET Nat
  OBVIOUS
<1>2. I # {} => Min(I) \in I
  BY <1>1, MinIn
<1>3. I # {} => Min(I) \in 1..n
  BY <1>2
<1> QED
  BY <1>2, <1>3

\* The hypotheses on a program, for the one at hand.
LEMMA ProgramIs ==
    ASSUME hierarchy \in Hierarchies
    PROVE  /\ IsFiniteSet(DOMAIN hierarchy.ifcs)
           /\ \A i \in DOMAIN hierarchy.ifcs :
                 /\ hierarchy.ifcs[i] \in Seq(Methods) /\ Declared(i) \in Seq(STRING)
                 /\ Len(Declared(i)) = Len(hierarchy.ifcs[i])
           /\ \A c \in DOMAIN hierarchy.classes :
                 /\ hierarchy.classes[c].ifcs \in Seq(DOMAIN hierarchy.ifcs)
                 /\ hierarchy.classes[c].methods \in Seq(Methods)
<1>1. /\ IsFiniteSet(DOMAIN hierarchy.ifcs)
      /\ hierarchy.ifcs \in [DOMAIN hierarchy.ifcs -> Seq(Methods)]
      /\ hierarchy.classes \in [DOMAIN hierarchy.classes ->
             [ifcs : Seq(DOMAIN hierarchy.ifcs), methods : Seq(Methods)]]
  BY HierarchyAssumption
<1>2. ASSUME NEW i \in DOMAIN hierarchy.ifcs
      PROVE  /\ hierarchy.ifcs[i] \in Seq(Methods) /\ Declared(i) \in Seq(STRING)
             /\ Len(Declared(i)) = Len(hierarchy.ifcs[i])
  <2>1. hierarchy.ifcs[i] \in Seq(Methods)
    BY <1>1
  <2>2. \A n \in 1..Len(hierarchy.ifcs[i]) : hierarchy.ifcs[i][n].name \in STRING
    <3> SUFFICES ASSUME NEW n \in 1..Len(hierarchy.ifcs[i])
                 PROVE  hierarchy.ifcs[i][n].name \in STRING
      OBVIOUS
    <3>1. hierarchy.ifcs[i][n] \in Methods
      BY <2>1, ElementOfSeq
    <3> QED
      BY <3>1 DEF Methods
  <2>3. Declared(i) = [n \in 1..Len(hierarchy.ifcs[i]) |-> hierarchy.ifcs[i][n].name]
    BY <2>1, LenProperties DEF Declared
  <2> QED
    BY <2>1, <2>2, <2>3, LenProperties
<1>3. ASSUME NEW c \in DOMAIN hierarchy.classes
      PROVE  /\ hierarchy.classes[c].ifcs \in Seq(DOMAIN hierarchy.ifcs)
             /\ hierarchy.classes[c].methods \in Seq(Methods)
  BY <1>1
<1> QED
  BY <1>1, <1>2, <1>3

\* A name's number is its place in the interface's declaration.
LEMMA OffsetIs ==
    ASSUME hierarchy \in Hierarchies, ListingsInv, NEW m \in DOMAIN listings,
           NEW i \in DOMAIN hierarchy.ifcs, NEW name
    PROVE  /\ listings[m][i] = Declared(i)
           /\ Offset(m, i, name) \in Int
           /\ Offset(m, i, name) >= 0 =>
                 /\ Offset(m, i, name) + 1 \in 1..Len(Declared(i))
                 /\ Declared(i)[Offset(m, i, name) + 1] = name
<1>1. listings[m][i] = Declared(i)
  BY DEF ListingsInv
<1>2. Len(Declared(i)) \in Nat
  BY ProgramIs, LenProperties
<1> DEFINE I == {k \in 1..Len(Declared(i)) : Declared(i)[k] = name}
           x == IF I # {} THEN Min(I) ELSE 0
<1>3. x \in 0..Len(Declared(i)) /\ (x # 0 => x \in I)
  BY <1>2, FirstIn
<1>4. Offset(m, i, name) = x - 1
  BY <1>1 DEF Offset, SelectInSeq
<1> HIDE DEF x
<1> QED
  BY <1>1, <1>2, <1>3, <1>4

\* Whether some interface of a list has a method of this name.
LEMMA FirstIfc ==
    ASSUME hierarchy \in Hierarchies, ListingsInv, NEW m \in DOMAIN listings,
           NEW ifcs \in Seq(DOMAIN hierarchy.ifcs), NEW name
    PROVE  LET k == Takes(m, ifcs, name)
           IN  k \in 0..Len(ifcs) /\ (k # 0 => Offset(m, ifcs[k], name) >= 0)
<1> DEFINE I == {k \in 1..Len(ifcs) : Offset(m, ifcs[k], name) >= 0}
<1>1. Takes(m, ifcs, name) = IF I # {} THEN Min(I) ELSE 0
  BY DEF Takes, SelectInSeq
<1>2. Len(ifcs) \in Nat
  BY LenProperties
<1> DEFINE k == IF I # {} THEN Min(I) ELSE 0
<1>3. k \in 0..Len(ifcs) /\ (k # 0 => k \in I)
  BY <1>2, FirstIn
<1> QED
  BY <1>1, <1>2, <1>3

-----------------------------------------------------------------------------
(* The listing of a module.                                                 *)

\* Nodes at aligned addresses are all in one bucket, in which each comes
\* behind those that were put there before it.
LEMMA ListedIsDeclared ==
    ASSUME NEW ms \in Seq(Methods), NEW at \in [DOMAIN ms -> Addresses]
    PROVE  Listed(ms, at) = [n \in DOMAIN ms |-> ms[n].name]
<1>1. DOMAIN ms = 1..Len(ms) /\ Len(ms) \in Nat
  BY LenProperties
<1>2. \A a \in Addresses : a % Buckets = 0
  <2> SUFFICES ASSUME NEW a \in Addresses PROVE a % 8 = 0
    BY DEF Buckets
  <2>1. a \in Nat /\ a % 16 = 0
    BY HierarchyAssumption DEF Alignment
  <2> QED
    BY <2>1
<1>3. ASSUME NEW n \in 1..Len(ms) PROVE Place(at, n) = n
  <2> DEFINE before == {k \in DOMAIN at : \/ at[k] % Buckets < at[n] % Buckets
                                          \/ at[k] % Buckets = at[n] % Buckets /\ k <= n}
  <2>1. \A k \in DOMAIN at : at[k] % Buckets = 0
    BY <1>2
  <2>2. at[n] % Buckets = 0 /\ DOMAIN at = 1..Len(ms)
    BY <1>1, <2>1
  <2>3. before = 1..n
    BY <1>1, <2>1, <2>2
  <2>4. Cardinality(1..n) = n
    BY <1>1, FS_Interval
  <2> QED
    BY <2>3, <2>4 DEF Place
<1>4. ASSUME NEW p \in 1..Len(ms) PROVE At(at, p) = p
  BY <1>1, <1>3 DEF At
<1> QED
  BY <1>1, <1>4 DEF Listed

LEMMA DefineKeeps ==
    ASSUME InterfacesIInv, NEW m \in Modules, Define(m)
    PROVE  InterfacesIInv'
<1>1. /\ hierarchy' = hierarchy /\ vtables' = vtables /\ held' = held /\ called' = called
      /\ hierarchy \in Hierarchies /\ m \notin DOMAIN listings
  BY DEF Define, InterfacesIInv
<1>2. PICK at \in Placed(hierarchy.ifcs) :
         listings' = With(listings, m, [i \in DOMAIN hierarchy.ifcs |-> Listed(hierarchy.ifcs[i], at[i])])
  BY DEF Define
<1>3. ASSUME NEW i \in DOMAIN hierarchy.ifcs PROVE Listed(hierarchy.ifcs[i], at[i]) = Declared(i)
  <2>1. hierarchy.ifcs[i] \in Seq(Methods)
    BY <1>1, ProgramIs
  <2>2. PICK j \in DOMAIN hierarchy.ifcs : at[i] \in [DOMAIN hierarchy.ifcs[j] -> Addresses]
    BY DEF Placed
  <2>3. at[i] \in [DOMAIN hierarchy.ifcs[i] -> Addresses]
    BY <2>2 DEF Placed
  <2> QED
    BY <2>1, <2>3, ListedIsDeclared DEF Declared
<1>4. listings' = With(listings, m, [i \in DOMAIN hierarchy.ifcs |-> Declared(i)])
  BY <1>2, <1>3
<1>5. \A i : Declared(i)' = Declared(i)
  BY <1>1 DEF Declared
<1>6. ListingsInv'
  BY <1>1, <1>4, <1>5 DEF InterfacesIInv, ListingsInv, With
<1>7. VtablesInv'
  <2>1. ASSUME NEW c \in DOMAIN vtables PROVE c \in DOMAIN hierarchy.classes /\ TableInv(c)'
    <3>1. c \in DOMAIN hierarchy.classes /\ TableInv(c)
      BY DEF InterfacesIInv, VtablesInv
    <3>2. TableInv(c)'
      BY <1>1, <1>5, <3>1 DEF TableInv
    <3> QED
      BY <3>1, <3>2
  <2> QED
    BY <1>1, <2>1 DEF VtablesInv
<1>8. HeldInv'
  <2>1. held = <<>> \/ m \notin Modules
    BY <1>1 DEF InterfacesIInv, HeldInv, Linked
  <2> QED
    BY <1>1, <2>1 DEF HeldInv
<1> QED
  BY <1>1, <1>6, <1>7, <1>8 DEF InterfacesIInv, DispatchRight

-----------------------------------------------------------------------------
(* The table of a class.                                                    *)

\* The part of an interface ends where the next one's starts, or before.
LEMMA StartsApart ==
    ASSUME hierarchy \in Hierarchies, ListingsInv, NEW m \in DOMAIN listings,
           NEW ifcs \in Seq(DOMAIN hierarchy.ifcs),
           NEW j \in 1..Len(ifcs), NEW k \in (j + 1)..(Len(ifcs) + 1)
    PROVE  /\ Start(m, ifcs, j) \in Nat /\ Start(m, ifcs, k) \in Nat
           /\ Start(m, ifcs, j) + Len(Declared(ifcs[j])) <= Start(m, ifcs, k)
<1> DEFINE part(i) == {i} \X DOMAIN listings[m][ifcs[i]]
           before(n) == UNION {part(i) : i \in 1..(n - 1)}
<1>1. Len(ifcs) \in Nat
  BY LenProperties
<1>2. ASSUME NEW i \in 1..Len(ifcs)
      PROVE  /\ IsFiniteSet(part(i)) /\ Cardinality(part(i)) = Len(Declared(ifcs[i]))
             /\ Len(Declared(ifcs[i])) \in Nat
  <2>1. ifcs[i] \in DOMAIN hierarchy.ifcs
    BY ElementOfSeq
  <2>2. Declared(ifcs[i]) \in Seq(STRING) /\ listings[m][ifcs[i]] = Declared(ifcs[i])
    BY <2>1, ProgramIs, OffsetIs
  <2> DEFINE n == Len(Declared(ifcs[i]))
  <2>3. n \in Nat
    BY <2>2, LenProperties
  <2>7. part(i) = {i} \X (1..n)
    BY <2>2, LenProperties
  <2> HIDE DEF n, part
  <2>4. IsFiniteSet({i}) /\ Cardinality({i}) = 1
    BY FS_Singleton
  <2>5. IsFiniteSet(1..n) /\ Cardinality(1..n) = n
    <3>1. 1 \in Int /\ n \in Int /\ (IF 1 > n THEN 0 ELSE n - 1 + 1) = n
      BY <2>3
    <3> QED
      BY <3>1, FS_Interval
  <2>6. IsFiniteSet({i} \X (1..n)) /\ Cardinality({i} \X (1..n)) = 1 * n
    BY <2>4, <2>5, FS_Product
  <2>8. Len(Declared(ifcs[i])) = n
    BY DEF n
  <2> QED
    BY <2>3, <2>6, <2>7, <2>8
<1>3. ASSUME NEW n \in 1..(Len(ifcs) + 1) PROVE IsFiniteSet(before(n))
  <2> DEFINE f == [i \in 1..(n - 1) |-> part(i)]
             parts == {part(i) : i \in 1..(n - 1)}
  <2>1. IsFiniteSet(1..(n - 1))
    BY <1>1, FS_Interval
  <2>2. f \in Surjection(1..(n - 1), parts)
    BY DEF Surjection
  <2>3. IsFiniteSet(parts)
    BY <2>1, <2>2, FS_Surjection
  <2>4. \A T \in parts : IsFiniteSet(T)
    BY <1>1, <1>2
  <2> HIDE DEF parts
  <2>5. IsFiniteSet(UNION parts)
    BY <2>3, <2>4, FS_UNION
  <2> QED
    BY <2>5 DEF parts
<1> DEFINE a == before(j)
           p == part(j)
           b == before(k)
<1>4. IsFiniteSet(a) /\ IsFiniteSet(b) /\ IsFiniteSet(p)
  BY <1>1, <1>2, <1>3
<1>5. a \cap p = {}
  OBVIOUS
<1>6. a \cup p \in SUBSET b
  BY <1>1
<1>7. Start(m, ifcs, j) = Cardinality(a) /\ Start(m, ifcs, k) = Cardinality(b)
  BY DEF Start
<1>8. Cardinality(p) = Len(Declared(ifcs[j]))
  BY <1>2
<1> HIDE DEF a, p, b
<1>9. IsFiniteSet(a \cup p) /\ Cardinality(a \cup p) = Cardinality(a) + Cardinality(p) - Cardinality({})
  BY <1>4, <1>5, FS_Union
<1>10. Cardinality(a \cup p) <= Cardinality(b)
  BY <1>4, <1>6, FS_Subset
<1>11. Cardinality(a) \in Nat /\ Cardinality(b) \in Nat /\ Cardinality(p) \in Nat
  BY <1>4, FS_CardinalityType
<1>12. Cardinality({}) = 0
  BY FS_EmptySet
<1> QED
  BY <1>7, <1>8, <1>9, <1>10, <1>11, <1>12

\* A slot belongs to one method of one interface of the list.
LEMMA SlotIsOne ==
    ASSUME hierarchy \in Hierarchies, ListingsInv, NEW m \in DOMAIN listings,
           NEW ifcs \in Seq(DOMAIN hierarchy.ifcs),
           NEW j \in 1..Len(ifcs), NEW k \in 1..Len(ifcs),
           NEW x \in 1..Len(Declared(ifcs[j])), NEW y \in 1..Len(Declared(ifcs[k])),
           Start(m, ifcs, j) + (x - 1) = Start(m, ifcs, k) + (y - 1)
    PROVE  j = k /\ x = y
<1>1. Len(ifcs) \in Nat
  BY LenProperties
<1>2. /\ Len(Declared(ifcs[j])) \in Nat /\ Len(Declared(ifcs[k])) \in Nat
  <2>1. ifcs[j] \in DOMAIN hierarchy.ifcs /\ ifcs[k] \in DOMAIN hierarchy.ifcs
    BY ElementOfSeq
  <2>2. Declared(ifcs[j]) \in Seq(STRING) /\ Declared(ifcs[k]) \in Seq(STRING)
    BY <2>1, ProgramIs
  <2> QED
    BY <2>2, LenProperties
<1>3. Start(m, ifcs, j) \in Nat /\ Start(m, ifcs, k) \in Nat
  <2>1. j + 1 \in (j + 1)..(Len(ifcs) + 1) /\ k + 1 \in (k + 1)..(Len(ifcs) + 1)
    BY <1>1
  <2> QED
    BY <2>1, StartsApart
<1>4. CASE j < k
  <2>1. k \in (j + 1)..(Len(ifcs) + 1)
    BY <1>1, <1>4
  <2>2. Start(m, ifcs, j) + Len(Declared(ifcs[j])) <= Start(m, ifcs, k)
    BY <2>1, StartsApart
  <2> QED
    BY <1>2, <1>3, <2>2
<1>5. CASE k < j
  <2>1. j \in (k + 1)..(Len(ifcs) + 1)
    BY <1>1, <1>5
  <2>2. Start(m, ifcs, k) + Len(Declared(ifcs[k])) <= Start(m, ifcs, j)
    BY <2>1, StartsApart
  <2> QED
    BY <1>2, <1>3, <2>2
<1> QED
  BY <1>1, <1>2, <1>3, <1>4, <1>5

\* The methods of a class that an interface takes, and their slots.
Taken(m, ifcs, ms) == {n \in DOMAIN ms : Takes(m, ifcs, ms[n].name) # 0}
Slots(m, ifcs, ms) == [n \in Taken(m, ifcs, ms) |-> Slot(m, ifcs, ms[n].name)]

\* When all slots are filled, each holds the method of the name it stands for.
LEMMA TableRight ==
    ASSUME hierarchy \in Hierarchies, ListingsInv, NEW m \in DOMAIN listings,
           NEW ifcs \in Seq(DOMAIN hierarchy.ifcs), NEW ms \in Seq(Methods),
           Range(Slots(m, ifcs, ms)) = 0..(Start(m, ifcs, Len(ifcs) + 1) - 1),
           NEW k \in 1..Len(ifcs), NEW x \in 1..Len(Declared(ifcs[k]))
    PROVE  /\ (x - 1) + Start(m, ifcs, k) \in Range(Slots(m, ifcs, ms))
           /\ \A n \in Taken(m, ifcs, ms) :
                 Slots(m, ifcs, ms)[n] = (x - 1) + Start(m, ifcs, k)
                     => ms[n].name = Declared(ifcs[k])[x]
<1> DEFINE taken == Taken(m, ifcs, ms)
           slots == Slots(m, ifcs, ms)
           p == (x - 1) + Start(m, ifcs, k)
<1>1. Len(ifcs) \in Nat
  BY LenProperties
<1>2. Len(Declared(ifcs[k])) \in Nat
  <2>1. ifcs[k] \in DOMAIN hierarchy.ifcs
    BY ElementOfSeq
  <2>2. Declared(ifcs[k]) \in Seq(STRING)
    BY <2>1, ProgramIs
  <2> QED
    BY <2>2, LenProperties
<1>3. p \in Range(slots)
  <2>1. Len(ifcs) + 1 \in (k + 1)..(Len(ifcs) + 1)
    BY <1>1
  <2>2. /\ Start(m, ifcs, k) \in Nat /\ Start(m, ifcs, Len(ifcs) + 1) \in Nat
        /\ Start(m, ifcs, k) + Len(Declared(ifcs[k])) <= Start(m, ifcs, Len(ifcs) + 1)
    BY <2>1, StartsApart
  <2> QED
    BY <1>2, <2>2
<1> SUFFICES ASSUME NEW q \in taken, slots[q] = p
             PROVE  ms[q].name = Declared(ifcs[k])[x]
  BY <1>3
<1>4. q \in DOMAIN ms /\ Takes(m, ifcs, ms[q].name) # 0
      /\ Slot(m, ifcs, ms[q].name) = p
  BY DEF Taken, Slots
<1> HIDE DEF taken, slots
<1> DEFINE name == ms[q].name
           j == Takes(m, ifcs, name)
<1>5. j \in 0..Len(ifcs) /\ (j # 0 => Offset(m, ifcs[j], name) >= 0)
  BY FirstIfc
<1>6. j \in 1..Len(ifcs)
  BY <1>1, <1>4, <1>5
<1>12. j = Takes(m, ifcs, name) /\ name = ms[q].name
  OBVIOUS
<1> HIDE DEF name, j
<1> DEFINE y == Offset(m, ifcs[j], name) + 1
<1>7. y \in 1..Len(Declared(ifcs[j])) /\ Declared(ifcs[j])[y] = name /\ y - 1 = Offset(m, ifcs[j], name)
  <2>1. ifcs[j] \in DOMAIN hierarchy.ifcs
    BY <1>6, ElementOfSeq
  <2>2. Offset(m, ifcs[j], name) >= 0
    BY <1>5, <1>6
  <2>3. /\ Offset(m, ifcs[j], name) \in Int
        /\ Offset(m, ifcs[j], name) >= 0 =>
              /\ Offset(m, ifcs[j], name) + 1 \in 1..Len(Declared(ifcs[j]))
              /\ Declared(ifcs[j])[Offset(m, ifcs[j], name) + 1] = name
    BY <2>1, OffsetIs
  <2> QED
    BY <2>2, <2>3
<1>8. p = Start(m, ifcs, j) + (y - 1)
  BY <1>4, <1>7, <1>12 DEF Slot
<1>9. Start(m, ifcs, k) \in Nat
  <2>1. k + 1 \in (k + 1)..(Len(ifcs) + 1)
    BY <1>1
  <2> QED
    BY <2>1, StartsApart
<1>10. Start(m, ifcs, j) + (y - 1) = Start(m, ifcs, k) + (x - 1)
  BY <1>2, <1>4, <1>8, <1>9
<1> HIDE DEF y
<1>11. j = k /\ y = x
  BY <1>6, <1>7, <1>10, SlotIsOne
<1> QED
  BY <1>7, <1>11, <1>12

LEMMA MakeClassKeeps ==
    ASSUME InterfacesIInv, NEW c \in DOMAIN hierarchy.classes, MakeClass(c)
    PROVE  InterfacesIInv'
<1> DEFINE m == "classes"
           cls == hierarchy.classes[c]
           taken == {n \in DOMAIN cls.methods : Takes(m, cls.ifcs, cls.methods[n].name) # 0}
           slots == [n \in taken |-> Slot(m, cls.ifcs, cls.methods[n].name)]
           all == 0..(Start(m, cls.ifcs, Len(cls.ifcs) + 1) - 1)
           table == [names |-> cls.ifcs,
                     functions |-> [p \in all |->
                         <<c, cls.methods[CHOOSE n \in taken : slots[n] = p].name>>],
                     offsets |-> [k \in DOMAIN cls.ifcs |-> Start(m, cls.ifcs, k)]]
<1>1. /\ hierarchy' = hierarchy /\ listings' = listings /\ held' = held /\ called' = called
      /\ m \in DOMAIN listings /\ c \notin DOMAIN vtables
  BY DEF MakeClass
<1>2. \/ UNCHANGED vtables
      \/ Range(slots) = all /\ vtables' = With(vtables, c, table)
  BY DEF MakeClass
<1>3. hierarchy \in Hierarchies /\ ListingsInv /\ cls.ifcs \in Seq(DOMAIN hierarchy.ifcs)
      /\ cls.methods \in Seq(Methods)
  BY ProgramIs DEF InterfacesIInv
<1> HIDE DEF cls
<1>4. ASSUME Range(slots) = all, NEW k \in 1..Len(cls.ifcs), NEW x \in 1..Len(Declared(cls.ifcs[k]))
      PROVE  table.functions[(x - 1) + table.offsets[k]] = <<c, Declared(cls.ifcs[k])[x]>>
  <2> DEFINE p == (x - 1) + Start(m, cls.ifcs, k)
  <2>1. DOMAIN cls.ifcs = 1..Len(cls.ifcs)
    BY <1>3, LenProperties
  <2>2. table.offsets[k] = Start(m, cls.ifcs, k)
    BY <2>1
  <2>3. p \in Range(slots)
        /\ cls.methods[CHOOSE n \in taken : slots[n] = p].name = Declared(cls.ifcs[k])[x]
    <3>1. taken = Taken(m, cls.ifcs, cls.methods) /\ slots = Slots(m, cls.ifcs, cls.methods)
      BY DEF Taken, Slots
    <3>2. /\ m \in DOMAIN listings /\ k \in 1..Len(cls.ifcs) /\ x \in 1..Len(Declared(cls.ifcs[k]))
          /\ Range(slots) = 0..(Start(m, cls.ifcs, Len(cls.ifcs) + 1) - 1)
          /\ p = (x - 1) + Start(m, cls.ifcs, k)
      BY <1>1, <1>4
    <3>5. DOMAIN slots = taken
      OBVIOUS
    <3> HIDE DEF slots, taken, p, m
    <3>3. p \in Range(slots)
          /\ \A n \in taken : slots[n] = p => cls.methods[n].name = Declared(cls.ifcs[k])[x]
      BY <1>3, <3>1, <3>2, TableRight
    <3>4. \E n \in taken : slots[n] = p
      BY <3>3, <3>5 DEF Range
    <3> QED
      BY <3>3, <3>4
  <2> QED
    BY <1>4, <2>2, <2>3
<1>5. \A i : Declared(i)' = Declared(i)
  BY <1>1 DEF Declared
<1>6. VtablesInv'
  <2>1. ASSUME NEW d \in DOMAIN vtables, d # c
        PROVE  d \in DOMAIN hierarchy.classes /\ vtables'[d] = vtables[d] /\ TableInv(d)
    BY <1>2, <2>1 DEF InterfacesIInv, VtablesInv, With
  <2>2. ASSUME NEW d \in DOMAIN vtables, d # c
        PROVE  TableInv(d)'
    <3>1. TableInv(d) /\ vtables'[d] = vtables[d] /\ hierarchy' = hierarchy
      BY <1>1, <2>1, <2>2
    <3> QED
      BY ONLY <1>5, <3>1 DEF TableInv
  <2>3. CASE UNCHANGED vtables
    BY <1>1, <2>1, <2>2, <2>3 DEF VtablesInv
  <2>4. CASE Range(slots) = all /\ vtables' = With(vtables, c, table)
    <3> HIDE DEF table, all, slots
    <3>1. vtables'[c] = table /\ DOMAIN vtables' = DOMAIN vtables \cup {c}
      BY <2>4 DEF With
    <3>2. table.names = cls.ifcs
      BY DEF table
    <3>3. TableInv(c)'
      BY <1>1, <1>4, <1>5, <2>4, <3>1, <3>2 DEF TableInv, cls
    <3> QED
      BY <1>1, <2>1, <2>2, <3>1, <3>3 DEF VtablesInv
  <2> QED
    BY <1>2, <2>3, <2>4
<1>7. ListingsInv'
  BY <1>1, <1>3, <1>5 DEF ListingsInv
<1>8. HeldInv'
  <2>1. held = <<>>
    BY <1>1 DEF InterfacesIInv, HeldInv, Linked
  <2> QED
    BY <1>1, <2>1 DEF HeldInv
<1> QED
  BY <1>1, <1>6, <1>7, <1>8 DEF InterfacesIInv, DispatchRight

-----------------------------------------------------------------------------
(* Objects.                                                                 *)

LEMMA StillRight ==
    ASSUME InterfacesIInv, UNCHANGED <<hierarchy, listings, vtables>>
    PROVE  hierarchy' \in Hierarchies /\ ListingsInv' /\ VtablesInv' /\ (Linked' <=> Linked)
<1>1. \A i : Declared(i)' = Declared(i)
  BY DEF Declared
<1>2. ListingsInv'
  BY <1>1 DEF InterfacesIInv, ListingsInv
<1>3. VtablesInv'
  <2>1. ASSUME NEW c \in DOMAIN vtables PROVE TableInv(c)'
    <3>1. TableInv(c)
      BY DEF InterfacesIInv, VtablesInv
    <3> QED
      BY <1>1, <3>1 DEF TableInv
  <2> QED
    BY <2>1 DEF InterfacesIInv, VtablesInv
<1> QED
  BY <1>2, <1>3 DEF InterfacesIInv, Linked

LEMMA NewKeeps ==
    ASSUME InterfacesIInv, NEW c \in DOMAIN hierarchy.classes, New(c)
    PROVE  InterfacesIInv'
<1>1. /\ hierarchy' = hierarchy /\ called' = called /\ called = Nothing /\ Linked
      /\ held' = [class |-> c, type |-> ClassType(c)]
  BY DEF New, InterfacesIInv
<1>2. hierarchy' \in Hierarchies /\ ListingsInv' /\ VtablesInv' /\ Linked'
  BY <1>1, StillRight DEF New
<1>3. held'.class = c /\ held'.type = ClassType(c)
  BY <1>1
<1>4. HeldInv'
  BY <1>1, <1>2, <1>3 DEF HeldInv, ClassType
<1>5. DispatchRight' /\ (held' = <<>> => called' = Nothing)
  BY <1>1 DEF DispatchRight, Nothing
<1> QED
  BY <1>2, <1>4, <1>5 DEF InterfacesIInv

LEMMA PassKeeps ==
    ASSUME InterfacesIInv, ~Mixed, NEW t \in Types, Pass(t)
    PROVE  InterfacesIInv'
<1> DEFINE ifcs == hierarchy.classes[held.class].ifcs
<1>1. /\ hierarchy' = hierarchy /\ called' = Nothing
      /\ held # <<>> /\ Convertible(held.type, t) /\ held' = [held EXCEPT !.type = t]
      /\ held.type.type = "class" \/ ToSet(t.names) \subseteq ToSet(held.type.names)
  BY DEF Pass
<1>2. hierarchy' \in Hierarchies /\ ListingsInv' /\ VtablesInv' /\ (Linked' <=> Linked)
  BY StillRight DEF Pass
<1>3. /\ Linked /\ held = [class |-> held.class, type |-> held.type]
      /\ held.class \in DOMAIN hierarchy.classes
      /\ \/ held.type = ClassType(held.class)
         \/ /\ held.type = InterfaceType(held.type.names)
            /\ held.type.names \in Seq(ToSet(ifcs))
  BY <1>1 DEF InterfacesIInv, HeldInv
<1>4. held'.class = held.class /\ held'.type = t /\ held' = [class |-> held.class, type |-> t]
  BY <1>1, <1>3
<1>5. \/ \E c \in DOMAIN hierarchy.classes : t = ClassType(c)
      \/ \E S \in SUBSET DOMAIN hierarchy.ifcs : \E s \in SetToSeqs(S) : t = InterfaceType(s)
  BY DEF Types
<1>6. \/ t = ClassType(held.class)
      \/ t = InterfaceType(t.names) /\ t.names \in Seq(ToSet(ifcs))
  <2>1. CASE \E c \in DOMAIN hierarchy.classes : t = ClassType(c)
    BY <1>1, <1>3, <2>1 DEF Convertible, Alike, ClassType, InterfaceType
  <2>2. ASSUME NEW S \in SUBSET DOMAIN hierarchy.ifcs, NEW s \in SetToSeqs(S), t = InterfaceType(s)
        PROVE  t = InterfaceType(t.names) /\ t.names \in Seq(ToSet(ifcs))
    <3>1. t.names = s /\ t.type = "interface"
      BY <2>2 DEF InterfaceType
    <3>2. IsFiniteSet(S) /\ Cardinality(S) \in Nat
      <4>1. IsFiniteSet(DOMAIN hierarchy.ifcs)
        BY ProgramIs DEF InterfacesIInv
      <4> QED
        BY <4>1, FS_Subset, FS_CardinalityType
    <3>3. s \in [1..Cardinality(S) -> S]
      BY DEF SetToSeqs
    <3>4. ToSet(s) \subseteq ToSet(ifcs)
      <4>1. CASE held.type = ClassType(held.class)
        <5>1. Lists(held.class, t)
          BY <1>1, <3>1, <4>1 DEF Convertible, Alike, ClassType
        <5> QED
          BY <3>1, <5>1 DEF Lists
      <4>2. CASE held.type = InterfaceType(held.type.names) /\ held.type.names \in Seq(ToSet(ifcs))
        <5>1. held.type.type = "interface"
          BY <4>2 DEF InterfaceType
        <5>2. ToSet(s) \subseteq ToSet(held.type.names)
          BY <1>1, <3>1, <5>1
        <5>3. ToSet(held.type.names) \subseteq ToSet(ifcs)
          <6> DEFINE T == ToSet(ifcs)
                     u == held.type.names
          <6>1. u \in Seq(T)
            BY <4>2
          <6> HIDE DEF T, u
          <6>2. ToSet(u) \subseteq T
            BY <6>1, ElementOfSeq, LenProperties DEF ToSet
          <6> QED
            BY <6>2 DEF T, u
        <5> QED
          BY <5>2, <5>3
      <4> QED
        BY <1>3, <4>1, <4>2
    <3>5. \A n \in 1..Cardinality(S) : s[n] \in ToSet(ifcs)
      BY <3>3, <3>4 DEF ToSet
    <3>6. s \in [1..Cardinality(S) -> ToSet(ifcs)]
      BY <3>3, <3>5
    <3>7. s \in Seq(ToSet(ifcs))
      BY <3>2, <3>6, SeqDef
    <3> QED
      BY <2>2, <3>1, <3>7
  <2> QED
    BY <1>5, <2>1, <2>2
<1>7. HeldInv'
  BY <1>1, <1>2, <1>3, <1>4, <1>6 DEF HeldInv
<1> QED
  BY <1>1, <1>2, <1>4, <1>7 DEF InterfacesIInv, DispatchRight

\* A table has an interface that its class lists.
LEMMA LookupRight ==
    ASSUME InterfacesIInv, NEW c \in DOMAIN vtables,
           NEW i \in ToSet(hierarchy.classes[c].ifcs), NEW x \in 1..Len(Declared(i))
    PROVE  Lookup(vtables[c], i, x - 1) = <<c, Declared(i)[x]>>
<1> DEFINE ifcs == hierarchy.classes[c].ifcs
           table == vtables[c]
<1>1. c \in DOMAIN hierarchy.classes /\ TableInv(c) /\ ifcs \in Seq(DOMAIN hierarchy.ifcs)
  BY ProgramIs DEF InterfacesIInv, VtablesInv
<1>2. Len(ifcs) \in Nat /\ DOMAIN ifcs = 1..Len(ifcs)
  BY <1>1, LenProperties
<1>3. table.names = ifcs
  BY <1>1 DEF TableInv
<1> DEFINE I == {k \in 1..Len(ifcs) : ifcs[k] = i}
           k == IF I # {} THEN Min(I) ELSE 0
<1>4. SelectInSeq(table.names, LAMBDA n : n = i) = k
  BY <1>3 DEF SelectInSeq
<1>5. I # {}
  BY <1>2 DEF ToSet
<1>6. k # 0 /\ k \in I
  BY <1>2, <1>5, FirstIn
<1> HIDE DEF k
<1>7. Lookup(table, i, x - 1) = table.functions[(x - 1) + table.offsets[k]]
  BY <1>4, <1>6 DEF Lookup
<1>8. k \in 1..Len(ifcs) /\ ifcs[k] = i
  BY <1>6
<1> QED
  BY <1>1, <1>7, <1>8 DEF TableInv

LEMMA CallMethodKeeps ==
    ASSUME InterfacesIInv, NEW m \in Modules, NEW name, CallMethod(m, name)
    PROVE  InterfacesIInv'
<1> DEFINE t == held.type
           c == held.class
           ifcs == hierarchy.classes[c].ifcs
<1>1. /\ hierarchy' = hierarchy /\ held' = held /\ held # <<>>
  BY DEF CallMethod
<1>2. hierarchy' \in Hierarchies /\ ListingsInv' /\ VtablesInv' /\ (Linked' <=> Linked)
  BY StillRight DEF CallMethod
<1>3. /\ DOMAIN listings = Modules /\ DOMAIN vtables = DOMAIN hierarchy.classes
      /\ c \in DOMAIN hierarchy.classes
      /\ \/ t = ClassType(c)
         \/ t = InterfaceType(t.names) /\ t.names \in Seq(ToSet(ifcs))
  BY <1>1 DEF InterfacesIInv, HeldInv, Linked
<1>4. HeldInv'
  BY <1>1, <1>2 DEF InterfacesIInv, HeldInv
<1>5. DispatchRight'
  <2>1. CASE t = ClassType(c)
    <3>1. t.type = "class" /\ t.names[1] = c
      BY <2>1 DEF ClassType
    <3>2. called' = [method |-> name, function |-> <<c, name>>]
      BY <3>1 DEF CallMethod
    <3> QED
      BY <1>1, <3>2 DEF DispatchRight
  <2>2. CASE t = InterfaceType(t.names) /\ t.names \in Seq(ToSet(ifcs))
    <3> DEFINE k == Takes(m, t.names, name)
               i == t.names[k]
               x == Offset(m, i, name) + 1
    <3>1. t.type # "class"
      BY <2>2 DEF InterfaceType
    <3>2. k # 0 /\ called' = [method |-> name,
                              function |-> Lookup(vtables[c], i, Offset(m, i, name))]
      BY <3>1 DEF CallMethod, Takes
    <3>3. ifcs \in Seq(DOMAIN hierarchy.ifcs)
      BY <1>3, ProgramIs DEF InterfacesIInv
    <3>4. ToSet(ifcs) \subseteq DOMAIN hierarchy.ifcs
      BY <3>3, ElementOfSeq, LenProperties DEF ToSet
    <3>5. t.names \in Seq(DOMAIN hierarchy.ifcs) /\ Len(t.names) \in Nat
      <4> DEFINE S == ToSet(ifcs)
                 D == DOMAIN hierarchy.ifcs
                 s == t.names
      <4>1. s \in Seq(S) /\ S \subseteq D
        BY <2>2, <3>4
      <4> HIDE DEF S, D, s
      <4>2. s \in Seq(D) /\ Len(s) \in Nat
        BY <4>1, LenProperties, ElementOfSeq, SeqDef
      <4> QED
        BY <4>2 DEF s, D
    <3>6. k \in 0..Len(t.names) /\ Offset(m, i, name) >= 0
      BY <1>3, <3>2, <3>5, FirstIfc DEF InterfacesIInv
    <3>7. k \in 1..Len(t.names)
      BY <3>2, <3>5, <3>6
    <3>8. i \in ToSet(ifcs) /\ i \in DOMAIN hierarchy.ifcs
      BY <2>2, <3>4, <3>7, ElementOfSeq
    <3> HIDE DEF i
    <3>9. Offset(m, i, name) \in Int /\ x \in 1..Len(Declared(i)) /\ Declared(i)[x] = name
      BY <1>3, <3>6, <3>8, OffsetIs DEF InterfacesIInv
    <3>10. Offset(m, i, name) = x - 1
      BY <3>9
    <3> HIDE DEF x
    <3>11. Lookup(vtables[c], i, x - 1) = <<c, name>>
      BY <1>3, <3>8, <3>9, LookupRight
    <3>12. called'.function = <<c, name>> /\ called'.method = name
      BY <3>2, <3>10, <3>11
    <3> QED
      BY <1>1, <3>12 DEF DispatchRight
  <2> QED
    BY <1>3, <2>1, <2>2
<1> QED
  BY <1>1, <1>2, <1>4, <1>5 DEF InterfacesIInv

-----------------------------------------------------------------------------
(* The invariant.                                                           *)

LEMMA InitIsRight == IfcInit => InterfacesIInv
<1> SUFFICES ASSUME IfcInit PROVE InterfacesIInv
  OBVIOUS
<1>1. listings = <<>> /\ vtables = <<>> /\ held = <<>> /\ called = Nothing /\ hierarchy \in Hierarchies
  BY DEF IfcInit
<1>2. DOMAIN <<>> = {}
  OBVIOUS
<1> QED
  BY <1>1, <1>2 DEF InterfacesIInv, ListingsInv, VtablesInv, HeldInv, DispatchRight

LEMMA NextKeeps ==
    ASSUME InterfacesIInv, ~Mixed, [IfcNext]_ifcVars
    PROVE  InterfacesIInv'
<1>1. ASSUME NEW m \in Modules, Define(m) PROVE InterfacesIInv'
  BY <1>1, DefineKeeps
<1>2. ASSUME NEW c \in DOMAIN hierarchy.classes, MakeClass(c) PROVE InterfacesIInv'
  BY <1>2, MakeClassKeeps
<1>3. ASSUME NEW c \in DOMAIN hierarchy.classes, New(c) PROVE InterfacesIInv'
  BY <1>3, NewKeeps
<1>4. ASSUME NEW t \in Types, Pass(t) PROVE InterfacesIInv'
  BY <1>4, PassKeeps
<1>5. ASSUME NEW m \in Modules, NEW name \in MethodNames, CallMethod(m, name) PROVE InterfacesIInv'
  BY <1>5, CallMethodKeeps
<1>6. CASE UNCHANGED ifcVars
  <2>1. /\ UNCHANGED <<hierarchy, listings, vtables>> /\ held' = held /\ called' = called
    BY <1>6 DEF ifcVars
  <2>2. hierarchy' \in Hierarchies /\ ListingsInv' /\ VtablesInv' /\ (Linked' <=> Linked)
    BY <2>1, StillRight
  <2> QED
    BY <2>1, <2>2 DEF InterfacesIInv, HeldInv, DispatchRight
<1> QED
  BY <1>1, <1>2, <1>3, <1>4, <1>5, <1>6 DEF IfcNext

\* Whatever the interfaces and classes of a program are, wherever malloc puts
\* the nodes of their methods in each module and whatever types an object is
\* passed as, a call reaches the method of that name of the object's own class
\* (ac_make_class_definitions, ty_interface_offset and __egl_lookup_method
\* agree), if an interface value is only passed on as one of its own interfaces.
THEOREM DispatchRightHolds ==
    ASSUME ~Mixed
    PROVE  IfcSpec => []DispatchRight
<1>1. IfcInit => InterfacesIInv
  BY InitIsRight
<1>2. InterfacesIInv /\ [IfcNext]_ifcVars => InterfacesIInv'
  BY NextKeeps
<1>3. InterfacesIInv => DispatchRight
  BY DEF InterfacesIInv
<1> QED
  BY <1>1, <1>2, <1>3, PTL DEF IfcSpec
=============================================================================
