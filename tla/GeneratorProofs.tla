-------------------------- MODULE GeneratorProofs --------------------------
(***************************************************************************)
(* Theorem about Generator: whatever the body, and at whatever yield it    *)
(* stands, the counts are the numbers of references.                       *)
(*                                                                         *)
(* A field of the context may keep a pointer that was released when its    *)
(* variable left its block.  The argument gives each instruction two sets: *)
(* L, the variables in scope in front of it, and D, the ones that may hold *)
(* such a pointer there.  No yield has any of them, which is what the      *)
(* order of declarations and yields in a loop is about.                    *)
(***************************************************************************)
EXTENDS Generator, FiniteSetTheorems, SequenceTheorems, TLAPS

\* The local variables are finitely many and none of them is the parameter,
\* nil is no object, and the body uses none of the idioms.
GeneratorAssumption ==
    /\ IsFiniteSet(Vars) /\ Param \notin Vars
    /\ Nil \notin Objects /\ Idioms = {}

-----------------------------------------------------------------------------
(* The code.                                                                *)

Instrs == [op : {"nil"}, var : Vars]
    \cup [op : {"store"}, var : Fields, from : Fields \cup {"new"}]
    \cup [op : {"yield"}, var : Fields, live : SUBSET Fields]
    \cup [op : {"test", "jump"}, to : Nat]
    \cup [op : {"release"}, vars : SUBSET Fields]
    \cup [op : {"end"}]

\* Instruction i at p, and what holds in front of it and of its successors.
FlowAt(i, p, n, L, D) ==
    /\ i.op = "nil" => /\ i.var \notin L[p] /\ L[p + 1] = L[p] \cup {i.var}
                       /\ D[p] \ {i.var} \subseteq D[p + 1]
    /\ i.op = "store" => /\ i.var \in L[p] /\ i.from \in L[p] \cup {"new"}
                         /\ L[p + 1] = L[p] /\ D[p] \subseteq D[p + 1]
    /\ i.op = "yield" => i.live = L[p] /\ L[p + 1] = L[p] /\ D[p] = {}
    /\ i.op = "test" => /\ L[p + 1] = L[p] /\ D[p] \subseteq D[p + 1]
                        /\ i.to # 0 => /\ i.to \in (p + 1)..n
                                       /\ L[i.to] = L[p] /\ D[p] \subseteq D[i.to]
    /\ i.op = "release" => /\ i.vars \subseteq L[p] /\ L[p + 1] = L[p] \ i.vars
                           /\ D[p] \cup i.vars \subseteq D[p + 1]
    /\ i.op = "jump" => i.to \in 1..n /\ L[i.to] = L[p] /\ D[p] \subseteq D[i.to]
    /\ i.op = "end" => L[p] = {}

Flows(c, L, D) ==
    /\ L \in [1..(Len(c) + 1) -> SUBSET Fields] /\ D \in [1..(Len(c) + 1) -> SUBSET Fields]
    /\ L[1] = {Param}
    /\ \A p \in 1..Len(c) : FlowAt(c[p], p, Len(c) + 1, L, D)

-----------------------------------------------------------------------------
(* The compiler.                                                            *)

ScopeRecs == [vars : SUBSET Fields, test : Nat, loop : BOOLEAN]

\* The variables of the k outermost scopes.
Upto(sc, k) == UNION {sc[j].vars : j \in 1..k}

ScopesOK(c, sc, L) ==
    /\ sc \in Seq(ScopeRecs) /\ Len(sc) > 0
    /\ \A j, k \in 1..Len(sc) : j # k => sc[j].vars \cap sc[k].vars = {}
    /\ \A j, k \in 2..Len(sc) : j < k => sc[j].test < sc[k].test
    /\ \A k \in 2..Len(sc) : /\ sc[k].test \in 1..Len(c) /\ c[sc[k].test].op = "test"
                             /\ c[sc[k].test].to = 0
                             /\ L[sc[k].test] = Upto(sc, k - 1)
    /\ \A p \in 1..Len(c) : c[p].op = "test" /\ c[p].to = 0 =>
                                \E k \in 2..Len(sc) : sc[k].test = p
    /\ \A k \in 2..Len(sc) : \A p \in 1..Len(c) :
          c[p].op = "jump" /\ p > sc[k].test => c[p].to > sc[k].test

\* The variables that code c declares behind p.
After(c, p) == {v \in Vars : \E n \in (p + 1)..Len(c) : c[n].op = "nil" /\ c[n].var = v}

\* What was declared when a yield was compiled was in scope there.
YieldsOK(c, declared) ==
    \A y \in 1..Len(c) : c[y].op = "yield" => declared \subseteq c[y].live \cup After(c, y)

BodyOK(c, sc, lf, L, D) ==
    /\ c \in Seq(Instrs) /\ Flows(c, L, D) /\ ScopesOK(c, sc, L)
    /\ lf \in SUBSET Fields /\ lf \cap Upto(sc, Len(sc)) = {}
    /\ L[Len(c) + 1] = Upto(sc, Len(sc)) /\ D[Len(c) + 1] = lf
    /\ \A p \in 1..(Len(c) + 1) : D[p] \subseteq lf
    /\ YieldsOK(c, Upto(sc, Len(sc)) \cup lf)

\* The body is complete: every instruction has its successor.
Complete(c, L, D) ==
    /\ c \in Seq(Instrs) /\ Flows(c, L, D) /\ Len(c) > 0 /\ c[Len(c)].op = "end"
    /\ \A p \in 1..Len(c) : c[p].op = "test" => c[p].to # 0
    /\ \A p \in 1..Len(c) : c[p].op \in {"test", "jump"} => c[p].to <= Len(c)

-----------------------------------------------------------------------------
(* The generator.                                                           *)

Values == Objects \cup {Nil}
Contexts == [resume : Nat, fields : [Fields -> Values]]

Holders(fields, S, o) == {f \in S : fields[f] = o}
Refs(fields, S, o) == Cardinality(Holders(fields, S, o))
One(v, o) == IF v = o THEN 1 ELSE 0

TypeInv ==
    /\ counted \in BOOLEAN /\ counts \in [Objects -> Int] /\ context \in Contexts
    /\ own \in Values /\ recv \in Values /\ pc \in Nat
    /\ ~counted => recv = Nil

\* The fields outside S are nil.
Clear(fields, S) == \A f \in Fields \ S : fields[f] = Nil

\* Where the body stands between two calls.
Stands ==
    \/ context = NoContext
    \/ context.resume = 1
    \/ /\ context.resume - 1 \in 1..Len(code)
       /\ code[context.resume - 1].op = "yield"

StandsAt == IF context.resume = 0 THEN {}
            ELSE IF context.resume = 1 THEN {Param} ELSE code[context.resume - 1].live

Idle ==
    /\ pc = 0 /\ Clear(context.fields, StandsAt)
    /\ \A o \in Objects : counts[o] = Refs(context.fields, Fields, o) + One(own, o) + One(recv, o)

Active(L, D) ==
    /\ pc \in 1..Len(code) /\ context.resume # 0
    /\ Clear(context.fields, L[pc] \cup D[pc])
    /\ \A o \in Objects : counts[o] = Refs(context.fields, L[pc], o) + One(own, o)
                                       + IF counted THEN 0 ELSE One(recv, o)

IInv ==
    /\ TypeInv
    /\ \/ /\ Open /\ \E L, D : BodyOK(code, scopes, left, L, D)
          /\ context = NoContext /\ Idle
       \/ /\ ~Open /\ Stands
          /\ \E L, D : Complete(code, L, D) /\ (Idle \/ Active(L, D))

-----------------------------------------------------------------------------
(* Counting references.                                                     *)

LEMMA FieldsFinite ==
    ASSUME GeneratorAssumption
    PROVE  IsFiniteSet(Fields) /\ Vars \subseteq Fields /\ Param \in Fields /\ Nil \notin Objects
  BY FS_AddElement DEF GeneratorAssumption, Fields

LEMMA RefsFinite ==
    ASSUME GeneratorAssumption, NEW f, NEW S \in SUBSET Fields, NEW o
    PROVE  IsFiniteSet(Holders(f, S, o)) /\ Refs(f, S, o) \in Nat
<1>1. Holders(f, S, o) \subseteq Fields
  BY DEF Holders
<1>2. IsFiniteSet(Holders(f, S, o))
  BY ONLY <1>1, FieldsFinite, FS_Subset, GeneratorAssumption
<1> QED
  BY ONLY <1>2, FS_CardinalityType DEF Refs

LEMMA RefsSplit ==
    ASSUME GeneratorAssumption, NEW f, NEW S \in SUBSET Fields, NEW T \in SUBSET S, NEW o
    PROVE  Refs(f, S, o) = Refs(f, S \ T, o) + Refs(f, T, o)
<1> DEFINE a == Holders(f, S \ T, o)
           b == Holders(f, T, o)
<1>1. IsFiniteSet(a) /\ Cardinality(a) \in Nat /\ IsFiniteSet(b) /\ Cardinality(b) \in Nat
  <2>1. IsFiniteSet(Holders(f, S, o))
    BY GeneratorAssumption, RefsFinite
  <2>2. a \subseteq Holders(f, S, o) /\ b \subseteq Holders(f, S, o)
    BY DEF Holders
  <2>3. IsFiniteSet(a) /\ IsFiniteSet(b)
    BY ONLY <2>1, <2>2, FS_Subset
  <2> HIDE DEF a, b
  <2> QED
    BY ONLY <2>3, FS_CardinalityType
<1>2. a \cap b = {} /\ Holders(f, S, o) = a \cup b
  BY DEF Holders
<1> HIDE DEF a, b
<1>3. Cardinality(a \cup b) = Cardinality(a) + Cardinality(b) - Cardinality(a \cap b)
  BY ONLY <1>1, FS_Union
<1>4. Cardinality({}) = 0
  BY FS_EmptySet
<1>5. Cardinality(a \cup b) = Cardinality(a) + Cardinality(b)
  <2>1. Cardinality(a \cap b) = 0
    BY ONLY <1>2, <1>4
  <2> QED
    BY ONLY <1>1, <1>3, <2>1
<1> QED
  BY ONLY <1>2, <1>5 DEF Refs, a, b

\* Nil fields do not count.
LEMMA RefsClear ==
    ASSUME NEW f, NEW S \in SUBSET Fields, NEW T \in SUBSET S, NEW o \in Objects,
           GeneratorAssumption, \A x \in S \ T : f[x] = Nil
    PROVE  Refs(f, S, o) = Refs(f, T, o)
<1>1. o # Nil
  BY FieldsFinite
<1>2. Holders(f, S, o) = Holders(f, T, o)
  BY <1>1 DEF Holders
<1> QED
  BY ONLY <1>2 DEF Refs

LEMMA RefsNone ==
    ASSUME NEW f, NEW o
    PROVE  Refs(f, {}, o) = 0
<1>1. Holders(f, {}, o) = {}
  BY DEF Holders
<1> QED
  BY ONLY <1>1, FS_EmptySet DEF Refs

LEMMA RefsOne ==
    ASSUME NEW f, NEW x, NEW o
    PROVE  Refs(f, {x}, o) = One(f[x], o)
<1>1. Holders(f, {x}, o) = IF f[x] = o THEN {x} ELSE {}
  BY DEF Holders
<1> QED
  BY ONLY <1>1, FS_EmptySet, FS_Singleton DEF Refs, One

\* Storing w to the field x.
LEMMA RefsStore ==
    ASSUME GeneratorAssumption, NEW f \in [Fields -> Values], NEW S \in SUBSET Fields,
           NEW x \in S, NEW w \in Values, NEW o
    PROVE  Refs([f EXCEPT ![x] = w], S, o) = Refs(f, S, o) + One(w, o) - One(f[x], o)
<1> DEFINE g == [f EXCEPT ![x] = w]
<1>1. {x} \in SUBSET S /\ S \ {x} \in SUBSET Fields /\ {x} \in SUBSET Fields
  OBVIOUS
<1>2. g[x] = w /\ \A y \in S \ {x} : g[y] = f[y]
  OBVIOUS
<1> HIDE DEF g
<1>3. Refs(g, S, o) = Refs(g, S \ {x}, o) + Refs(g, {x}, o)
  BY ONLY <1>1, GeneratorAssumption, RefsSplit, S \in SUBSET Fields
<1>4. Refs(f, S, o) = Refs(f, S \ {x}, o) + Refs(f, {x}, o)
  BY ONLY <1>1, GeneratorAssumption, RefsSplit, S \in SUBSET Fields
<1>5. Refs(g, S \ {x}, o) = Refs(f, S \ {x}, o)
  <2>1. Holders(g, S \ {x}, o) = Holders(f, S \ {x}, o)
    BY <1>2 DEF Holders
  <2> QED
    BY ONLY <2>1 DEF Refs
<1>6. Refs(g, {x}, o) = One(w, o) /\ Refs(f, {x}, o) = One(f[x], o)
  BY ONLY <1>2, RefsOne
<1>7. Refs(f, S \ {x}, o) \in Nat /\ One(w, o) \in Nat /\ One(f[x], o) \in Nat
  BY ONLY <1>1, GeneratorAssumption, RefsFinite DEF One
<1> QED
  BY ONLY <1>3, <1>4, <1>5, <1>6, <1>7 DEF g

\* The generated increments and decrements.
LEMMA IncrIs ==
    ASSUME GeneratorAssumption, NEW c \in [Objects -> Int], NEW v \in Values
    PROVE  /\ Incr(c, v) \in [Objects -> Int] /\ Decr(c, v) \in [Objects -> Int]
           /\ \A o \in Objects : Incr(c, v)[o] = c[o] + One(v, o)
           /\ \A o \in Objects : Decr(c, v)[o] = c[o] - One(v, o)
<1>1. CASE v = Nil
  BY <1>1 DEF Incr, Decr, One, GeneratorAssumption
<1>2. CASE v # Nil
  <2>1. v \in Objects
    BY <1>2 DEF Values
  <2> QED
    BY <1>2, <2>1 DEF Incr, Decr, One
<1> QED
  BY ONLY <1>1, <1>2

LEMMA ReleasedIs ==
    ASSUME GeneratorAssumption, TypeInv, NEW S \in SUBSET Fields
    PROVE  /\ Released(S) \in [Objects -> Int]
           /\ \A o \in Objects : Released(S)[o] = counts[o] - Refs(context.fields, S, o)
<1>1. \A o \in Objects : Refs(context.fields, S, o) \in Nat
  BY GeneratorAssumption, RefsFinite
<1>2. Released(S) = [o \in Objects |-> counts[o] - Refs(context.fields, S, o)]
  BY DEF Released, Refs, Holders
<1>3. counts \in [Objects -> Int]
  BY DEF TypeInv
<1> QED
  BY ONLY <1>1, <1>2, <1>3

-----------------------------------------------------------------------------
(* One instruction more.                                                    *)

\* L with one value more, for the instruction behind the n there are.
More(L, n, l) == [p \in 1..(n + 2) |-> IF p = n + 2 THEN l ELSE L[p]]

LEMMA MoreIs ==
    ASSUME NEW n \in Nat, NEW L \in [1..(n + 1) -> SUBSET Fields], NEW l \in SUBSET Fields
    PROVE  /\ More(L, n, l) \in [1..(n + 2) -> SUBSET Fields] /\ More(L, n, l)[n + 2] = l
           /\ \A p \in 1..(n + 1) : More(L, n, l)[p] = L[p]
<1>1. n + 2 \in 1..(n + 2) /\ \A p \in 1..(n + 1) : p \in 1..(n + 2) /\ p # n + 2
  OBVIOUS
<1>2. \A p \in 1..(n + 2) : p # n + 2 => p \in 1..(n + 1)
  OBVIOUS
<1> QED
  BY <1>1, <1>2 DEF More

Agree(L, D, M, E, h) == \A q \in 1..h : M[q] = L[q] /\ E[q] = D[q]

\* An instruction keeps what holds of it when code follows.
LEMMA FlowKept ==
    ASSUME NEW i, NEW h \in Nat, NEW m \in Nat, NEW p \in Nat, NEW L, NEW D, NEW M, NEW E,
           h <= m, p > 0, p < h, FlowAt(i, p, h, L, D), Agree(L, D, M, E, h)
    PROVE  FlowAt(i, p, m, M, E)
<1>1. p \in 1..h /\ p + 1 \in 1..h
  OBVIOUS
<1>2. /\ M[p] = L[p] /\ E[p] = D[p] /\ M[p + 1] = L[p + 1] /\ E[p + 1] = D[p + 1]
  BY <1>1 DEF Agree
<1>3. ASSUME NEW t \in 1..h PROVE M[t] = L[t] /\ E[t] = D[t] /\ t \in 1..m
  BY DEF Agree
<1>4. ASSUME NEW t \in (p + 1)..h
      PROVE  M[t] = L[t] /\ E[t] = D[t] /\ t \in (p + 1)..m
  <2>1. t \in 1..h /\ t \in (p + 1)..m
    OBVIOUS
  <2> QED
    BY <1>3, <2>1
<1>5. FlowAt(i, p, h, L, D)
  OBVIOUS
<1> QED
  BY ONLY <1>2, <1>3, <1>4, <1>5 DEF FlowAt

LEMMA CodeAppend ==
    ASSUME NEW c \in Seq(Instrs), NEW i \in Instrs
    PROVE  /\ Append(c, i) \in Seq(Instrs) /\ Len(Append(c, i)) = Len(c) + 1
           /\ Append(c, i)[Len(c) + 1] = i /\ Len(c) \in Nat
           /\ \A p \in 1..Len(c) : Append(c, i)[p] = c[p]
  OBVIOUS

LEMMA FlowsAppend ==
    ASSUME NEW c \in Seq(Instrs), NEW i \in Instrs, NEW L, NEW D, Flows(c, L, D),
           NEW l \in SUBSET Fields, NEW d \in SUBSET Fields,
           FlowAt(i, Len(c) + 1, Len(c) + 2, More(L, Len(c), l), More(D, Len(c), d))
    PROVE  Flows(Append(c, i), More(L, Len(c), l), More(D, Len(c), d))
<1> DEFINE n == Len(c)
           M == More(L, n, l)
           E == More(D, n, d)
           k == Append(c, i)
<1>1. n \in Nat /\ Len(k) = n + 1 /\ k[n + 1] = i /\ \A p \in 1..n : k[p] = c[p]
  BY CodeAppend
<1>2. /\ L \in [1..(n + 1) -> SUBSET Fields] /\ D \in [1..(n + 1) -> SUBSET Fields]
      /\ L[1] = {Param} /\ \A p \in 1..n : FlowAt(c[p], p, n + 1, L, D)
  BY DEF Flows
<1>3. FlowAt(i, n + 1, n + 2, M, E)
  OBVIOUS
<1> HIDE DEF n, k
<1>4. /\ M \in [1..(n + 2) -> SUBSET Fields] /\ E \in [1..(n + 2) -> SUBSET Fields]
      /\ \A p \in 1..(n + 1) : M[p] = L[p] /\ E[p] = D[p]
  <2>1. M \in [1..(n + 2) -> SUBSET Fields] /\ \A p \in 1..(n + 1) : M[p] = L[p]
    <3>1. n \in Nat /\ L \in [1..(n + 1) -> SUBSET Fields] /\ l \in SUBSET Fields
      BY ONLY <1>1, <1>2, l \in SUBSET Fields
    <3> QED
      BY ONLY <3>1, MoreIs
  <2>2. E \in [1..(n + 2) -> SUBSET Fields] /\ \A p \in 1..(n + 1) : E[p] = D[p]
    <3>1. n \in Nat /\ D \in [1..(n + 1) -> SUBSET Fields] /\ d \in SUBSET Fields
      BY ONLY <1>1, <1>2, d \in SUBSET Fields
    <3> QED
      BY ONLY <3>1, MoreIs
  <2> QED
    BY ONLY <2>1, <2>2
<1> HIDE DEF M, E
<1>5. M[1] = {Param}
  BY <1>1, <1>2, <1>4
<1>6. ASSUME NEW p \in 1..(n + 1) PROVE FlowAt(k[p], p, n + 2, M, E)
  <2>1. CASE p = n + 1
    BY <1>1, <1>3, <2>1
  <2>2. CASE p # n + 1
    <3> DEFINE h == n + 1
               m == n + 2
    <3>1. /\ p \in 1..n /\ k[p] = c[p]
          /\ h \in Nat /\ m \in Nat /\ p \in Nat /\ h <= m /\ p > 0 /\ p < h
      BY <1>1, <2>2
    <3>2. FlowAt(c[p], p, n + 1, L, D)
      BY <1>2, <3>1
    <3>3. Agree(L, D, M, E, h)
      BY ONLY <1>4 DEF Agree
    <3>4. FlowAt(c[p], p, h, L, D)
      BY ONLY <3>2
    <3> HIDE DEF h, m
    <3>5. FlowAt(c[p], p, m, M, E)
      BY ONLY <3>1, <3>3, <3>4, FlowKept
    <3> QED
      BY ONLY <3>1, <3>5 DEF m
  <2> QED
    BY <2>1, <2>2
<1>7. Len(k) + 1 = n + 2
  BY <1>1
<1>8. Flows(k, M, E)
  BY ONLY <1>1, <1>4, <1>5, <1>6, <1>7 DEF Flows
<1> QED
  BY ONLY <1>8 DEF k, M, E, n

LEMMA UptoType ==
    ASSUME NEW sc \in Seq(ScopeRecs), NEW k \in 0..Len(sc)
    PROVE  Upto(sc, k) \in SUBSET Fields
<1>1. \A j \in 1..k : sc[j] \in ScopeRecs
  OBVIOUS
<1>2. \A j \in 1..k : sc[j].vars \in SUBSET Fields
  BY <1>1 DEF ScopeRecs
<1> QED
  BY ONLY <1>2 DEF Upto

\* Scopes that differ in the variables of the innermost one.
SameBelow(sc, tc) ==
    /\ tc \in Seq(ScopeRecs) /\ Len(tc) = Len(sc)
    /\ \A k \in 1..Len(sc) : tc[k].test = sc[k].test
    /\ \A k \in 1..(Len(sc) - 1) : tc[k].vars = sc[k].vars
    /\ \A j, k \in 1..Len(tc) : j # k => tc[j].vars \cap tc[k].vars = {}

LEMMA ScopesAppend ==
    ASSUME NEW c \in Seq(Instrs), NEW i \in Instrs, NEW sc, NEW tc, NEW L, NEW M,
           ScopesOK(c, sc, L), SameBelow(sc, tc), i.op \notin {"test", "jump"},
           \A p \in 1..Len(c) : M[p] = L[p]
    PROVE  ScopesOK(Append(c, i), tc, M)
<1> DEFINE n == Len(c)
           k == Append(c, i)
           N == Len(sc)
<1>1. n \in Nat /\ Len(k) = n + 1 /\ k[n + 1] = i /\ \A p \in 1..n : k[p] = c[p]
  BY CodeAppend
<1>2. /\ tc \in Seq(ScopeRecs) /\ Len(tc) = N /\ N \in Nat /\ N > 0
      /\ \A h \in 1..N : tc[h].test = sc[h].test
      /\ \A h \in 1..(N - 1) : tc[h].vars = sc[h].vars
      /\ \A j, h \in 1..N : j # h => tc[j].vars \cap tc[h].vars = {}
  BY DEF SameBelow, ScopesOK
<1>3. /\ \A j, h \in 2..N : j < h => sc[j].test < sc[h].test
      /\ \A h \in 2..N : /\ sc[h].test \in 1..n /\ c[sc[h].test].op = "test"
                         /\ c[sc[h].test].to = 0 /\ L[sc[h].test] = Upto(sc, h - 1)
      /\ \A p \in 1..n : c[p].op = "test" /\ c[p].to = 0 => \E h \in 2..N : sc[h].test = p
      /\ \A h \in 2..N : \A p \in 1..n :
            c[p].op = "jump" /\ p > sc[h].test => c[p].to > sc[h].test
  BY DEF ScopesOK
<1>4. \A p \in 1..n : M[p] = L[p]
  OBVIOUS
<1>5. i.op \notin {"test", "jump"}
  OBVIOUS
<1> HIDE DEF n, k, N
<1>6. \A h \in 2..N : h \in 1..N
  BY <1>2
<1>7. ASSUME NEW h \in 2..N
      PROVE  /\ tc[h].test \in 1..(n + 1) /\ k[tc[h].test].op = "test"
             /\ k[tc[h].test].to = 0 /\ M[tc[h].test] = Upto(tc, h - 1)
  <2>1. tc[h].test = sc[h].test /\ sc[h].test \in 1..n
    BY <1>2, <1>3, <1>6
  <2>2. \A j \in 1..(h - 1) : j \in 1..(N - 1)
    BY <1>2
  <2>3. Upto(tc, h - 1) = Upto(sc, h - 1)
    BY ONLY <1>2, <2>2 DEF Upto
  <2>4. sc[h].test \in 1..(n + 1)
    BY <1>1, <2>1
  <2> QED
    BY ONLY <1>1, <1>3, <1>4, <2>1, <2>3, <2>4
<1>8. ASSUME NEW p \in 1..(n + 1), k[p].op = "test", k[p].to = 0
      PROVE  \E h \in 2..N : tc[h].test = p
  <2>1. p # n + 1
    BY <1>1, <1>5, <1>8
  <2>2. p \in 1..n /\ k[p] = c[p]
    BY <1>1, <2>1
  <2>3. PICK h \in 2..N : sc[h].test = p
    BY ONLY <1>3, <1>8, <2>2
  <2> QED
    BY ONLY <1>2, <1>6, <2>3
<1>9. ASSUME NEW h \in 2..N, NEW p \in 1..(n + 1), k[p].op = "jump", p > tc[h].test
      PROVE  k[p].to > tc[h].test
  <2>1. p # n + 1
    BY <1>1, <1>5, <1>9
  <2>2. p \in 1..n /\ k[p] = c[p]
    BY <1>1, <2>1
  <2>3. tc[h].test = sc[h].test
    BY <1>2, <1>6
  <2> QED
    BY ONLY <1>3, <1>9, <2>2, <2>3, h \in 2..N
<1>10. \A j, h \in 2..N : j < h => tc[j].test < tc[h].test
  BY ONLY <1>2, <1>3, <1>6
<1>11. ScopesOK(k, tc, M)
  BY ONLY <1>1, <1>2, <1>7, <1>8, <1>9, <1>10 DEF ScopesOK
<1> QED
  BY ONLY <1>11 DEF k

\* What instruction i declares.
Declares(i) == {v \in Vars : i.op = "nil" /\ i.var = v}

LEMMA YieldsAppend ==
    ASSUME NEW c \in Seq(Instrs), NEW i \in Instrs, NEW a, NEW b, YieldsOK(c, a),
           b \subseteq a \cup Declares(i), i.op = "yield" => b \subseteq i.live
    PROVE  YieldsOK(Append(c, i), b)
<1> DEFINE n == Len(c)
           k == Append(c, i)
<1>1. n \in Nat /\ Len(k) = n + 1 /\ k[n + 1] = i /\ \A p \in 1..n : k[p] = c[p]
  BY CodeAppend
<1>2. \A y \in 1..n : c[y].op = "yield" => a \subseteq c[y].live \cup After(c, y)
  BY DEF YieldsOK
<1> HIDE DEF n, k
<1>3. ASSUME NEW y \in 1..(n + 1), k[y].op = "yield"
      PROVE  b \subseteq k[y].live \cup After(k, y)
  <2>1. CASE y = n + 1
    BY <1>1, <1>3, <2>1
  <2>2. CASE y # n + 1
    <3>1. y \in 1..n /\ k[y] = c[y]
      BY <1>1, <2>2
    <3>2. a \subseteq c[y].live \cup After(c, y)
      BY <1>2, <1>3, <3>1
    <3>3. ASSUME NEW v \in After(c, y) PROVE v \in After(k, y)
      <4>1. v \in Vars /\ \E h \in (y + 1)..n : c[h].op = "nil" /\ c[h].var = v
        BY DEF After, n
      <4>2. PICK h \in (y + 1)..n : c[h].op = "nil" /\ c[h].var = v
        BY <4>1
      <4>3. h \in (y + 1)..(n + 1) /\ k[h] = c[h]
        BY <1>1, <3>1
      <4> QED
        BY ONLY <1>1, <4>1, <4>2, <4>3 DEF After
    <3>4. ASSUME NEW v \in Declares(i) PROVE v \in After(k, y)
      <4>1. v \in Vars /\ i.op = "nil" /\ i.var = v
        BY DEF Declares
      <4>2. n + 1 \in (y + 1)..(n + 1)
        BY <1>1, <3>1
      <4> QED
        BY ONLY <1>1, <4>1, <4>2 DEF After
    <3> QED
      BY <3>1, <3>2, <3>3, <3>4
  <2> QED
    BY <2>1, <2>2
<1>4. YieldsOK(k, b)
  BY ONLY <1>1, <1>3 DEF YieldsOK
<1> QED
  BY ONLY <1>4 DEF k

\* The body with one instruction more, in the scopes tc.
Next1(c, i, tc, lf, L, D) ==
    LET l == Upto(tc, Len(tc))
    IN  /\ c \in Seq(Instrs) /\ i \in Instrs /\ l \in SUBSET Fields
        /\ FlowAt(i, Len(c) + 1, Len(c) + 2, More(L, Len(c), l), More(D, Len(c), lf))
        /\ ScopesOK(Append(c, i), tc, More(L, Len(c), l))
        /\ lf \cap l = {} /\ YieldsOK(Append(c, i), l \cup lf)

LEMMA BodyAppend ==
    ASSUME NEW c, NEW i, NEW sc, NEW tc, NEW lf, NEW L, NEW D,
           BodyOK(c, sc, lf, L, D), Next1(c, i, tc, lf, L, D)
    PROVE  \E M, E : BodyOK(Append(c, i), tc, lf, M, E)
<1> DEFINE n == Len(c)
           l == Upto(tc, Len(tc))
           M == More(L, n, l)
           E == More(D, n, lf)
           k == Append(c, i)
<1>1. /\ c \in Seq(Instrs) /\ i \in Instrs /\ l \in SUBSET Fields
      /\ FlowAt(i, n + 1, n + 2, M, E) /\ ScopesOK(k, tc, M)
      /\ lf \cap l = {} /\ YieldsOK(k, l \cup lf)
  BY DEF Next1
<1>2. /\ Flows(c, L, D) /\ lf \in SUBSET Fields /\ \A p \in 1..(n + 1) : D[p] \subseteq lf
  BY DEF BodyOK
<1>3. lf \in SUBSET Fields
  BY <1>2
<1> HIDE DEF l
<1>4. Flows(k, M, E)
  BY ONLY <1>1, <1>2, <1>3, FlowsAppend
<1>5. n \in Nat /\ Len(k) + 1 = n + 2 /\ k \in Seq(Instrs)
  BY ONLY <1>1, CodeAppend
<1>6. L \in [1..(n + 1) -> SUBSET Fields] /\ D \in [1..(n + 1) -> SUBSET Fields]
  BY ONLY <1>2 DEF Flows
<1>7. M[n + 2] = l
  BY ONLY <1>1, <1>5, <1>6, MoreIs
<1>8. E[n + 2] = lf /\ \A p \in 1..(n + 1) : E[p] = D[p]
  BY ONLY <1>3, <1>5, <1>6, MoreIs
<1> HIDE DEF M, E, k, n
<1>9. \A p \in 1..(n + 2) : E[p] \subseteq lf
  <2>1. \A p \in 1..(n + 2) : p = n + 2 \/ p \in 1..(n + 1)
    BY <1>5
  <2> QED
    BY ONLY <1>2, <1>8, <2>1
<1>10. BodyOK(k, tc, lf, M, E)
  BY ONLY <1>1, <1>2, <1>4, <1>5, <1>7, <1>8, <1>9 DEF BodyOK, l
<1> QED
  BY ONLY <1>10 DEF k

-----------------------------------------------------------------------------
(* The statements.                                                          *)

\* The invariant while the compiler is at work, and what a statement that
\* goes on has to keep.
LEMMA OpenInv ==
    ASSUME IInv, Open
    PROVE  /\ TypeInv /\ context = NoContext /\ Idle
           /\ \E L, D : BodyOK(code, scopes, left, L, D)
  BY DEF IInv

LEMMA CompilesOn ==
    ASSUME IInv, Open, UNCHANGED <<counted, Run>>, scopes' # <<>>,
           \E M, E : BodyOK(code', scopes', left', M, E)
    PROVE  IInv'
<1>1. TypeInv /\ context = NoContext /\ Idle
  BY OpenInv
<1>2. /\ counted' = counted /\ counts' = counts /\ context' = context /\ own' = own
      /\ recv' = recv /\ pc' = pc
  BY DEF Run
<1>3. TypeInv'
  BY ONLY <1>1, <1>2 DEF TypeInv
<1>4. context.resume = 0
  BY <1>1 DEF NoContext
<1>5. StandsAt' = StandsAt
  BY <1>2, <1>4 DEF StandsAt
<1>6. Idle'
  BY ONLY <1>1, <1>2, <1>5 DEF Idle
<1>7. Open' /\ context' = NoContext /\ \E L, D : BodyOK(code, scopes, left, L, D)'
  BY <1>1, <1>2 DEF Open
<1> QED
  BY ONLY <1>3, <1>6, <1>7 DEF IInv

\* What the compiler's invariant says of its parts.
LEMMA BodyFacts ==
    ASSUME NEW c, NEW sc, NEW lf, NEW L, NEW D, BodyOK(c, sc, lf, L, D)
    PROVE  /\ c \in Seq(Instrs) /\ Len(c) \in Nat
           /\ L \in [1..(Len(c) + 1) -> SUBSET Fields] /\ D \in [1..(Len(c) + 1) -> SUBSET Fields]
           /\ ScopesOK(c, sc, L) /\ sc \in Seq(ScopeRecs) /\ Len(sc) \in Nat \ {0}
           /\ L[Len(c) + 1] = Upto(sc, Len(sc)) /\ D[Len(c) + 1] = lf
           /\ lf \in SUBSET Fields /\ lf \cap Upto(sc, Len(sc)) = {}
           /\ YieldsOK(c, Upto(sc, Len(sc)) \cup lf) /\ Upto(sc, Len(sc)) \in SUBSET Fields
<1>1. /\ c \in Seq(Instrs) /\ Flows(c, L, D) /\ ScopesOK(c, sc, L)
      /\ L[Len(c) + 1] = Upto(sc, Len(sc)) /\ D[Len(c) + 1] = lf /\ lf \in SUBSET Fields
      /\ lf \cap Upto(sc, Len(sc)) = {} /\ YieldsOK(c, Upto(sc, Len(sc)) \cup lf)
  BY DEF BodyOK
<1>2. L \in [1..(Len(c) + 1) -> SUBSET Fields] /\ D \in [1..(Len(c) + 1) -> SUBSET Fields]
  BY ONLY <1>1 DEF Flows
<1>3. sc \in Seq(ScopeRecs) /\ Len(sc) > 0
  BY ONLY <1>1 DEF ScopesOK
<1>4. Len(sc) \in Nat \ {0} /\ Len(c) \in Nat
  BY ONLY <1>1, <1>3
<1>5. Len(sc) \in 0..Len(sc)
  BY ONLY <1>4
<1>6. Upto(sc, Len(sc)) \in SUBSET Fields
  BY ONLY <1>3, <1>5, UptoType
<1> QED
  BY ONLY <1>1, <1>2, <1>3, <1>4, <1>6

\* The innermost scope as it stays.
LEMMA SameScopes ==
    ASSUME NEW c, NEW sc, NEW L, ScopesOK(c, sc, L)
    PROVE  SameBelow(sc, sc)
  BY DEF ScopesOK, SameBelow

LEMMA InScopeIs ==
    ASSUME NEW L, ScopesOK(code, scopes, L)
    PROVE  InScope = Upto(scopes, Len(scopes))
<1>1. DOMAIN scopes = 1..Len(scopes)
  BY DEF ScopesOK
<1> QED
  BY ONLY <1>1 DEF InScope, Upto

\* A variable more in the innermost scope.
WithVar(sc, N, v) == [sc EXCEPT ![N].vars = @ \cup {v}]
Wider(sc, N, v, tc) ==
    SameBelow(sc, tc) /\ Len(tc) = N /\ Upto(tc, N) = Upto(sc, N) \cup {v}

LEMMA Widened ==
    ASSUME NEW sc \in Seq(ScopeRecs), NEW N, N = Len(sc), N > 0, NEW v \in Fields,
           v \notin Upto(sc, N),
           \A j, k \in 1..N : j # k => sc[j].vars \cap sc[k].vars = {}
    PROVE  Wider(sc, N, v, WithVar(sc, N, v))
<1> DEFINE r == [sc[N] EXCEPT !.vars = @ \cup {v}]
           tc == [sc EXCEPT ![N] = r]
<1>1. N \in Nat /\ N \in 1..N /\ sc[N] \in ScopeRecs
  OBVIOUS
<1>2. r \in ScopeRecs /\ r.vars = sc[N].vars \cup {v} /\ r.test = sc[N].test
  BY <1>1 DEF ScopeRecs
<1> HIDE DEF r
<1>3. /\ tc \in Seq(ScopeRecs) /\ Len(tc) = N /\ tc[N] = r
      /\ \A k \in 1..N : k # N => tc[k] = sc[k]
  BY <1>1, <1>2
<1> HIDE DEF tc
<1>4. \A k \in 1..N : v \notin sc[k].vars
  BY DEF Upto
<1>5. \A k \in 1..N : tc[k].test = sc[k].test
  BY ONLY <1>2, <1>3
<1>6. \A k \in 1..(N - 1) : tc[k].vars = sc[k].vars
  <2>1. \A k \in 1..(N - 1) : k \in 1..N /\ k # N
    BY <1>1
  <2> QED
    BY ONLY <1>3, <2>1
<1>7. \A j, k \in 1..N : j # k => tc[j].vars \cap tc[k].vars = {}
  BY <1>1, <1>2, <1>3, <1>4
<1>8. Upto(tc, N) = Upto(sc, N) \cup {v}
  <2>1. \A k \in 1..N : tc[k].vars = IF k = N THEN sc[k].vars \cup {v} ELSE sc[k].vars
    BY ONLY <1>2, <1>3
  <2> QED
    BY ONLY <1>1, <2>1 DEF Upto
<1>9. Wider(sc, N, v, tc)
  BY ONLY <1>3, <1>5, <1>6, <1>7, <1>8, N = Len(sc) DEF SameBelow, Wider
<1> QED
  BY ONLY <1>9 DEF tc, r, WithVar

\* What is where when the code c grows by one instruction.
LEMMA Positions ==
    ASSUME NEW c, NEW sc, NEW lf, NEW L, NEW D, BodyOK(c, sc, lf, L, D), NEW l \in SUBSET Fields
    PROVE  LET n == Len(c) IN
           /\ More(L, n, l)[n + 1] = Upto(sc, Len(sc)) /\ More(L, n, l)[n + 2] = l
           /\ More(D, n, lf)[n + 1] = lf /\ More(D, n, lf)[n + 2] = lf
           /\ \A p \in 1..n : More(L, n, l)[p] = L[p]
<1> DEFINE n == Len(c)
<1>1. /\ n \in Nat /\ L \in [1..(n + 1) -> SUBSET Fields] /\ D \in [1..(n + 1) -> SUBSET Fields]
      /\ L[n + 1] = Upto(sc, Len(sc)) /\ D[n + 1] = lf /\ lf \in SUBSET Fields
  <2>1. /\ Flows(c, L, D) /\ c \in Seq(Instrs) /\ lf \in SUBSET Fields
        /\ L[n + 1] = Upto(sc, Len(sc)) /\ D[n + 1] = lf
    BY DEF BodyOK
  <2>2. L \in [1..(n + 1) -> SUBSET Fields] /\ D \in [1..(n + 1) -> SUBSET Fields]
    BY ONLY <2>1 DEF Flows
  <2>3. n \in Nat
    BY ONLY <2>1
  <2> QED
    BY ONLY <2>1, <2>2, <2>3
<1> HIDE DEF n
<1>2. More(L, n, l)[n + 2] = l /\ \A p \in 1..(n + 1) : More(L, n, l)[p] = L[p]
  BY ONLY <1>1, l \in SUBSET Fields, MoreIs
<1>3. More(D, n, lf)[n + 2] = lf /\ \A p \in 1..(n + 1) : More(D, n, lf)[p] = D[p]
  BY ONLY <1>1, MoreIs
<1>4. n + 1 \in 1..(n + 1) /\ \A p \in 1..n : p \in 1..(n + 1)
  BY <1>1
<1> QED
  BY ONLY <1>1, <1>2, <1>3, <1>4 DEF n

LEMMA DeclareStep ==
    ASSUME GeneratorAssumption, IInv, NEW v \in Vars, Declare(v)
    PROVE  IInv'
<1> DEFINE i == [op |-> "nil", var |-> v]
           N == Len(scopes)
           tc == WithVar(scopes, N, v)
           n == Len(code)
<1>1. /\ Open /\ v \notin InScope \cup left /\ code' = Append(code, i) /\ scopes' = tc
      /\ UNCHANGED <<left, counted, Run>>
  BY DEF Declare, Declared, Emit, WithVar
<1>2. PICK L, D : BodyOK(code, scopes, left, L, D)
  BY <1>1, OpenInv
<1>3. /\ code \in Seq(Instrs) /\ n \in Nat /\ scopes \in Seq(ScopeRecs) /\ N \in Nat \ {0}
      /\ ScopesOK(code, scopes, L) /\ left \in SUBSET Fields /\ left \cap Upto(scopes, N) = {}
      /\ YieldsOK(code, Upto(scopes, N) \cup left) /\ Upto(scopes, N) \in SUBSET Fields
  BY <1>2, BodyFacts
<1>4. i \in Instrs /\ i.op = "nil" /\ i.var = v /\ v \in Fields
  BY DEF Instrs, Fields
<1>5. v \notin Upto(scopes, N) /\ v \notin left
  BY <1>1, <1>3, InScopeIs
<1>6. \A j, k \in 1..N : j # k => scopes[j].vars \cap scopes[k].vars = {}
  BY <1>3 DEF ScopesOK
<1> HIDE DEF i
<1>7. SameBelow(scopes, tc) /\ Len(tc) = N /\ Upto(tc, N) = Upto(scopes, N) \cup {v}
  <2>1. /\ scopes \in Seq(ScopeRecs) /\ N = Len(scopes) /\ N > 0
        /\ v \in Fields /\ v \notin Upto(scopes, N)
        /\ \A j, k \in 1..N : j # k => scopes[j].vars \cap scopes[k].vars = {}
    BY <1>3, <1>4, <1>5, <1>6
  <2> HIDE DEF N
  <2>2. Wider(scopes, N, v, WithVar(scopes, N, v))
    BY ONLY <2>1, Widened
  <2> QED
    BY ONLY <2>2 DEF Wider
<1> HIDE DEF tc
<1> DEFINE l == Upto(tc, Len(tc))
<1>8. l = Upto(scopes, N) \cup {v} /\ l \in SUBSET Fields
  BY <1>3, <1>4, <1>7
<1> HIDE DEF l, N, n
<1>9. /\ More(L, n, l)[n + 1] = Upto(scopes, N) /\ More(L, n, l)[n + 2] = l
      /\ More(D, n, left)[n + 1] = left /\ More(D, n, left)[n + 2] = left
      /\ \A p \in 1..n : More(L, n, l)[p] = L[p]
  BY ONLY <1>2, <1>8, Positions DEF n, N
<1>10. FlowAt(i, n + 1, n + 2, More(L, n, l), More(D, n, left))
  <2>1. (n + 1) + 1 = n + 2
    BY <1>3
  <2> QED
    BY ONLY <1>4, <1>5, <1>8, <1>9, <2>1 DEF FlowAt
<1>11. ScopesOK(Append(code, i), tc, More(L, n, l))
  <2>1. i.op \notin {"test", "jump"}
    BY <1>4
  <2>2. \A p \in 1..Len(code) : More(L, n, l)[p] = L[p]
    BY <1>9 DEF n
  <2> QED
    BY ONLY <1>3, <1>4, <1>7, <2>1, <2>2, ScopesAppend
<1>12. YieldsOK(Append(code, i), l \cup left)
  <2>1. l \cup left \subseteq (Upto(scopes, N) \cup left) \cup Declares(i)
    BY <1>4, <1>8 DEF Declares
  <2>2. i.op # "yield"
    BY <1>4
  <2> DEFINE a == Upto(scopes, N) \cup left
             b == l \cup left
  <2>3. YieldsOK(code, a) /\ b \subseteq a \cup Declares(i)
    BY <1>3, <2>1
  <2> HIDE DEF a, b
  <2>4. YieldsOK(Append(code, i), b)
    BY ONLY <1>3, <1>4, <2>2, <2>3, YieldsAppend
  <2> QED
    BY ONLY <2>4 DEF b
<1>13. left \cap l = {}
  BY <1>3, <1>5, <1>8
<1>14. Next1(code, i, tc, left, L, D)
  BY ONLY <1>3, <1>4, <1>8, <1>10, <1>11, <1>12, <1>13 DEF Next1, l, n
<1>15. \E M, E : BodyOK(Append(code, i), tc, left, M, E)
  BY ONLY <1>2, <1>14, BodyAppend
<1>16. \E M, E : BodyOK(code', scopes', left', M, E)
  BY <1>1, <1>15
<1>17. scopes' # <<>>
  <2>1. Len(scopes') > 0
    BY <1>1, <1>3, <1>7
  <2> QED
    BY <2>1
<1>18. UNCHANGED <<counted, Run>>
  BY <1>1
<1> QED
  BY ONLY IInv, <1>1, <1>16, <1>17, <1>18, CompilesOn

\* A statement that opens and closes nothing.
Plain(i) ==
    /\ i \in Instrs /\ i.op \in {"store", "yield"}
    /\ i.op = "store" => i.var \in InScope /\ i.from \in InScope \cup {"new"}
    /\ i.op = "yield" => i.live = InScope /\ left = {}

LEMMA PlainStep ==
    ASSUME IInv, Open, NEW i, Plain(i), code' = Append(code, i),
           UNCHANGED <<scopes, left, counted, Run>>
    PROVE  IInv'
<1> DEFINE N == Len(scopes)
           n == Len(code)
           l == Upto(scopes, Len(scopes))
<1>1. PICK L, D : BodyOK(code, scopes, left, L, D)
  BY OpenInv
<1>2. /\ code \in Seq(Instrs) /\ n \in Nat /\ scopes \in Seq(ScopeRecs) /\ N \in Nat \ {0}
      /\ ScopesOK(code, scopes, L) /\ left \in SUBSET Fields /\ left \cap l = {}
      /\ YieldsOK(code, l \cup left) /\ l \in SUBSET Fields
  BY <1>1, BodyFacts
<1>3. InScope = l
  BY <1>2, InScopeIs
<1>4. /\ i \in Instrs /\ i.op \in {"store", "yield"}
      /\ i.op = "store" => i.var \in l /\ i.from \in l \cup {"new"}
      /\ i.op = "yield" => i.live = l /\ left = {}
  BY <1>3 DEF Plain
<1>5. SameBelow(scopes, scopes)
  BY <1>2, SameScopes
<1> HIDE DEF l, N, n
<1>6. /\ More(L, n, l)[n + 1] = l /\ More(L, n, l)[n + 2] = l
      /\ More(D, n, left)[n + 1] = left /\ More(D, n, left)[n + 2] = left
      /\ \A p \in 1..n : More(L, n, l)[p] = L[p]
  BY ONLY <1>1, <1>2, Positions DEF n, l
<1>7. FlowAt(i, n + 1, n + 2, More(L, n, l), More(D, n, left))
  <2>1. (n + 1) + 1 = n + 2
    BY <1>2
  <2> QED
    BY ONLY <1>4, <1>6, <2>1 DEF FlowAt
<1>8. ScopesOK(Append(code, i), scopes, More(L, n, l))
  <2>1. i.op \notin {"test", "jump"}
    BY <1>4
  <2>2. \A p \in 1..Len(code) : More(L, n, l)[p] = L[p]
    BY <1>6 DEF n
  <2> QED
    BY ONLY <1>2, <1>4, <1>5, <2>1, <2>2, ScopesAppend
<1>9. YieldsOK(Append(code, i), l \cup left)
  <2> DEFINE a == l \cup left
  <2>1. YieldsOK(code, a) /\ a \subseteq a \cup Declares(i)
    BY <1>2
  <2>2. i.op = "yield" => a \subseteq i.live
    BY <1>4
  <2> HIDE DEF a
  <2>3. YieldsOK(Append(code, i), a)
    BY ONLY <1>2, <1>4, <2>1, <2>2, YieldsAppend
  <2> QED
    BY ONLY <2>3 DEF a
<1>10. Next1(code, i, scopes, left, L, D)
  BY ONLY <1>2, <1>4, <1>7, <1>8, <1>9 DEF Next1, l, n
<1>11. \E M, E : BodyOK(Append(code, i), scopes, left, M, E)
  BY ONLY <1>1, <1>10, BodyAppend
<1>12. /\ \E M, E : BodyOK(code', scopes', left', M, E)
       /\ UNCHANGED <<counted, Run>> /\ scopes' # <<>>
  BY <1>11 DEF Open
<1> QED
  BY ONLY IInv, Open, <1>12, CompilesOn

LEMMA AssignStep ==
    ASSUME GeneratorAssumption, IInv, NEW v \in Fields, NEW from \in Fields \cup {"new"},
           Assign(v, from)
    PROVE  IInv'
<1> DEFINE i == [op |-> "store", var |-> v, from |-> from]
<1>1. /\ Open /\ v \in InScope /\ from \in InScope \cup {"new"} /\ code' = Append(code, i)
      /\ UNCHANGED <<scopes, left, counted, Run>>
  BY DEF Assign, Emit
<1>2. i \in Instrs
  BY DEF Instrs
<1>3. Plain(i)
  BY <1>1, <1>2 DEF Plain
<1> HIDE DEF i
<1> QED
  BY ONLY IInv, <1>1, <1>3, PlainStep

LEMMA YieldStep ==
    ASSUME GeneratorAssumption, IInv, NEW v \in InScope \cup {Param}, Yield(v)
    PROVE  IInv'
<1> DEFINE i == [op |-> "yield", var |-> v, live |-> InScope]
<1>1. /\ Open /\ left = {} /\ code' = Append(code, i) /\ UNCHANGED <<scopes, left, counted, Run>>
  BY DEF Yield, Emit, GeneratorAssumption
<1>2. InScope \in SUBSET Fields
  <2>1. PICK L, D : BodyOK(code, scopes, left, L, D)
    BY <1>1, OpenInv
  <2>2. Upto(scopes, Len(scopes)) \in SUBSET Fields /\ ScopesOK(code, scopes, L)
    BY <2>1, BodyFacts
  <2> QED
    BY <2>2, InScopeIs
<1>3. v \in Fields
  BY <1>2 DEF Fields
<1>4. i \in Instrs
  BY <1>2, <1>3 DEF Instrs
<1>5. Plain(i)
  BY <1>1, <1>4 DEF Plain
<1> HIDE DEF i
<1> QED
  BY ONLY IInv, <1>1, <1>5, PlainStep

\* A block within the scopes sc, behind a test at the end of the code c.
Nested(sc, n, loop) == Append(sc, [vars |-> {}, test |-> n + 1, loop |-> loop])

LEMMA NestedScopes ==
    ASSUME NEW c \in Seq(Instrs), NEW sc, NEW L, NEW M, ScopesOK(c, sc, L), NEW loop \in BOOLEAN,
           \A p \in 1..Len(c) : M[p] = L[p],
           M[Len(c) + 1] = Upto(sc, Len(sc))
    PROVE  /\ ScopesOK(Append(c, [op |-> "test", to |-> 0]), Nested(sc, Len(c), loop), M)
           /\ Upto(Nested(sc, Len(c), loop), Len(Nested(sc, Len(c), loop))) = Upto(sc, Len(sc))
<1> DEFINE n == Len(c)
           i == [op |-> "test", to |-> 0]
           k == Append(c, i)
           N == Len(sc)
           r == [vars |-> {}, test |-> n + 1, loop |-> loop]
           tc == Append(sc, r)
<1>1. i \in Instrs /\ i.op = "test" /\ i.to = 0
  BY DEF Instrs
<1> HIDE DEF i
<1>2. n \in Nat /\ Len(k) = n + 1 /\ k[n + 1] = i /\ \A p \in 1..n : k[p] = c[p]
  BY <1>1, CodeAppend
<1>3. /\ sc \in Seq(ScopeRecs) /\ N \in Nat /\ N > 0
      /\ \A j, h \in 1..N : j # h => sc[j].vars \cap sc[h].vars = {}
      /\ \A j, h \in 2..N : j < h => sc[j].test < sc[h].test
      /\ \A h \in 2..N : /\ sc[h].test \in 1..n /\ c[sc[h].test].op = "test"
                         /\ c[sc[h].test].to = 0 /\ L[sc[h].test] = Upto(sc, h - 1)
      /\ \A p \in 1..n : c[p].op = "test" /\ c[p].to = 0 => \E h \in 2..N : sc[h].test = p
      /\ \A h \in 2..N : \A p \in 1..n :
            c[p].op = "jump" /\ p > sc[h].test => c[p].to > sc[h].test
  BY DEF ScopesOK
<1>4. (\A p \in 1..n : M[p] = L[p]) /\ M[n + 1] = Upto(sc, N)
  OBVIOUS
<1>5. r \in ScopeRecs /\ r.vars = {} /\ r.test = n + 1
  BY <1>2 DEF ScopeRecs
<1> HIDE DEF n, k, N, r
<1>6. /\ tc \in Seq(ScopeRecs) /\ Len(tc) = N + 1 /\ tc[N + 1] = r
      /\ \A h \in 1..N : tc[h] = sc[h]
  BY <1>3, <1>5 DEF N
<1> HIDE DEF tc
<1>7. \A h \in 0..N : Upto(tc, h) = Upto(sc, h)
  <2>1. \A h \in 0..N : \A j \in 1..h : tc[j] = sc[j]
    BY <1>3, <1>6
  <2> QED
    BY ONLY <2>1 DEF Upto
<1>8. Upto(tc, N + 1) = Upto(sc, N)
  <2>1. ASSUME NEW h \in 1..(N + 1)
        PROVE  tc[h].vars = IF h = N + 1 THEN {} ELSE sc[h].vars
    <3>1. h = N + 1 \/ h \in 1..N
      BY <1>3
    <3> QED
      BY ONLY <1>5, <1>6, <3>1
  <2>2. \A h \in 1..(N + 1) : h # N + 1 => h \in 1..N
    BY <1>3
  <2>3. \A h \in 1..N : h \in 1..(N + 1) /\ h # N + 1
    BY <1>3
  <2> QED
    BY ONLY <2>1, <2>2, <2>3 DEF Upto
<1>9. \A h \in 1..(N + 1) : h \in 1..N \/ h = N + 1
  BY <1>3
<1>10. \A h \in 2..(N + 1) : h \in 2..N \/ h = N + 1
  BY <1>3
<1>11. \A h \in 2..N : h \in 1..N /\ h \in 2..(N + 1) /\ h - 1 \in 0..N
  BY <1>3
<1>12. \A p \in 1..(n + 1) : p = n + 1 \/ p \in 1..n
  BY <1>2
<1>13. ASSUME NEW j \in 1..(N + 1), NEW h \in 1..(N + 1), j # h
       PROVE  tc[j].vars \cap tc[h].vars = {}
  BY <1>3, <1>5, <1>6, <1>9, <1>13
<1>14. ASSUME NEW j \in 2..(N + 1), NEW h \in 2..(N + 1), j < h
       PROVE  tc[j].test < tc[h].test
  <2>1. j \in 2..N /\ tc[j] = sc[j] /\ sc[j].test \in 1..n
    BY <1>3, <1>6, <1>14
  <2>2. CASE h = N + 1
    <3>1. tc[h].test = n + 1
      BY ONLY <1>5, <1>6, <2>2
    <3> QED
      BY ONLY <1>2, <2>1, <3>1
  <2>3. CASE h \in 2..N
    BY ONLY <1>3, <1>6, <1>11, <1>14, <2>1, <2>3
  <2> QED
    BY ONLY <1>10, <2>2, <2>3, h \in 2..(N + 1)
<1>15. ASSUME NEW h \in 2..(N + 1)
       PROVE  /\ tc[h].test \in 1..(n + 1) /\ k[tc[h].test].op = "test"
              /\ k[tc[h].test].to = 0 /\ M[tc[h].test] = Upto(tc, h - 1)
  <2>1. CASE h = N + 1
    <3>1. tc[h].test = n + 1 /\ h - 1 = N /\ N \in 0..N /\ n + 1 \in 1..(n + 1)
      BY <1>2, <1>3, <1>5, <1>6, <2>1
    <3> QED
      BY ONLY <1>1, <1>2, <1>4, <1>7, <3>1
  <2>2. CASE h \in 2..N
    <3>1. tc[h] = sc[h] /\ sc[h].test \in 1..n /\ Upto(tc, h - 1) = Upto(sc, h - 1)
      BY ONLY <1>3, <1>6, <1>7, <1>11, <2>2
    <3>2. sc[h].test \in 1..(n + 1)
      BY <1>2, <3>1
    <3>3. /\ k[sc[h].test] = c[sc[h].test] /\ M[sc[h].test] = L[sc[h].test]
      BY ONLY <1>2, <1>4, <3>1
    <3>4. /\ c[sc[h].test].op = "test" /\ c[sc[h].test].to = 0
          /\ L[sc[h].test] = Upto(sc, h - 1)
      BY ONLY <1>3, <2>2
    <3> QED
      BY ONLY <3>1, <3>2, <3>3, <3>4
  <2> QED
    BY ONLY <1>10, <2>1, <2>2, h \in 2..(N + 1)
<1>16. ASSUME NEW p \in 1..(n + 1), k[p].op = "test", k[p].to = 0
       PROVE  \E h \in 2..(N + 1) : tc[h].test = p
  <2>1. CASE p = n + 1
    <3>1. N + 1 \in 2..(N + 1) /\ tc[N + 1].test = n + 1
      BY <1>3, <1>5, <1>6
    <3> QED
      BY <2>1, <3>1
  <2>2. CASE p \in 1..n
    <3>1. PICK h \in 2..N : sc[h].test = p
      BY ONLY <1>2, <1>3, <1>16, <2>2
    <3> QED
      BY ONLY <1>6, <1>11, <3>1
  <2> QED
    BY ONLY <1>12, <2>1, <2>2, p \in 1..(n + 1)
<1>17. ASSUME NEW h \in 2..(N + 1), NEW p \in 1..(n + 1), k[p].op = "jump", p > tc[h].test
       PROVE  k[p].to > tc[h].test
  <2>1. p \in 1..n
    BY ONLY <1>1, <1>2, <1>12, <1>17, p \in 1..(n + 1)
  <2>2. h # N + 1
    BY <1>2, <1>5, <1>6, <1>17, <2>1
  <2>3. h \in 2..N /\ tc[h] = sc[h]
    BY ONLY <1>6, <1>10, <1>11, <2>2, h \in 2..(N + 1)
  <2> QED
    BY ONLY <1>2, <1>3, <1>17, <2>1, <2>3
<1>18. ScopesOK(k, tc, M)
  <2>1. N + 1 > 0
    BY <1>3
  <2> QED
    BY ONLY <1>2, <1>6, <1>13, <1>14, <1>15, <1>16, <1>17, <2>1 DEF ScopesOK
<1> QED
  BY ONLY <1>6, <1>8, <1>18 DEF k, i, tc, r, N, n, Nested

LEMMA BlockStep ==
    ASSUME GeneratorAssumption, IInv, NEW loop \in BOOLEAN, Block(loop)
    PROVE  IInv'
<1> DEFINE i == [op |-> "test", to |-> 0]
           n == Len(code)
           tc == Nested(scopes, n, loop)
           l == Upto(scopes, Len(scopes))
<1>1. /\ Open /\ code' = Append(code, i) /\ scopes' = tc /\ UNCHANGED <<left, counted, Run>>
  BY DEF Block, Emit, Nested
<1>2. PICK L, D : BodyOK(code, scopes, left, L, D)
  BY <1>1, OpenInv
<1>3. /\ code \in Seq(Instrs) /\ n \in Nat /\ scopes \in Seq(ScopeRecs)
      /\ ScopesOK(code, scopes, L) /\ left \cap l = {}
      /\ YieldsOK(code, l \cup left) /\ l \in SUBSET Fields
  BY <1>2, BodyFacts
<1>4. i \in Instrs /\ i.op = "test" /\ i.to = 0
  BY DEF Instrs
<1> HIDE DEF l, n, tc
<1>5. /\ More(L, n, l)[n + 1] = l /\ More(L, n, l)[n + 2] = l
      /\ More(D, n, left)[n + 1] = left /\ More(D, n, left)[n + 2] = left
      /\ \A p \in 1..n : More(L, n, l)[p] = L[p]
  BY ONLY <1>2, <1>3, Positions DEF n, l
<1> DEFINE M == More(L, n, l)
<1>6. ScopesOK(Append(code, i), tc, M) /\ Upto(tc, Len(tc)) = l
  <2>1. (\A p \in 1..Len(code) : M[p] = L[p]) /\ M[Len(code) + 1] = Upto(scopes, Len(scopes))
    BY ONLY <1>5 DEF n, l
  <2> HIDE DEF M
  <2>2. /\ ScopesOK(Append(code, i), Nested(scopes, Len(code), loop), M)
        /\ Upto(Nested(scopes, Len(code), loop), Len(Nested(scopes, Len(code), loop)))
              = Upto(scopes, Len(scopes))
    BY ONLY <1>3, <2>1, loop \in BOOLEAN, NestedScopes
  <2> QED
    BY ONLY <2>2 DEF tc, n, l
<1> HIDE DEF i, M
<1>7. FlowAt(i, n + 1, n + 2, M, More(D, n, left))
  <2>1. (n + 1) + 1 = n + 2
    BY <1>3
  <2> QED
    BY ONLY <1>4, <1>5, <2>1 DEF FlowAt, M
<1>8. YieldsOK(Append(code, i), l \cup left)
  <2> DEFINE a == l \cup left
  <2>1. YieldsOK(code, a) /\ a \subseteq a \cup Declares(i) /\ i.op # "yield"
    BY <1>3, <1>4
  <2> HIDE DEF a
  <2>2. YieldsOK(Append(code, i), a)
    BY ONLY <1>3, <1>4, <2>1, YieldsAppend
  <2> QED
    BY ONLY <2>2 DEF a
<1>9. Next1(code, i, tc, left, L, D)
  BY ONLY <1>3, <1>4, <1>6, <1>7, <1>8 DEF Next1, M, n
<1>10. \E X, E : BodyOK(Append(code, i), tc, left, X, E)
  BY ONLY <1>2, <1>9, BodyAppend
<1>11. /\ \E X, E : BodyOK(code', scopes', left', X, E)
       /\ UNCHANGED <<counted, Run>>
  BY <1>1, <1>10
<1>12. scopes' # <<>>
  <2>1. scopes' = Append(scopes, [vars |-> {}, test |-> n + 1, loop |-> loop])
    BY <1>1 DEF tc, Nested
  <2> QED
    BY ONLY <1>3, <2>1
<1> QED
  BY ONLY IInv, <1>1, <1>11, <1>12, CompilesOn

-----------------------------------------------------------------------------
(* The end of a block.                                                      *)

\* From block t on, what lf names may be stale wherever it is out of scope.
Raise(L, D, m, t, lf) == [p \in 1..m |-> IF p < t THEN D[p] ELSE D[p] \cup (lf \ L[p])]

LEMMA RaiseIs ==
    ASSUME NEW m \in Nat, NEW t \in Nat, NEW lf \in SUBSET Fields,
           NEW L, NEW D \in [1..m -> SUBSET Fields]
    PROVE  /\ Raise(L, D, m, t, lf) \in [1..m -> SUBSET Fields]
           /\ \A p \in 1..m : p < t => Raise(L, D, m, t, lf)[p] = D[p]
           /\ \A p \in 1..m : ~(p < t) => Raise(L, D, m, t, lf)[p] = D[p] \cup (lf \ L[p])
           /\ \A p \in 1..m : D[p] \subseteq Raise(L, D, m, t, lf)[p]
<1>1. \A p \in 1..m : D[p] \in SUBSET Fields
  OBVIOUS
<1> QED
  BY <1>1 DEF Raise

\* What lets the code from t on be raised: no yield would have a stale field,
\* and no jump leaves it.
Raisable(c, L, t, lf) ==
    /\ \A p \in 1..Len(c) : p >= t /\ c[p].op = "yield" => lf \subseteq L[p]
    /\ \A p \in 1..Len(c) : p >= t /\ c[p].op = "jump" => c[p].to >= t

LEMMA FlowRaised ==
    ASSUME NEW i, NEW p \in Nat, NEW m \in Nat, p > 0, p < m, NEW t \in Nat, NEW lf,
           NEW L, NEW D, NEW E, FlowAt(i, p, m, L, D), p >= t,
           \A q \in 1..m : q >= t => E[q] = D[q] \cup (lf \ L[q]),
           i.op = "yield" => lf \subseteq L[p],
           i.op = "jump" => i.to >= t
    PROVE  FlowAt(i, p, m, L, E)
<1>1. /\ E[p] = D[p] \cup (lf \ L[p]) /\ E[p + 1] = D[p + 1] \cup (lf \ L[p + 1])
  <2>1. p \in 1..m /\ p + 1 \in 1..m /\ p + 1 >= t
    OBVIOUS
  <2> QED
    BY <2>1
<1>2. ASSUME NEW q \in (p + 1)..m PROVE E[q] = D[q] \cup (lf \ L[q])
  <2>1. q \in 1..m /\ q >= t
    OBVIOUS
  <2> QED
    BY <2>1
<1>3. CASE i.op = "nil"
  BY ONLY <1>1, <1>3, FlowAt(i, p, m, L, D) DEF FlowAt
<1>4. CASE i.op = "store"
  BY ONLY <1>1, <1>4, FlowAt(i, p, m, L, D) DEF FlowAt
<1>5. CASE i.op = "yield"
  BY ONLY <1>1, <1>5, FlowAt(i, p, m, L, D), i.op = "yield" => lf \subseteq L[p] DEF FlowAt
<1>6. CASE i.op = "test"
  <2>1. /\ L[p + 1] = L[p] /\ D[p] \subseteq D[p + 1]
        /\ i.to # 0 => i.to \in (p + 1)..m /\ L[i.to] = L[p] /\ D[p] \subseteq D[i.to]
    BY ONLY <1>6, FlowAt(i, p, m, L, D) DEF FlowAt
  <2>2. E[p] \subseteq E[p + 1]
    BY ONLY <1>1, <2>1
  <2>3. i.to # 0 => E[p] \subseteq E[i.to]
    BY ONLY <1>1, <1>2, <2>1
  <2> QED
    BY ONLY <1>6, <2>1, <2>2, <2>3 DEF FlowAt
<1>7. CASE i.op = "release"
  <2>1. i.vars \subseteq L[p] /\ L[p + 1] = L[p] \ i.vars /\ D[p] \cup i.vars \subseteq D[p + 1]
    BY ONLY <1>7, FlowAt(i, p, m, L, D) DEF FlowAt
  <2>2. E[p] \cup i.vars \subseteq E[p + 1]
    BY ONLY <1>1, <2>1
  <2> QED
    BY ONLY <1>7, <2>1, <2>2 DEF FlowAt
<1>8. CASE i.op = "jump"
  <2>1. i.to \in 1..m /\ L[i.to] = L[p] /\ D[p] \subseteq D[i.to] /\ i.to >= t
    BY ONLY <1>8, FlowAt(i, p, m, L, D), i.op = "jump" => i.to >= t DEF FlowAt
  <2>2. E[i.to] = D[i.to] \cup (lf \ L[i.to])
    BY <2>1
  <2>3. E[p] \subseteq E[i.to]
    BY ONLY <1>1, <2>1, <2>2
  <2> QED
    BY ONLY <1>8, <2>1, <2>3 DEF FlowAt
<1>9. CASE i.op \notin {"nil", "store", "yield", "test", "release", "jump"}
  BY ONLY <1>9, FlowAt(i, p, m, L, D) DEF FlowAt
<1> QED
  BY ONLY <1>3, <1>4, <1>5, <1>6, <1>7, <1>8, <1>9

\* In front of t more may be stale in the successors.
LEMMA FlowWidened ==
    ASSUME NEW i, NEW p \in Nat, NEW m \in Nat, p > 0, p < m, NEW L, NEW D, NEW E,
           FlowAt(i, p, m, L, D), E[p] = D[p], \A q \in 1..m : D[q] \subseteq E[q]
    PROVE  FlowAt(i, p, m, L, E)
<1>1. p + 1 \in 1..m /\ \A q \in (p + 1)..m : q \in 1..m
  OBVIOUS
<1>2. D[p + 1] \subseteq E[p + 1] /\ \A q \in (p + 1)..m : D[q] \subseteq E[q]
  BY <1>1
<1> QED
  BY ONLY <1>2, FlowAt(i, p, m, L, D), E[p] = D[p], \A q \in 1..m : D[q] \subseteq E[q] DEF FlowAt

LEMMA FlowsRaised ==
    ASSUME NEW c \in Seq(Instrs), NEW L, NEW D, Flows(c, L, D), NEW t \in Nat,
           NEW lf \in SUBSET Fields, Raisable(c, L, t, lf)
    PROVE  Flows(c, L, Raise(L, D, Len(c) + 1, t, lf))
<1> DEFINE n == Len(c)
           m == n + 1
           E == Raise(L, D, m, t, lf)
<1>1. /\ L \in [1..m -> SUBSET Fields] /\ D \in [1..m -> SUBSET Fields] /\ L[1] = {Param}
      /\ \A p \in 1..n : FlowAt(c[p], p, m, L, D)
  BY DEF Flows
<1>2. n \in Nat /\ m \in Nat
  OBVIOUS
<1>3. \A p \in 1..n : p \in Nat /\ p > 0 /\ p < m /\ p \in 1..m
  BY <1>2
<1>4. /\ \A p \in 1..n : p >= t /\ c[p].op = "yield" => lf \subseteq L[p]
      /\ \A p \in 1..n : p >= t /\ c[p].op = "jump" => c[p].to >= t
  BY DEF Raisable
<1> HIDE DEF n, m
<1>5. /\ E \in [1..m -> SUBSET Fields]
      /\ \A p \in 1..m : p < t => E[p] = D[p]
      /\ \A p \in 1..m : ~(p < t) => E[p] = D[p] \cup (lf \ L[p])
      /\ \A p \in 1..m : D[p] \subseteq E[p]
  BY ONLY <1>1, <1>2, t \in Nat, lf \in SUBSET Fields, RaiseIs
<1> HIDE DEF E
<1>6. \A q \in 1..m : q >= t => E[q] = D[q] \cup (lf \ L[q])
  BY <1>2, <1>5
<1>7. ASSUME NEW p \in 1..n PROVE FlowAt(c[p], p, m, L, E)
  <2>1. FlowAt(c[p], p, m, L, D) /\ p \in Nat /\ p > 0 /\ p < m /\ p \in 1..m
    BY <1>1, <1>3
  <2>2. CASE p < t
    <3>1. E[p] = D[p]
      BY <1>5, <2>1, <2>2
    <3> QED
      BY ONLY <1>2, <1>5, <2>1, <3>1, FlowWidened
  <2>3. CASE p >= t
    <3>1. (c[p].op = "yield" => lf \subseteq L[p]) /\ (c[p].op = "jump" => c[p].to >= t)
      BY ONLY <1>4, <2>3, p \in 1..n
    <3> QED
      BY ONLY <1>2, <1>6, <2>1, <2>3, <3>1, t \in Nat, FlowRaised
  <2> QED
    BY <1>3, <2>2, <2>3
<1>8. Flows(c, L, E)
  BY ONLY <1>1, <1>5, <1>7 DEF Flows, m, n
<1> QED
  BY ONLY <1>8 DEF E, m, n

\* The block that began with the test at t can be closed behind the code b:
\* l is in scope there and at the test, and g may be stale.
Closable(b, L, D, t, l, g) ==
    /\ b \in Seq(Instrs) /\ Flows(b, L, D) /\ t \in 1..Len(b)
    /\ b[t].op = "test" /\ L[t] = l /\ L[Len(b) + 1] = l /\ D[Len(b) + 1] = g
    /\ g \in SUBSET Fields /\ g \cap l = {} /\ \A p \in 1..(Len(b) + 1) : D[p] \subseteq g

\* The release of the variables of a scope.
LEMMA ReleaseEmitted ==
    ASSUME NEW c, NEW sc, NEW lf, NEW L, NEW D, BodyOK(c, sc, lf, L, D),
           NEW N, N = Len(sc), N > 1, NEW i, NEW vs, i = [op |-> "release", vars |-> vs],
           vs = sc[N].vars
    PROVE  /\ i \in Instrs
           /\ Closable(Append(c, i), More(L, Len(c), Upto(sc, N - 1)), More(D, Len(c), lf \cup vs),
                       sc[N].test, Upto(sc, N - 1), lf \cup vs)
<1> DEFINE n == Len(c)
           l == Upto(sc, N - 1)
           g == lf \cup vs
           M == More(L, n, l)
           E == More(D, n, g)
           b == Append(c, i)
           t == sc[N].test
<1>1. /\ c \in Seq(Instrs) /\ Flows(c, L, D) /\ ScopesOK(c, sc, L)
      /\ L[n + 1] = Upto(sc, N) /\ D[n + 1] = lf /\ lf \in SUBSET Fields
      /\ lf \cap Upto(sc, N) = {} /\ \A p \in 1..(n + 1) : D[p] \subseteq lf
  BY DEF BodyOK
<1>2. /\ sc \in Seq(ScopeRecs) /\ N \in Nat /\ n \in Nat
      /\ \A j, k \in 1..N : j # k => sc[j].vars \cap sc[k].vars = {}
      /\ \A k \in 2..N : sc[k].test \in 1..n /\ c[sc[k].test].op = "test"
                         /\ L[sc[k].test] = Upto(sc, k - 1)
  BY <1>1 DEF ScopesOK
<1>3. N \in 2..N /\ N \in 1..N /\ N - 1 \in 0..N /\ N \in 0..N /\ sc[N] \in ScopeRecs
  BY <1>2
<1>4. vs \in SUBSET Fields
  BY <1>3 DEF ScopeRecs
<1>5. i \in Instrs /\ i.op = "release" /\ i.vars = vs
  BY <1>4 DEF Instrs
<1>6. t \in 1..n /\ c[t].op = "test" /\ L[t] = l
  BY <1>2, <1>3
<1>7. Upto(sc, N) \in SUBSET Fields /\ l \in SUBSET Fields
  <2>1. N \in 0..Len(sc) /\ N - 1 \in 0..Len(sc)
    BY <1>3
  <2> QED
    BY ONLY <1>2, <2>1, UptoType
<1>8. Upto(sc, N) = l \cup vs /\ l \cap vs = {}
  <2>1. \A k \in 1..N : k = N \/ k \in 1..(N - 1)
    BY <1>2
  <2>2. \A k \in 1..(N - 1) : k \in 1..N /\ k # N
    BY <1>2
  <2>3. Upto(sc, N) = l \cup vs
    BY ONLY <1>3, <2>1, <2>2, vs = sc[N].vars DEF Upto
  <2>4. \A k \in 1..(N - 1) : sc[k].vars \cap vs = {}
    BY ONLY <1>2, <1>3, <2>2, vs = sc[N].vars
  <2>5. l \cap vs = {}
    BY ONLY <2>4 DEF Upto
  <2> QED
    BY ONLY <2>3, <2>5
<1> HIDE DEF l, n, t
<1>9. g \in SUBSET Fields /\ g \cap l = {}
  BY <1>1, <1>4, <1>8
<1> HIDE DEF g
<1>10. /\ L \in [1..(n + 1) -> SUBSET Fields] /\ D \in [1..(n + 1) -> SUBSET Fields]
  BY <1>1 DEF Flows, n
<1>11. M[n + 2] = l /\ \A p \in 1..(n + 1) : M[p] = L[p]
  BY ONLY <1>2, <1>7, <1>10, MoreIs
<1>12. E[n + 2] = g /\ \A p \in 1..(n + 1) : E[p] = D[p]
  BY ONLY <1>2, <1>9, <1>10, MoreIs
<1> HIDE DEF M, E
<1>13. M[n + 1] = Upto(sc, N) /\ E[n + 1] = lf
  <2>1. n + 1 \in 1..(n + 1)
    BY <1>2
  <2> QED
    BY ONLY <1>1, <1>11, <1>12, <2>1 DEF n
<1>14. FlowAt(i, n + 1, n + 2, M, E)
  <2>1. (n + 1) + 1 = n + 2
    BY <1>2
  <2>2. vs \subseteq M[n + 1] /\ M[n + 2] = M[n + 1] \ vs /\ E[n + 1] \cup vs \subseteq E[n + 2]
    BY ONLY <1>8, <1>11, <1>12, <1>13 DEF g
  <2> QED
    BY ONLY <1>5, <2>1, <2>2 DEF FlowAt
<1>15. Flows(b, M, E)
  BY ONLY <1>1, <1>5, <1>7, <1>9, <1>14, FlowsAppend DEF M, E, n
<1>16. /\ b \in Seq(Instrs) /\ Len(b) = n + 1 /\ \A p \in 1..n : b[p] = c[p]
  BY ONLY <1>1, <1>5, CodeAppend DEF n
<1> HIDE DEF b
<1>17. /\ t \in 1..Len(b) /\ b[t].op = "test" /\ M[t] = l /\ M[Len(b) + 1] = l /\ E[Len(b) + 1] = g
  <2>1. t \in 1..(n + 1) /\ (n + 1) + 1 = n + 2
    BY <1>2, <1>6
  <2> QED
    BY ONLY <1>6, <1>11, <1>12, <1>16, <2>1
<1>18. \A p \in 1..(Len(b) + 1) : E[p] \subseteq g
  <2>1. \A p \in 1..(Len(b) + 1) : p \in 1..(n + 1) \/ p = n + 2
    BY <1>2, <1>16
  <2>2. \A p \in 1..(n + 1) : D[p] \subseteq lf
    BY ONLY <1>1 DEF n
  <2> QED
    BY ONLY <1>12, <2>1, <2>2 DEF g
<1>19. Closable(b, M, E, t, l, g)
  BY ONLY <1>9, <1>15, <1>16, <1>17, <1>18 DEF Closable
<1> QED
  BY ONLY <1>5, <1>19 DEF b, M, E, t, l, g, n

\* The jump back to the test of a loop.
LEMMA JumpEmitted ==
    ASSUME NEW b, NEW L, NEW D, NEW t \in Nat, NEW l, NEW g, Closable(b, L, D, t, l, g),
           Raisable(b, L, t, g), NEW i, i = [op |-> "jump", to |-> t]
    PROVE  /\ i \in Instrs
           /\ \E E : Closable(Append(b, i), More(L, Len(b), l), E, t, l, g)
<1> DEFINE n == Len(b)
           R == Raise(L, D, n + 1, t, g)
           M == More(L, n, l)
           E == More(R, n, g)
           k == Append(b, i)
<1>1. /\ b \in Seq(Instrs) /\ Flows(b, L, D) /\ t \in 1..n
      /\ b[t].op = "test" /\ L[t] = l /\ L[n + 1] = l /\ D[n + 1] = g
      /\ g \in SUBSET Fields /\ g \cap l = {} /\ \A p \in 1..(n + 1) : D[p] \subseteq g
  BY DEF Closable
<1>2. n \in Nat /\ t \in Nat /\ n + 1 \in Nat /\ t > 0 /\ t <= n
  BY <1>1
<1>3. i \in Instrs /\ i.op = "jump" /\ i.to = t
  BY <1>2 DEF Instrs
<1>4. Flows(b, L, R)
  BY <1>1, <1>2, FlowsRaised
<1>5. L \in [1..(n + 1) -> SUBSET Fields] /\ D \in [1..(n + 1) -> SUBSET Fields]
  BY <1>1 DEF Flows
<1> HIDE DEF n
<1>6. /\ R \in [1..(n + 1) -> SUBSET Fields]
      /\ \A p \in 1..(n + 1) : p < t => R[p] = D[p]
      /\ \A p \in 1..(n + 1) : ~(p < t) => R[p] = D[p] \cup (g \ L[p])
  <2> DEFINE m == n + 1
  <2>1. m \in Nat /\ t \in Nat /\ g \in SUBSET Fields /\ D \in [1..m -> SUBSET Fields]
    BY ONLY <1>1, <1>2, <1>5
  <2> HIDE DEF m
  <2>2. /\ Raise(L, D, m, t, g) \in [1..m -> SUBSET Fields]
        /\ \A p \in 1..m : p < t => Raise(L, D, m, t, g)[p] = D[p]
        /\ \A p \in 1..m : ~(p < t) => Raise(L, D, m, t, g)[p] = D[p] \cup (g \ L[p])
    BY ONLY <2>1, RaiseIs
  <2> QED
    BY ONLY <2>2 DEF m
<1> HIDE DEF R
<1>7. R[n + 1] = g /\ R[t] = g /\ \A p \in 1..(n + 1) : R[p] \subseteq g
  <2>1. n + 1 \in 1..(n + 1) /\ ~(n + 1 < t) /\ t \in 1..(n + 1) /\ ~(t < t)
    BY <1>2
  <2>2. R[n + 1] = D[n + 1] \cup (g \ L[n + 1]) /\ R[t] = D[t] \cup (g \ L[t])
    BY ONLY <1>6, <2>1
  <2>3. D[t] \subseteq g /\ g \ l = g
    BY ONLY <1>1, <2>1
  <2>4. ASSUME NEW p \in 1..(n + 1) PROVE R[p] \subseteq g
    <3>1. D[p] \subseteq g
      BY ONLY <1>1, p \in 1..(n + 1)
    <3>2. R[p] = D[p] \/ R[p] = D[p] \cup (g \ L[p])
      BY ONLY <1>6, p \in 1..(n + 1)
    <3> QED
      BY ONLY <3>1, <3>2
  <2> QED
    BY ONLY <1>1, <2>2, <2>3, <2>4
<1>8. l \in SUBSET Fields
  BY <1>1, <1>2, <1>5
<1>9. M[n + 2] = l /\ \A p \in 1..(n + 1) : M[p] = L[p]
  BY ONLY <1>2, <1>5, <1>8, MoreIs
<1>10. E[n + 2] = g /\ \A p \in 1..(n + 1) : E[p] = R[p]
  BY ONLY <1>1, <1>2, <1>6, MoreIs
<1> HIDE DEF M, E
<1>11. M[n + 1] = l /\ E[n + 1] = g /\ M[t] = l /\ E[t] = g /\ t \in 1..(n + 2) /\ t \in 1..(n + 1)
  <2>1. n + 1 \in 1..(n + 1) /\ t \in 1..(n + 1) /\ t \in 1..(n + 2)
    BY <1>2
  <2> QED
    BY ONLY <1>1, <1>7, <1>9, <1>10, <2>1
<1>12. FlowAt(i, n + 1, n + 2, M, E)
  BY ONLY <1>3, <1>11 DEF FlowAt
<1>13. Flows(k, M, E)
  BY ONLY <1>1, <1>3, <1>4, <1>8, <1>12, FlowsAppend DEF M, E, n
<1>14. k \in Seq(Instrs) /\ Len(k) = n + 1 /\ \A p \in 1..n : k[p] = b[p]
  BY ONLY <1>1, <1>3, CodeAppend DEF n
<1> HIDE DEF k
<1>15. /\ t \in 1..Len(k) /\ k[t].op = "test" /\ M[t] = l /\ M[Len(k) + 1] = l
       /\ E[Len(k) + 1] = g
  <2>1. (n + 1) + 1 = n + 2
    BY <1>2
  <2> QED
    BY ONLY <1>1, <1>9, <1>10, <1>11, <1>14, <2>1
<1>16. \A p \in 1..(Len(k) + 1) : E[p] \subseteq g
  <2>1. \A p \in 1..(Len(k) + 1) : p \in 1..(n + 1) \/ p = n + 2
    BY <1>2, <1>14
  <2> QED
    BY ONLY <1>7, <1>10, <2>1
<1>17. Closable(k, M, E, t, l, g)
  BY ONLY <1>1, <1>13, <1>14, <1>15, <1>16 DEF Closable
<1>18. \E X : Closable(k, M, X, t, l, g)
  BY ONLY <1>17
<1> QED
  BY ONLY <1>3, <1>18 DEF k, M, n

\* The test gets its target, the end of the code.
Patch(b, t) == [b EXCEPT ![t].to = Len(b) + 1]

LEMMA Patched ==
    ASSUME NEW b, NEW L, NEW D, NEW t, NEW l, NEW g, Closable(b, L, D, t, l, g),
           NEW k, k = Patch(b, t)
    PROVE  /\ k \in Seq(Instrs) /\ Len(k) = Len(b) /\ Flows(k, L, D)
           /\ k[t].op = "test" /\ k[t].to = Len(b) + 1
           /\ \A p \in 1..Len(b) : p # t => k[p] = b[p]
<1> DEFINE n == Len(b)
           e == n + 1
           r == [b[t] EXCEPT !.to = e]
<1>1. /\ b \in Seq(Instrs) /\ Flows(b, L, D) /\ t \in 1..n
      /\ b[t].op = "test" /\ L[t] = l /\ L[n + 1] = l /\ D[n + 1] = g
      /\ \A p \in 1..(n + 1) : D[p] \subseteq g
  BY DEF Closable
<1>2. n \in Nat /\ e \in Nat /\ e # 0 /\ e \in (t + 1)..(n + 1)
  BY <1>1
<1>3. b[t] \in [op : {"test", "jump"}, to : Nat]
  <2>1. b[t] \in Instrs
    BY <1>1
  <2> QED
    BY ONLY <1>1, <2>1 DEF Instrs
<1>4. k = [b EXCEPT ![t] = r]
  BY DEF n, Patch
<1> HIDE DEF n, e
<1>5. r \in [op : {"test", "jump"}, to : Nat] /\ r.op = "test" /\ r.to = e
  BY ONLY <1>1, <1>2, <1>3
<1>6. r \in Instrs
  BY ONLY <1>5 DEF Instrs
<1> HIDE DEF r
<1>7. /\ k \in Seq(Instrs) /\ Len(k) = n /\ k[t] = r
      /\ \A p \in 1..n : p # t => k[p] = b[p]
  BY <1>1, <1>4, <1>6 DEF n
<1>8. /\ L \in [1..(n + 1) -> SUBSET Fields] /\ D \in [1..(n + 1) -> SUBSET Fields]
      /\ L[1] = {Param} /\ \A p \in 1..n : FlowAt(b[p], p, n + 1, L, D)
  BY ONLY <1>1 DEF Flows, n
<1>9. ASSUME NEW p \in 1..n PROVE FlowAt(k[p], p, n + 1, L, D)
  <2>1. FlowAt(b[p], p, n + 1, L, D)
    BY <1>8
  <2>2. CASE p = t
    <3>1. L[p + 1] = L[p] /\ D[p] \subseteq D[p + 1]
      BY ONLY <1>1, <2>1, <2>2 DEF FlowAt
    <3>2. e = n + 1 /\ t \in 1..(n + 1)
      BY <1>1, <1>2 DEF e
    <3>3. L[e] = L[p] /\ D[p] \subseteq D[e]
      BY ONLY <1>1, <2>2, <3>2
    <3> QED
      BY ONLY <1>2, <1>5, <1>7, <2>2, <3>1, <3>3 DEF FlowAt
  <2>3. CASE p # t
    BY ONLY <1>7, <2>1, <2>3, p \in 1..n
  <2> QED
    BY ONLY <2>2, <2>3
<1>10. Flows(k, L, D)
  BY ONLY <1>7, <1>8, <1>9 DEF Flows
<1> QED
  BY ONLY <1>5, <1>7, <1>10 DEF n, e

\* The code k is c with the block of the test at t closed behind it.
Grown(c, b, t) ==
    /\ c \in Seq(Instrs) /\ b \in Seq(Instrs) /\ Len(c) <= Len(b)
    /\ t \in 1..Len(c) /\ c[t].op = "test"
    /\ \A p \in 1..Len(c) : p # t => b[p] = c[p]
    /\ \A p \in (Len(c) + 1)..Len(b) : /\ b[p].op \notin {"nil", "yield", "test"}
                                       /\ b[p].op = "jump" => b[p].to = t

LEMMA FrontIs ==
    ASSUME NEW sc \in Seq(ScopeRecs), NEW N, N = Len(sc), N > 1
    PROVE  /\ Front(sc) \in Seq(ScopeRecs) /\ Len(Front(sc)) = N - 1
           /\ \A k \in 1..(N - 1) : Front(sc)[k] = sc[k]
  BY DEF Front

\* k closes the innermost of the scopes sc of c.
Closes(c, sc, L, M, N, k, t) ==
    /\ ScopesOK(c, sc, L) /\ N = Len(sc) /\ N > 1 /\ t = sc[N].test
    /\ Grown(c, k, t) /\ k[t].op = "test" /\ k[t].to # 0
    /\ \A p \in 1..Len(c) : M[p] = L[p]

LEMMA ScopesClosed ==
    ASSUME NEW c, NEW sc, NEW L, NEW M, NEW N, NEW k, NEW t, Closes(c, sc, L, M, N, k, t)
    PROVE  /\ ScopesOK(k, Front(sc), M)
           /\ Upto(Front(sc), Len(Front(sc))) = Upto(sc, N - 1)
<1> DEFINE n == Len(c)
           tc == Front(sc)
           m == Len(k)
<1>1. /\ n \in Nat /\ m \in Nat /\ n <= m /\ t \in 1..n
      /\ \A p \in 1..n : p # t => k[p] = c[p]
      /\ \A p \in (n + 1)..m : /\ k[p].op \notin {"nil", "yield", "test"}
                               /\ k[p].op = "jump" => k[p].to = t
  BY DEF Closes, Grown
<1>2. /\ sc \in Seq(ScopeRecs) /\ N \in Nat
      /\ \A j, h \in 1..N : j # h => sc[j].vars \cap sc[h].vars = {}
      /\ \A j, h \in 2..N : j < h => sc[j].test < sc[h].test
      /\ \A h \in 2..N : /\ sc[h].test \in 1..n /\ c[sc[h].test].op = "test"
                         /\ c[sc[h].test].to = 0 /\ L[sc[h].test] = Upto(sc, h - 1)
      /\ \A p \in 1..n : c[p].op = "test" /\ c[p].to = 0 => \E h \in 2..N : sc[h].test = p
      /\ \A h \in 2..N : \A p \in 1..n :
            c[p].op = "jump" /\ p > sc[h].test => c[p].to > sc[h].test
  BY DEF Closes, ScopesOK
<1>3. tc \in Seq(ScopeRecs) /\ Len(tc) = N - 1 /\ \A h \in 1..(N - 1) : tc[h] = sc[h]
  BY <1>2, FrontIs DEF Closes
<1>4. /\ k[t].op = "test" /\ k[t].to # 0 /\ t = sc[N].test /\ N > 1
      /\ \A p \in 1..n : M[p] = L[p]
  BY DEF Closes
<1> HIDE DEF n, tc, m
<1>5. /\ \A h \in 1..(N - 1) : h \in 1..N
      /\ \A h \in 2..(N - 1) : h \in 2..N /\ h \in 1..(N - 1) /\ h < N /\ h # N
      /\ N \in 2..N
  BY <1>2, <1>4
<1>6. \A h \in 0..(N - 1) : Upto(tc, h) = Upto(sc, h)
  <2>1. \A h \in 0..(N - 1) : \A j \in 1..h : j \in 1..(N - 1)
    BY <1>2
  <2>2. \A h \in 0..(N - 1) : \A j \in 1..h : tc[j] = sc[j]
    BY ONLY <1>3, <2>1
  <2> QED
    BY ONLY <2>2 DEF Upto
<1>7. \A p \in 1..m : p \in 1..n \/ p \in (n + 1)..m
  BY <1>1
<1>8. \A j, h \in 1..(N - 1) : j # h => tc[j].vars \cap tc[h].vars = {}
  BY ONLY <1>2, <1>3, <1>5
<1>9. \A j, h \in 2..(N - 1) : j < h => tc[j].test < tc[h].test
  BY ONLY <1>2, <1>3, <1>5
<1>10. ASSUME NEW h \in 2..(N - 1) PROVE tc[h] = sc[h] /\ sc[h].test < t /\ sc[h].test \in 1..n
  BY ONLY <1>2, <1>3, <1>4, <1>5, h \in 2..(N - 1)
<1>11. ASSUME NEW h \in 2..(N - 1)
       PROVE  /\ tc[h].test \in 1..m /\ k[tc[h].test].op = "test"
              /\ k[tc[h].test].to = 0 /\ M[tc[h].test] = Upto(tc, h - 1)
  <2> DEFINE q == sc[h].test
  <2>1. tc[h].test = q /\ q < t /\ q \in 1..n
    BY ONLY <1>10, h \in 2..(N - 1)
  <2>2. q # t /\ q \in 1..m
    BY ONLY <1>1, <2>1
  <2>3. c[q].op = "test" /\ c[q].to = 0 /\ L[q] = Upto(sc, h - 1)
    BY ONLY <1>2, <1>5, h \in 2..(N - 1)
  <2>4. Upto(tc, h - 1) = Upto(sc, h - 1)
    <3>1. h - 1 \in 0..(N - 1)
      BY <1>2
    <3> QED
      BY ONLY <1>6, <3>1
  <2> HIDE DEF q
  <2>5. k[q] = c[q] /\ M[q] = L[q]
    BY ONLY <1>1, <1>4, <2>1, <2>2
  <2> QED
    BY ONLY <2>1, <2>2, <2>3, <2>4, <2>5
<1>12. ASSUME NEW p \in 1..m, k[p].op = "test", k[p].to = 0
       PROVE  \E h \in 2..(N - 1) : tc[h].test = p
  <2>1. p # t
    BY ONLY <1>4, <1>12
  <2>2. p \in 1..n
    BY ONLY <1>1, <1>7, <1>12, p \in 1..m
  <2>3. k[p] = c[p]
    BY ONLY <1>1, <2>1, <2>2
  <2>4. PICK h \in 2..N : sc[h].test = p
    BY ONLY <1>2, <1>12, <2>2, <2>3
  <2>5. h # N
    BY ONLY <1>4, <2>1, <2>4
  <2>6. h \in 2..(N - 1)
    BY <1>2, <2>5
  <2> QED
    BY ONLY <1>10, <2>4, <2>6
<1>13. ASSUME NEW h \in 2..(N - 1), NEW p \in 1..m, k[p].op = "jump", p > tc[h].test
       PROVE  k[p].to > tc[h].test
  <2>1. tc[h] = sc[h] /\ sc[h].test < t /\ sc[h].test \in 1..n
    BY ONLY <1>10, h \in 2..(N - 1)
  <2>2. CASE p \in 1..n
    <3>1. p # t
      BY ONLY <1>4, <1>13
    <3>2. k[p] = c[p]
      BY ONLY <1>1, <2>2, <3>1
    <3> QED
      BY ONLY <1>2, <1>5, <1>13, <2>1, <2>2, <3>2, h \in 2..(N - 1)
  <2>3. CASE p \in (n + 1)..m
    <3>1. k[p].to = t
      BY ONLY <1>1, <1>13, <2>3
    <3> QED
      BY ONLY <1>1, <2>1, <3>1
  <2> QED
    BY ONLY <1>7, <2>2, <2>3, p \in 1..m
<1>14. ScopesOK(k, tc, M)
  <2>1. N - 1 > 0
    BY ONLY <1>2, <1>4
  <2> QED
    BY ONLY <1>3, <1>8, <1>9, <1>11, <1>12, <1>13, <2>1 DEF ScopesOK, m
<1>15. Upto(tc, Len(tc)) = Upto(sc, N - 1)
  <2>1. N - 1 \in 0..(N - 1)
    BY <1>2, <1>4
  <2> QED
    BY ONLY <1>3, <1>6, <2>1
<1> QED
  BY ONLY <1>14, <1>15 DEF tc

LEMMA YieldsClosed ==
    ASSUME NEW c, NEW k, NEW t, Grown(c, k, t), k[t].op = "test", NEW a, YieldsOK(c, a)
    PROVE  YieldsOK(k, a)
<1> DEFINE n == Len(c)
           m == Len(k)
<1>1. /\ n \in Nat /\ m \in Nat /\ n <= m /\ t \in 1..n /\ c[t].op = "test"
      /\ \A p \in 1..n : p # t => k[p] = c[p]
      /\ \A p \in (n + 1)..m : k[p].op \notin {"nil", "yield", "test"}
  BY DEF Grown
<1>2. \A y \in 1..n : c[y].op = "yield" => a \subseteq c[y].live \cup After(c, y)
  BY DEF YieldsOK
<1>3. k[t].op = "test"
  OBVIOUS
<1> HIDE DEF n, m
<1>4. ASSUME NEW y \in 1..m, k[y].op = "yield"
      PROVE  a \subseteq k[y].live \cup After(k, y)
  <2>1. y \in 1..n
    <3>1. y \in 1..n \/ y \in (n + 1)..m
      BY <1>1
    <3> QED
      BY ONLY <1>1, <1>4, <3>1
  <2>2. y # t
    BY ONLY <1>3, <1>4
  <2>3. k[y] = c[y]
    BY ONLY <1>1, <2>1, <2>2
  <2>4. a \subseteq c[y].live \cup After(c, y)
    BY ONLY <1>2, <1>4, <2>1, <2>3
  <2>5. ASSUME NEW v \in After(c, y) PROVE v \in After(k, y)
    <3>1. v \in Vars /\ \E h \in (y + 1)..n : c[h].op = "nil" /\ c[h].var = v
      BY DEF After, n
    <3>2. PICK h \in (y + 1)..n : c[h].op = "nil" /\ c[h].var = v
      BY <3>1
    <3>3. h \in 1..n /\ h \in (y + 1)..m
      BY <1>1, <2>1
    <3>4. h # t
      BY ONLY <1>1, <3>2
    <3>5. k[h] = c[h]
      BY ONLY <1>1, <3>3, <3>4
    <3> QED
      BY ONLY <3>1, <3>2, <3>3, <3>5 DEF After, m
  <2> QED
    BY ONLY <2>3, <2>4, <2>5
<1> QED
  BY ONLY <1>4 DEF YieldsOK, m

\* The loop settles what a yield in it would otherwise find stale.
LEMMA LoopRaisable ==
    ASSUME NEW c, NEW sc, NEW lf, NEW L, NEW D, BodyOK(c, sc, lf, L, D),
           NEW N, N = Len(sc), N > 1, NEW t, t = sc[N].test, NEW g, g = lf \cup sc[N].vars,
           NEW i \in Instrs, i.op = "release", NEW M, \A p \in 1..(Len(c) + 1) : M[p] = L[p],
           \A y \in t..Len(c) : c[y].op = "yield" =>
               \A q \in t..Len(c) : c[q].op = "nil" => c[q].var \in c[y].live
    PROVE  Raisable(Append(c, i), M, t, g)
<1> DEFINE n == Len(c)
           b == Append(c, i)
           a == Upto(sc, N) \cup lf
<1>1. /\ c \in Seq(Instrs) /\ n \in Nat /\ ScopesOK(c, sc, L) /\ YieldsOK(c, a)
      /\ Len(sc) \in Nat /\ sc \in Seq(ScopeRecs)
  BY BodyFacts
<1>2. Len(b) = n + 1 /\ b[n + 1] = i /\ \A p \in 1..n : b[p] = c[p]
  BY ONLY <1>1, i \in Instrs, CodeAppend
<1>3. \A p \in 1..n : FlowAt(c[p], p, n + 1, L, D)
  BY DEF BodyOK, Flows
<1>4. N \in 2..Len(sc) /\ N \in 1..N
  BY <1>1
<1>5. /\ t \in 1..n /\ c[t].op = "test"
      /\ \A p \in 1..n : c[p].op = "jump" /\ p > t => c[p].to > t
  BY ONLY <1>1, <1>4, t = sc[N].test DEF ScopesOK
<1>6. \A y \in 1..n : c[y].op = "yield" => a \subseteq c[y].live \cup After(c, y)
  BY ONLY <1>1 DEF YieldsOK
<1>7. g \subseteq a
  BY ONLY <1>4, g = lf \cup sc[N].vars DEF Upto
<1>8. /\ \A p \in 1..(n + 1) : M[p] = L[p]
      /\ \A y \in t..n : c[y].op = "yield" =>
               \A q \in t..n : c[q].op = "nil" => c[q].var \in c[y].live
      /\ i.op = "release"
  OBVIOUS
<1> HIDE DEF n, b, a
<1>9. ASSUME NEW p \in 1..(n + 1), b[p].op \in {"yield", "jump"} PROVE p \in 1..n /\ b[p] = c[p]
  <2>1. p # n + 1
    BY ONLY <1>2, <1>8, <1>9
  <2>2. p \in 1..n
    BY ONLY <1>1, <2>1, p \in 1..(n + 1)
  <2> QED
    BY ONLY <1>2, <2>2
<1>10. ASSUME NEW p \in 1..(n + 1), p >= t, b[p].op = "yield" PROVE g \subseteq M[p]
  <2>1. p \in 1..n /\ b[p] = c[p]
    BY ONLY <1>9, <1>10
  <2>2. p \in t..n /\ p \in 1..(n + 1)
    BY ONLY <1>1, <1>5, <1>10, <2>1
  <2>3. c[p].live = L[p] /\ M[p] = L[p]
    BY ONLY <1>3, <1>8, <1>10, <2>1, <2>2 DEF FlowAt
  <2>4. a \subseteq c[p].live \cup After(c, p)
    BY ONLY <1>6, <1>10, <2>1
  <2>5. ASSUME NEW v \in After(c, p) PROVE v \in c[p].live
    <3>1. PICK q \in (p + 1)..n : c[q].op = "nil" /\ c[q].var = v
      BY ONLY v \in After(c, p) DEF After, n
    <3>2. q \in t..n
      BY ONLY <1>1, <1>5, <2>2
    <3> QED
      BY ONLY <1>8, <1>10, <2>1, <2>2, <3>1, <3>2
  <2> QED
    BY ONLY <1>7, <2>3, <2>4, <2>5
<1>11. ASSUME NEW p \in 1..(n + 1), p >= t, b[p].op = "jump" PROVE b[p].to >= t
  <2>1. p \in 1..n /\ b[p] = c[p]
    BY ONLY <1>9, <1>11
  <2>2. p # t
    BY ONLY <1>5, <1>11, <2>1
  <2>3. p > t
    BY ONLY <1>1, <1>5, <1>11, <2>1, <2>2
  <2>4. c[p].to > t
    BY ONLY <1>5, <1>11, <2>1, <2>3
  <2>5. c[p] \in [op : {"test", "jump"}, to : Nat]
    <3>1. c[p] \in Instrs /\ c[p].op = "jump"
      BY <1>1, <1>11, <2>1 DEF n
    <3> QED
      BY ONLY <3>1 DEF Instrs
  <2> QED
    BY ONLY <1>5, <2>1, <2>4, <2>5
<1>12. Raisable(b, M, t, g)
  BY ONLY <1>2, <1>10, <1>11 DEF Raisable
<1> QED
  BY ONLY <1>12 DEF b

\* The block is closed.
Closed(c, sc, lf, L, D, N, t, g, l, b, M, E) ==
    /\ BodyOK(c, sc, lf, L, D) /\ N = Len(sc) /\ N > 1 /\ t = sc[N].test
    /\ g = lf \cup sc[N].vars /\ l = Upto(sc, N - 1)
    /\ Closable(b, M, E, t, l, g) /\ Grown(c, b, t) /\ \A p \in 1..Len(c) : M[p] = L[p]

LEMMA BlockClosed ==
    ASSUME NEW c, NEW sc, NEW lf, NEW L, NEW D, NEW N, NEW t, NEW g, NEW l, NEW b, NEW M, NEW E,
           Closed(c, sc, lf, L, D, N, t, g, l, b, M, E)
    PROVE  BodyOK(Patch(b, t), Front(sc), g, M, E)
<1> DEFINE k == Patch(b, t)
<1>0. /\ BodyOK(c, sc, lf, L, D) /\ N = Len(sc) /\ N > 1 /\ t = sc[N].test
      /\ g = lf \cup sc[N].vars /\ l = Upto(sc, N - 1)
      /\ Closable(b, M, E, t, l, g) /\ Grown(c, b, t) /\ \A p \in 1..Len(c) : M[p] = L[p]
      /\ k = Patch(b, t)
  BY DEF Closed
<1> HIDE DEF k
<1>1. /\ c \in Seq(Instrs) /\ ScopesOK(c, sc, L) /\ YieldsOK(c, Upto(sc, N) \cup lf)
      /\ Len(sc) \in Nat /\ sc \in Seq(ScopeRecs)
  BY ONLY <1>0, BodyFacts
<1>2. /\ k \in Seq(Instrs) /\ Len(k) = Len(b) /\ Flows(k, M, E)
      /\ k[t].op = "test" /\ k[t].to = Len(b) + 1
      /\ \A p \in 1..Len(b) : p # t => k[p] = b[p]
  BY ONLY <1>0, Patched
<1>3. /\ b \in Seq(Instrs) /\ M[Len(b) + 1] = l /\ E[Len(b) + 1] = g
      /\ g \in SUBSET Fields /\ g \cap l = {} /\ \A p \in 1..(Len(b) + 1) : E[p] \subseteq g
  BY ONLY <1>0 DEF Closable
<1>4. /\ Len(c) <= Len(b) /\ t \in 1..Len(c) /\ c[t].op = "test"
      /\ \A p \in 1..Len(c) : p # t => b[p] = c[p]
      /\ \A p \in (Len(c) + 1)..Len(b) : /\ b[p].op \notin {"nil", "yield", "test"}
                                         /\ b[p].op = "jump" => b[p].to = t
  BY ONLY <1>0 DEF Grown
<1>5. Len(b) \in Nat /\ Len(c) \in Nat
  BY <1>1, <1>3
<1>6. Grown(c, k, t)
  <2>1. ASSUME NEW p \in 1..Len(c), p # t PROVE k[p] = c[p]
    <3>1. p \in 1..Len(b)
      BY ONLY <1>4, <1>5, p \in 1..Len(c)
    <3> QED
      BY ONLY <1>2, <1>4, <2>1, <3>1, p \in 1..Len(c)
  <2>2. ASSUME NEW p \in (Len(c) + 1)..Len(b) PROVE k[p] = b[p]
    <3>1. p \in 1..Len(b) /\ p # t
      BY ONLY <1>4, <1>5, p \in (Len(c) + 1)..Len(b)
    <3> QED
      BY ONLY <1>2, <3>1
  <2> QED
    BY ONLY <1>1, <1>2, <1>4, <2>1, <2>2 DEF Grown
<1>7. ScopesOK(k, Front(sc), M) /\ Upto(Front(sc), Len(Front(sc))) = l
  <2>1. k[t].to # 0
    BY ONLY <1>2, <1>5
  <2>2. Closes(c, sc, L, M, N, k, t)
    BY ONLY <1>0, <1>1, <1>2, <1>6, <2>1 DEF Closes
  <2>3. ScopesOK(k, Front(sc), M) /\ Upto(Front(sc), Len(Front(sc))) = Upto(sc, N - 1)
    BY ONLY <2>2, ScopesClosed
  <2> QED
    BY ONLY <1>0, <2>3
<1>8. Upto(sc, N) \cup lf = l \cup g
  <2>1. N \in 1..N /\ (\A k1 \in 1..N : k1 = N \/ k1 \in 1..(N - 1)) /\ \A k1 \in 1..(N - 1) : k1 \in 1..N
    BY <1>0, <1>1
  <2>2. Upto(sc, N) = Upto(sc, N - 1) \cup sc[N].vars
    BY ONLY <2>1 DEF Upto
  <2> QED
    BY ONLY <1>0, <2>2
<1>9. YieldsOK(k, l \cup g)
  <2> DEFINE a == l \cup g
  <2>1. YieldsOK(c, a)
    BY ONLY <1>1, <1>8
  <2> HIDE DEF a
  <2>2. YieldsOK(k, a)
    BY ONLY <1>2, <1>6, <2>1, YieldsClosed
  <2> QED
    BY ONLY <2>2 DEF a
<1>10. BodyOK(k, Front(sc), g, M, E)
  BY ONLY <1>2, <1>3, <1>7, <1>9 DEF BodyOK
<1> QED
  BY ONLY <1>10 DEF k

LEMMA EndBlockStep ==
    ASSUME GeneratorAssumption, IInv, EndBlock
    PROVE  IInv'
<1> DEFINE n == Len(code)
           N == Len(scopes)
           s == Last(scopes)
           t == s.test
           l == Upto(scopes, N - 1)
           g == left \cup s.vars
           i == [op |-> "release", vars |-> s.vars]
           j == [op |-> "jump", to |-> t]
           b == Append(code, i)
           b2 == Append(b, j)
           body == IF s.loop THEN b2 ELSE b
           k == [body EXCEPT ![t].to = Len(body) + 1]
<1>1. /\ N > 1 /\ Settled(s)
      /\ code' = [code \o <<i>> \o (IF s.loop THEN <<j>> ELSE <<>>)
                    EXCEPT ![t].to = Len(code \o <<i>> \o (IF s.loop THEN <<j>> ELSE <<>>)) + 1]
      /\ scopes' = Front(scopes) /\ left' = g /\ UNCHANGED <<counted, Run>>
  BY DEF EndBlock, GeneratorAssumption
<1>2. Open
  BY <1>1 DEF Open
<1>3. PICK L, D : BodyOK(code, scopes, left, L, D)
  BY <1>2, OpenInv
<1>4. /\ code \in Seq(Instrs) /\ n \in Nat /\ scopes \in Seq(ScopeRecs)
      /\ ScopesOK(code, scopes, L) /\ N \in Nat /\ left \in SUBSET Fields
      /\ L \in [1..(n + 1) -> SUBSET Fields] /\ D \in [1..(n + 1) -> SUBSET Fields]
  BY <1>3, BodyFacts
<1>5. s = scopes[N]
  BY <1>1 DEF Last
<1>6. N \in 2..N /\ s \in ScopeRecs
  BY <1>1, <1>4, <1>5
<1>7. s.loop \in BOOLEAN /\ t \in Nat /\ s.vars \in SUBSET Fields
  BY ONLY <1>6 DEF ScopeRecs
<1> DEFINE M == More(L, n, l)
           E == More(D, n, g)
<1>8. i \in Instrs /\ Closable(b, M, E, t, l, g)
  <2>1. i \in Instrs
    BY ONLY <1>7 DEF Instrs
  <2> DEFINE vs == s.vars
  <2>2. i = [op |-> "release", vars |-> vs] /\ vs = scopes[N].vars
    BY ONLY <1>5
  <2>3. N = Len(scopes) /\ t = scopes[N].test
    BY ONLY <1>5
  <2> HIDE DEF vs, i, N, t
  <2>4. Closable(Append(code, i), More(L, Len(code), Upto(scopes, N - 1)),
                 More(D, Len(code), left \cup vs), scopes[N].test, Upto(scopes, N - 1), left \cup vs)
    BY ONLY <1>1, <1>3, <2>2, <2>3, ReleaseEmitted
  <2> QED
    BY ONLY <2>1, <2>3, <2>4 DEF vs
<1>9. \A p \in 1..(n + 1) : M[p] = L[p]
  <2>1. N - 1 \in 0..Len(scopes)
    BY <1>1, <1>4
  <2>2. l \in SUBSET Fields
    BY ONLY <1>4, <2>1, UptoType
  <2> HIDE DEF l
  <2> QED
    BY ONLY <1>4, <2>2, MoreIs
<1>10. /\ b \in Seq(Instrs) /\ Len(b) = n + 1 /\ b[n + 1] = i /\ \A p \in 1..n : b[p] = code[p]
  BY ONLY <1>4, <1>8, CodeAppend
<1>11. j \in Instrs
  BY ONLY <1>7 DEF Instrs
<1>12. code' = k
  <2>1. code \o <<i>> = b
    BY ONLY <1>4, <1>8, AppendIsConcat
  <2>2. b \o <<j>> = b2 /\ b \o <<>> = b
    BY ONLY <1>10, <1>11, AppendIsConcat, ConcatEmptySeq
  <2> HIDE DEF b, b2
  <2>3. code \o <<i>> \o (IF s.loop THEN <<j>> ELSE <<>>) = body
    BY ONLY <2>1, <2>2
  <2> HIDE DEF body
  <2> QED
    BY ONLY <1>1, <2>3
<1>13. /\ t \in 1..n /\ code[t].op = "test"
  BY ONLY <1>4, <1>5, <1>6 DEF ScopesOK
<1>14. Grown(code, b, t)
  <2>1. \A p \in (n + 1)..(n + 1) : p = n + 1
    BY <1>4
  <2>2. n <= n + 1
    BY <1>4
  <2>3. i.op = "release"
    OBVIOUS
  <2> HIDE DEF b, i
  <2> QED
    BY ONLY <1>4, <1>10, <1>13, <2>1, <2>2, <2>3 DEF Grown
<1> HIDE DEF k, M, E
<1>15. \A p \in 1..n : M[p] = L[p]
  <2>1. \A p \in 1..n : p \in 1..(n + 1)
    BY <1>4
  <2> QED
    BY ONLY <1>9, <2>1
<1>16. N = Len(scopes) /\ t = scopes[N].test /\ g = left \cup scopes[N].vars
  BY ONLY <1>5
<1>17. \E X, Y : BodyOK(k, Front(scopes), g, X, Y)
  <2>1. CASE ~s.loop
    <3>1. k = Patch(b, t)
      BY ONLY <2>1 DEF k, Patch
    <3>2. l = Upto(scopes, N - 1)
      OBVIOUS
    <3> HIDE DEF b, t, g, l, N
    <3>3. Closed(code, scopes, left, L, D, N, t, g, l, b, M, E)
      BY ONLY <1>1, <1>3, <1>8, <1>14, <1>15, <1>16, <3>2 DEF Closed, n
    <3> QED
      BY ONLY <3>1, <3>3, BlockClosed
  <2>2. CASE s.loop
    <3>1. \A y \in t..n : code[y].op = "yield" =>
              \A q \in t..n : code[q].op = "nil" => code[q].var \in code[y].live
      BY ONLY <1>1, <2>2 DEF Settled
    <3>2. i.op = "release"
      OBVIOUS
    <3> HIDE DEF i, t, g, N
    <3>3. Raisable(Append(code, i), M, t, g)
      BY ONLY <1>1, <1>3, <1>8, <1>9, <1>16, <3>1, <3>2, LoopRaisable DEF n
    <3>4. PICK Z : Closable(Append(b, j), More(M, Len(b), l), Z, t, l, g)
      BY ONLY <1>7, <1>8, <3>3, JumpEmitted
    <3>5. k = Patch(b2, t)
      BY ONLY <2>2 DEF k, Patch
    <3>6. Len(b2) = n + 2 /\ b2 \in Seq(Instrs) /\ b2[n + 2] = j /\ \A p \in 1..(n + 1) : b2[p] = b[p]
      <4>1. /\ b2 \in Seq(Instrs) /\ Len(b2) = Len(b) + 1 /\ b2[Len(b) + 1] = j
            /\ \A p \in 1..Len(b) : b2[p] = b[p]
        BY ONLY <1>10, <1>11, CodeAppend
      <4>2. (n + 1) + 1 = n + 2
        BY <1>4
      <4> HIDE DEF b2, b
      <4> QED
        BY ONLY <1>10, <4>1, <4>2
    <3>7. Grown(code, b2, t)
      <4>1. \A p \in (n + 1)..(n + 2) : p = n + 1 \/ p = n + 2
        BY <1>4
      <4>2. n <= n + 2 /\ n + 1 \in 1..(n + 1) /\ \A p \in 1..n : p \in 1..(n + 1)
        BY <1>4
      <4>3. j.op = "jump" /\ j.to = t
        OBVIOUS
      <4> HIDE DEF b2, b, j
      <4> QED
        BY ONLY <1>4, <1>10, <1>13, <3>2, <3>6, <4>1, <4>2, <4>3 DEF Grown
    <3> DEFINE W == More(M, Len(b), l)
    <3>8. \A p \in 1..n : W[p] = L[p]
      <4> DEFINE h == Len(b)
      <4>1. h \in Nat /\ \A p \in 1..n : p \in 1..(h + 1)
        BY ONLY <1>4, <1>10
      <4>2. M \in [1..(h + 1) -> SUBSET Fields] /\ l \in SUBSET Fields
        BY ONLY <1>8, <4>1 DEF Closable, Flows
      <4> HIDE DEF h
      <4>3. \A p \in 1..(h + 1) : More(M, h, l)[p] = M[p]
        BY ONLY <4>1, <4>2, MoreIs
      <4> QED
        BY ONLY <1>15, <4>1, <4>3 DEF h
    <3>9. Closable(b2, W, Z, t, l, g)
      BY ONLY <3>4
    <3>10. l = Upto(scopes, N - 1)
      OBVIOUS
    <3> HIDE DEF b2, W, l
    <3>11. Closed(code, scopes, left, L, D, N, t, g, l, b2, W, Z)
      BY ONLY <1>1, <1>3, <1>16, <3>7, <3>8, <3>9, <3>10 DEF Closed, n
    <3> QED
      BY ONLY <3>5, <3>11, BlockClosed
  <2> QED
    BY ONLY <1>7, <2>1, <2>2
<1> HIDE DEF g, N
<1>18. \E X, Y : BodyOK(code', scopes', left', X, Y)
  BY ONLY <1>1, <1>12, <1>17
<1>19. scopes' # <<>>
  <2>1. Len(Front(scopes)) = N - 1 /\ N - 1 # 0
    BY ONLY <1>1, <1>4, <1>16, FrontIs
  <2>2. Len(<<>>) = 0
    OBVIOUS
  <2> QED
    BY ONLY <1>1, <2>1, <2>2
<1> QED
  BY ONLY IInv, <1>1, <1>2, <1>18, <1>19, CompilesOn

-----------------------------------------------------------------------------
(* The end of the body.                                                     *)

\* The last two instructions, which release what is in scope and end the body.
LEMMA EndEmitted ==
    ASSUME NEW c \in Seq(Instrs), NEW L, NEW D, Flows(c, L, D), NEW i, NEW j,
           i = [op |-> "release", vars |-> L[Len(c) + 1]], j = [op |-> "end"]
    PROVE  /\ Append(c, i) \in Seq(Instrs) /\ Append(Append(c, i), j) \in Seq(Instrs)
           /\ \E M, E : Flows(Append(Append(c, i), j), M, E)
<1> DEFINE n == Len(c)
           l == L[n + 1]
           d == D[n + 1] \cup l
           b == Append(c, i)
           M == More(L, n, {})
           E == More(D, n, d)
<1>1. /\ n \in Nat /\ n + 1 \in 1..(n + 1) /\ (n + 1) + 1 = n + 2
      /\ L \in [1..(n + 1) -> SUBSET Fields] /\ D \in [1..(n + 1) -> SUBSET Fields]
  BY DEF Flows
<1>2. l \in SUBSET Fields /\ d \in SUBSET Fields /\ {} \in SUBSET Fields
  BY ONLY <1>1
<1>3. i \in Instrs /\ j \in Instrs /\ i.op = "release" /\ i.vars = l /\ j.op = "end"
  BY ONLY <1>2, i = [op |-> "release", vars |-> L[Len(c) + 1]], j = [op |-> "end"] DEF Instrs
<1>4. d = D[n + 1] \cup l
  OBVIOUS
<1> HIDE DEF d, l
<1>5. /\ M \in [1..(n + 2) -> SUBSET Fields] /\ M[n + 2] = {} /\ M[n + 1] = l
  <2>1. /\ M \in [1..(n + 2) -> SUBSET Fields] /\ M[n + 2] = {}
        /\ \A p \in 1..(n + 1) : M[p] = L[p]
    BY ONLY <1>1, <1>2, MoreIs
  <2>2. M[n + 1] = L[n + 1]
    BY ONLY <1>1, <2>1
  <2> HIDE DEF M
  <2> QED
    BY ONLY <2>1, <2>2 DEF l
<1>6. /\ E \in [1..(n + 2) -> SUBSET Fields] /\ E[n + 2] = d /\ E[n + 1] = D[n + 1]
  <2>1. /\ E \in [1..(n + 2) -> SUBSET Fields] /\ E[n + 2] = d
        /\ \A p \in 1..(n + 1) : E[p] = D[p]
    BY ONLY <1>1, <1>2, MoreIs
  <2> HIDE DEF E
  <2> QED
    BY ONLY <1>1, <2>1
<1>7. FlowAt(i, n + 1, n + 2, M, E)
  <2> HIDE DEF M, E
  <2> QED
    BY ONLY <1>1, <1>3, <1>4, <1>5, <1>6 DEF FlowAt
<1>8. Flows(b, M, E)
  BY ONLY <1>2, <1>3, <1>7, c \in Seq(Instrs), Flows(c, L, D), FlowsAppend
<1>9. b \in Seq(Instrs) /\ Len(b) = n + 1
  BY ONLY <1>3, c \in Seq(Instrs), CodeAppend
<1> DEFINE h == Len(b)
           M2 == More(M, h, {})
           E2 == More(E, h, d)
<1>10. h \in Nat /\ h = n + 1 /\ h + 1 = n + 2 /\ h + 1 \in 1..(h + 1)
  BY ONLY <1>1, <1>9
<1> HIDE DEF M, E, h
<1>11. M2[h + 1] = {}
  <2>1. M \in [1..(h + 1) -> SUBSET Fields]
    BY ONLY <1>5, <1>10
  <2>2. \A p \in 1..(h + 1) : M2[p] = M[p]
    BY ONLY <1>2, <1>10, <2>1, MoreIs
  <2> HIDE DEF M2
  <2> QED
    BY ONLY <1>5, <1>10, <2>2
<1>12. FlowAt(j, h + 1, h + 2, M2, E2)
  BY ONLY <1>3, <1>11 DEF FlowAt
<1>13. Flows(Append(b, j), M2, E2)
  BY ONLY <1>2, <1>3, <1>8, <1>9, <1>12, FlowsAppend DEF h
<1>14. Append(b, j) \in Seq(Instrs)
  BY ONLY <1>3, <1>9, CodeAppend
<1> HIDE DEF M2, E2
<1> QED
  BY ONLY <1>9, <1>13, <1>14

LEMMA EndBodyStep ==
    ASSUME GeneratorAssumption, IInv, EndBody
    PROVE  IInv'
<1> DEFINE n == Len(code)
           l == Upto(scopes, Len(scopes))
           i == [op |-> "release", vars |-> l]
           j == [op |-> "end"]
           b == Append(code, i)
           k == Append(b, j)
<1>1. /\ Len(scopes) = 1 /\ code' = code \o <<[op |-> "release", vars |-> InScope], j>>
      /\ scopes' = <<>> /\ UNCHANGED <<left, counted, Run>>
  BY DEF EndBody
<1>2. Open
  BY <1>1 DEF Open
<1>3. TypeInv /\ context = NoContext /\ Idle
  BY <1>2, OpenInv
<1>4. PICK L, D : BodyOK(code, scopes, left, L, D)
  BY <1>2, OpenInv
<1>5. /\ code \in Seq(Instrs) /\ n \in Nat /\ scopes \in Seq(ScopeRecs)
      /\ ScopesOK(code, scopes, L) /\ l \in SUBSET Fields /\ L[n + 1] = l
  BY <1>4, BodyFacts
<1>6. Flows(code, L, D)
  BY <1>4 DEF BodyOK
<1>7. i \in Instrs /\ j \in Instrs /\ i.op = "release" /\ j.op = "end"
  BY ONLY <1>5 DEF Instrs
<1>8. code' = k
  <2>1. InScope = l
    BY ONLY <1>5, InScopeIs
  <2>2. code \o <<i, j>> = Append(Append(code, i), j)
    BY ONLY <1>5, <1>7
  <2> QED
    BY ONLY <1>1, <2>1, <2>2
<1>9. \E M, E : Flows(k, M, E)
  <2>1. i = [op |-> "release", vars |-> L[Len(code) + 1]] /\ j = [op |-> "end"]
    BY ONLY <1>5
  <2> HIDE DEF i, j
  <2> QED
    BY ONLY <1>5, <1>6, <2>1, EndEmitted
<1>10. /\ b \in Seq(Instrs) /\ Len(b) = n + 1 /\ b[n + 1] = i /\ \A p \in 1..n : b[p] = code[p]
  BY ONLY <1>5, <1>7, CodeAppend
<1>11. /\ k \in Seq(Instrs) /\ Len(k) = Len(b) + 1 /\ k[Len(b) + 1] = j
       /\ \A p \in 1..Len(b) : k[p] = b[p]
  BY ONLY <1>7, <1>10, CodeAppend
<1>12. \A p \in 1..n : code[p].op = "test" => code[p].to # 0
  <2>1. \A p \in 1..n : code[p].op = "test" /\ code[p].to = 0 =>
                            \E h \in 2..Len(scopes) : scopes[h].test = p
    BY ONLY <1>5 DEF ScopesOK
  <2>2. 2..Len(scopes) = {}
    BY ONLY <1>1
  <2> QED
    BY ONLY <2>1, <2>2
<1>13. ASSUME NEW p \in 1..n, code[p].op \in {"test", "jump"} PROVE code[p].to <= n + 1
  <2>1. FlowAt(code[p], p, n + 1, L, D)
    BY ONLY <1>6, p \in 1..n DEF Flows
  <2>2. code[p].op = "test" => code[p].to # 0
    BY ONLY <1>12, p \in 1..n
  <2>3. code[p].to \in (p + 1)..(n + 1) \/ code[p].to \in 1..(n + 1)
    BY ONLY <1>13, <2>1, <2>2 DEF FlowAt
  <2> QED
    BY ONLY <1>5, <2>3
<1> HIDE DEF b, k, i, j
<1>14. Len(k) = n + 2 /\ k[Len(k)] = j
  BY ONLY <1>5, <1>10, <1>11
<1>15. ASSUME NEW p \in 1..Len(k), k[p].op \in {"test", "jump"}
       PROVE  p \in 1..n /\ k[p] = code[p]
  <2>1. p \in 1..n \/ p = n + 1 \/ p = n + 2
    BY ONLY <1>5, <1>14, p \in 1..Len(k)
  <2>2. n + 1 \in 1..Len(b) /\ \A q \in 1..n : q \in 1..Len(b)
    BY ONLY <1>5, <1>10
  <2>3. k[n + 1] = i /\ k[n + 2] = j
    BY ONLY <1>10, <1>11, <1>14, <2>2
  <2>4. p # n + 1 /\ p # n + 2
    BY ONLY <1>7, <1>15, <2>3
  <2> QED
    BY ONLY <1>10, <1>11, <2>1, <2>2, <2>4
<1>16. \A p \in 1..Len(k) : k[p].op = "test" => k[p].to # 0
  BY ONLY <1>12, <1>15
<1>17. \A p \in 1..Len(k) : k[p].op \in {"test", "jump"} => k[p].to <= Len(k)
  <2>1. ASSUME NEW p \in 1..Len(k), k[p].op \in {"test", "jump"} PROVE k[p].to <= Len(k)
    <3>1. p \in 1..n /\ k[p] = code[p] /\ k[p].to <= n + 1
      BY ONLY <1>13, <1>15, <2>1
    <3>2. k[p].to \in Nat
      <4>1. k[p] \in Instrs /\ k[p].op \in {"test", "jump"}
        BY ONLY <1>11, <2>1
      <4> QED
        BY ONLY <4>1 DEF Instrs
    <3> QED
      BY ONLY <1>5, <1>14, <3>1, <3>2
  <2> QED
    BY ONLY <2>1
<1>18. \E M, E : Complete(k, M, E)
  <2>1. PICK M, E : Flows(k, M, E)
    BY ONLY <1>9
  <2>2. Len(k) > 0 /\ k[Len(k)].op = "end"
    BY ONLY <1>5, <1>7, <1>14
  <2>3. Complete(k, M, E)
    BY ONLY <1>11, <1>16, <1>17, <2>1, <2>2 DEF Complete
  <2> QED
    BY ONLY <2>3
<1>19. /\ counted' = counted /\ counts' = counts /\ context' = context /\ own' = own
       /\ recv' = recv /\ pc' = pc
  BY <1>1 DEF Run
<1>20. TypeInv'
  BY ONLY <1>3, <1>19 DEF TypeInv
<1>21. context.resume = 0
  BY <1>3 DEF NoContext
<1>22. StandsAt' = StandsAt
  BY <1>19, <1>21 DEF StandsAt
<1>23. Idle'
  BY ONLY <1>3, <1>19, <1>22 DEF Idle
<1>24. ~Open'
  BY <1>1 DEF Open
<1>25. Stands'
  BY ONLY <1>3, <1>19 DEF Stands, NoContext
<1>26. \E M, E : Complete(code, M, E)' /\ (Idle' \/ Active(M, E)')
  BY ONLY <1>8, <1>18, <1>23
<1> QED
  BY ONLY <1>20, <1>24, <1>25, <1>26 DEF IInv

-----------------------------------------------------------------------------
(* The caller.                                                              *)

LEMMA ClosedInv ==
    ASSUME IInv, ~Open
    PROVE  TypeInv /\ Stands /\ \E L, D : Complete(code, L, D) /\ (Idle \/ Active(L, D))
  BY DEF IInv

\* A step of the program that runs.
LEMMA RunsOn ==
    ASSUME ~Open, UNCHANGED compiler, TypeInv', Stands', NEW L, NEW D, Complete(code, L, D),
           Idle' \/ Active(L, D)'
    PROVE  IInv'
<1>1. code' = code /\ scopes' = scopes
  BY DEF compiler
<1>2. ~Open' /\ Complete(code, L, D)'
  BY <1>1 DEF Open
<1> QED
  BY ONLY <1>2, TypeInv', Stands', Idle' \/ Active(L, D)' DEF IInv

\* What the context holds, whatever the body.
LEMMA IdleFacts ==
    ASSUME GeneratorAssumption, TypeInv, Idle
    PROVE  /\ counts \in [Objects -> Int] /\ context.fields \in [Fields -> Values]
           /\ context.resume \in Nat /\ own \in Values /\ recv \in Values
           /\ \A o \in Objects : /\ Refs(context.fields, Fields, o) \in Nat
                                 /\ counts[o] = Refs(context.fields, Fields, o)
                                                 + One(own, o) + One(recv, o)
<1>1. context \in Contexts /\ counts \in [Objects -> Int] /\ own \in Values /\ recv \in Values
  BY DEF TypeInv
<1>2. context.fields \in [Fields -> Values] /\ context.resume \in Nat
  BY ONLY <1>1 DEF Contexts
<1>3. \A o \in Objects : Refs(context.fields, Fields, o) \in Nat
  BY GeneratorAssumption, RefsFinite
<1> QED
  BY <1>1, <1>2, <1>3 DEF Idle

LEMMA NilRefs ==
    ASSUME GeneratorAssumption, NEW f, \A x \in Fields : f[x] = Nil, NEW o \in Objects
    PROVE  Refs(f, Fields, o) = 0
<1>1. Refs(f, Fields, o) = Refs(f, {}, o)
  <2>1. Fields \in SUBSET Fields /\ {} \in SUBSET Fields /\ \A x \in Fields \ {} : f[x] = Nil
    OBVIOUS
  <2> QED
    BY ONLY <2>1, GeneratorAssumption, o \in Objects, RefsClear
<1> QED
  BY ONLY <1>1, RefsNone

LEMMA NoContextIs == NoContext \in Contexts /\ NoContext.resume = 0
                     /\ \A f \in Fields : NoContext.fields[f] = Nil
<1>1. Nil \in Values
  BY DEF Values
<1>2. [f \in Fields |-> Nil] \in [Fields -> Values]
  BY ONLY <1>1
<1> QED
  BY <1>2 DEF NoContext, Contexts

\* The steps of the caller that leave it idle.
LEMMA CallerStep ==
    ASSUME GeneratorAssumption, IInv, Calling, UNCHANGED compiler, pc' = pc,
           counts' \in [Objects -> Int], context' \in Contexts, own' \in Values, recv' \in Values,
           ~counted => recv' = Nil, Stands', Clear(context'.fields, StandsAt'),
           \A o \in Objects : counts'[o] = Refs(context'.fields, Fields, o)
                                             + One(own', o) + One(recv', o)
    PROVE  IInv'
<1>1. ~Open /\ pc = 0
  BY DEF Calling
<1>2. TypeInv /\ \E L, D : Complete(code, L, D)
  BY <1>1, ClosedInv
<1>3. counted' = counted
  BY DEF compiler
<1>4. TypeInv'
  BY <1>1, <1>2, <1>3 DEF TypeInv
<1>5. Idle'
  BY <1>1 DEF Idle
<1> QED
  BY ONLY <1>1, <1>2, <1>4, <1>5, UNCHANGED compiler, Stands', RunsOn

\* The generator stands at a yield, or has not been called.
LEMMA CallingIdle ==
    ASSUME IInv, Calling
    PROVE  TypeInv /\ Stands /\ Idle
<1>1. ~Open /\ pc = 0
  BY DEF Calling
<1>2. PICK L, D : TypeInv /\ Stands /\ Complete(code, L, D) /\ (Idle \/ Active(L, D))
  BY <1>1, ClosedInv
<1>3. ~Active(L, D)
  <2>1. pc \notin 1..Len(code)
    BY <1>1
  <2> QED
    BY ONLY <2>1 DEF Active
<1> QED
  BY ONLY <1>2, <1>3

LEMMA CreateStep ==
    ASSUME GeneratorAssumption, IInv, Create
    PROVE  IInv'
<1>1. /\ Calling /\ context = NoContext /\ UNCHANGED <<compiler, own, recv, pc>>
      /\ context' = [resume |-> 1, fields |-> [f \in Fields |-> IF f = Param THEN own ELSE Nil]]
      /\ counts' = Incr(counts, own)
  BY DEF Create
<1>2. TypeInv /\ Idle
  BY ONLY IInv, <1>1, CallingIdle
<1>3. /\ counts \in [Objects -> Int] /\ context.fields \in [Fields -> Values]
      /\ own \in Values /\ recv \in Values
      /\ \A o \in Objects : counts[o] = Refs(context.fields, Fields, o) + One(own, o) + One(recv, o)
  BY ONLY GeneratorAssumption, <1>2, IdleFacts
<1>4. Param \in Fields /\ Nil \in Values
  BY FieldsFinite DEF Values
<1> DEFINE g == [f \in Fields |-> IF f = Param THEN own ELSE Nil]
<1>5. g \in [Fields -> Values] /\ g[Param] = own /\ \A f \in Fields \ {Param} : g[f] = Nil
  BY ONLY <1>3, <1>4
<1>6. context' = [resume |-> 1, fields |-> g]
  BY ONLY <1>1
<1> HIDE DEF g
<1>7. context' \in Contexts /\ context'.resume = 1 /\ context'.fields = g
  BY ONLY <1>5, <1>6 DEF Contexts
<1>8. Stands' /\ StandsAt' = {Param}
  BY ONLY <1>7 DEF Stands, StandsAt
<1>9. Clear(context'.fields, StandsAt')
  BY ONLY <1>5, <1>7, <1>8 DEF Clear
<1>10. /\ counts' \in [Objects -> Int]
       /\ \A o \in Objects : counts'[o] = counts[o] + One(own, o)
  BY ONLY GeneratorAssumption, <1>1, <1>3, IncrIs
<1>11. ASSUME NEW o \in Objects
       PROVE  counts'[o] = Refs(context'.fields, Fields, o) + One(own', o) + One(recv', o)
  <2>1. Refs(context.fields, Fields, o) = 0
    <3>1. \A x \in Fields : context.fields[x] = Nil
      BY ONLY <1>1, NoContextIs
    <3> QED
      BY ONLY GeneratorAssumption, <3>1, o \in Objects, NilRefs
  <2>2. Refs(g, Fields, o) = Refs(g, {Param}, o)
    <3>1. Fields \in SUBSET Fields /\ {Param} \in SUBSET Fields
      BY ONLY <1>4
    <3> QED
      BY ONLY GeneratorAssumption, <1>5, <3>1, o \in Objects, RefsClear
  <2>3. Refs(g, {Param}, o) = One(own, o)
    BY ONLY <1>5, RefsOne
  <2>4. One(own, o) \in Nat /\ One(recv, o) \in Nat
    BY DEF One
  <2>5. own' = own /\ recv' = recv
    BY ONLY <1>1
  <2> QED
    BY ONLY <1>3, <1>7, <1>10, <2>1, <2>2, <2>3, <2>4, <2>5, o \in Objects
<1>12. own' \in Values /\ recv' \in Values /\ (~counted => recv' = Nil) /\ pc' = pc
  BY ONLY <1>1, <1>2, <1>3 DEF TypeInv
<1> QED
  BY ONLY GeneratorAssumption, IInv, <1>1, <1>7, <1>8, <1>9, <1>10, <1>11, <1>12, CallerStep

LEMMA DropStep ==
    ASSUME GeneratorAssumption, IInv, Drop
    PROVE  IInv'
<1>1. /\ Calling /\ counts' = Released(Fields) /\ context' = NoContext
      /\ UNCHANGED <<compiler, own, recv, pc>>
  BY DEF Drop
<1>2. TypeInv /\ Idle
  BY ONLY IInv, <1>1, CallingIdle
<1>3. /\ own \in Values /\ recv \in Values
      /\ \A o \in Objects : /\ Refs(context.fields, Fields, o) \in Nat
                            /\ counts[o] = Refs(context.fields, Fields, o)
                                             + One(own, o) + One(recv, o)
  BY ONLY GeneratorAssumption, <1>2, IdleFacts
<1>4. /\ counts' \in [Objects -> Int]
      /\ \A o \in Objects : counts'[o] = counts[o] - Refs(context.fields, Fields, o)
  <2>1. Fields \in SUBSET Fields
    OBVIOUS
  <2> QED
    BY ONLY GeneratorAssumption, <1>1, <1>2, <2>1, ReleasedIs
<1>5. /\ context' \in Contexts /\ context'.resume = 0
      /\ \A f \in Fields : context'.fields[f] = Nil
  BY ONLY <1>1, NoContextIs
<1>6. Stands' /\ Clear(context'.fields, StandsAt')
  BY ONLY <1>1, <1>5 DEF Stands, Clear
<1>7. ASSUME NEW o \in Objects
      PROVE  counts'[o] = Refs(context'.fields, Fields, o) + One(own', o) + One(recv', o)
  <2>1. Refs(context'.fields, Fields, o) = 0
    BY ONLY GeneratorAssumption, <1>5, o \in Objects, NilRefs
  <2>2. One(own, o) \in Nat /\ One(recv, o) \in Nat
    BY DEF One
  <2>3. own' = own /\ recv' = recv
    BY ONLY <1>1
  <2> QED
    BY ONLY <1>3, <1>4, <2>1, <2>2, <2>3, o \in Objects
<1>8. own' \in Values /\ recv' \in Values /\ (~counted => recv' = Nil) /\ pc' = pc
  BY ONLY <1>1, <1>2, <1>3 DEF TypeInv
<1> QED
  BY ONLY GeneratorAssumption, IInv, <1>1, <1>4, <1>5, <1>6, <1>7, <1>8, CallerStep

\* A variable of the caller gives back its reference.
LEMMA LeaveStep ==
    ASSUME GeneratorAssumption, IInv, Calling, UNCHANGED <<compiler, context, pc>>,
           \/ counts' = Decr(counts, own) /\ own' = Nil /\ recv' = recv
           \/ counts' = Decr(counts, recv) /\ recv' = Nil /\ own' = own
    PROVE  IInv'
<1>1. TypeInv /\ Idle /\ Stands
  BY ONLY IInv, Calling, CallingIdle
<1>2. /\ counts \in [Objects -> Int] /\ own \in Values /\ recv \in Values
      /\ \A o \in Objects : /\ Refs(context.fields, Fields, o) \in Nat
                            /\ counts[o] = Refs(context.fields, Fields, o)
                                             + One(own, o) + One(recv, o)
  BY ONLY GeneratorAssumption, <1>1, IdleFacts
<1>3. Nil \in Values
  BY DEF Values
<1>4. /\ context' = context /\ code' = code /\ pc' = pc
  BY DEF compiler
<1>5. Stands' /\ Clear(context'.fields, StandsAt') /\ context' \in Contexts
  BY ONLY <1>1, <1>4 DEF Stands, StandsAt, Idle, TypeInv
<1>6. \A o \in Objects : One(Nil, o) = 0 /\ One(own, o) \in Nat /\ One(recv, o) \in Nat
  BY FieldsFinite DEF One
<1>7. /\ counts' \in [Objects -> Int] /\ own' \in Values /\ recv' \in Values
      /\ \A o \in Objects : counts'[o] = Refs(context'.fields, Fields, o)
                                             + One(own', o) + One(recv', o)
  <2>1. CASE counts' = Decr(counts, own) /\ own' = Nil /\ recv' = recv
    <3>1. /\ counts' \in [Objects -> Int] /\ \A o \in Objects : counts'[o] = counts[o] - One(own, o)
      BY ONLY GeneratorAssumption, <1>2, <2>1, IncrIs
    <3> QED
      BY ONLY <1>2, <1>3, <1>4, <1>6, <2>1, <3>1
  <2>2. CASE counts' = Decr(counts, recv) /\ recv' = Nil /\ own' = own
    <3>1. /\ counts' \in [Objects -> Int] /\ \A o \in Objects : counts'[o] = counts[o] - One(recv, o)
      BY ONLY GeneratorAssumption, <1>2, <2>2, IncrIs
    <3> QED
      BY ONLY <1>2, <1>3, <1>4, <1>6, <2>2, <3>1
  <2> QED
    BY <2>1, <2>2
<1>8. ~counted => recv' = Nil
  BY <1>1 DEF TypeInv
<1> QED
  BY ONLY GeneratorAssumption, IInv, Calling, UNCHANGED compiler, <1>4, <1>5, <1>7, <1>8,
          CallerStep

\* Where a suspended body goes on, the same variables are in scope.
LEMMA ResumeIs ==
    ASSUME NEW L, NEW D, Complete(code, L, D), Stands, context # NoContext, context \in Contexts
    PROVE  /\ context.resume \in 1..Len(code) /\ context.resume # 0
           /\ L[context.resume] = StandsAt
<1>1. /\ code \in Seq(Instrs) /\ Flows(code, L, D) /\ Len(code) > 0
      /\ code[Len(code)].op = "end" /\ Len(code) \in Nat
  BY DEF Complete
<1>2. L[1] = {Param} /\ \A p \in 1..Len(code) : FlowAt(code[p], p, Len(code) + 1, L, D)
  BY ONLY <1>1 DEF Flows
<1>3. CASE context.resume = 1
  <2>1. 1 \in 1..Len(code)
    BY ONLY <1>1
  <2> QED
    BY ONLY <1>2, <1>3, <2>1 DEF StandsAt
<1>4. CASE context.resume # 1
  <2> DEFINE y == context.resume - 1
  <2>1. y \in 1..Len(code) /\ code[y].op = "yield" /\ context.resume \in Nat
    BY <1>4 DEF Stands, Contexts
  <2>2. context.resume = y + 1
    BY ONLY <2>1
  <2>3. StandsAt = code[y].live
    BY ONLY <1>4, <2>1 DEF StandsAt
  <2> HIDE DEF y
  <2>4. y # Len(code)
    BY ONLY <1>1, <2>1
  <2>5. y + 1 \in 1..Len(code) /\ y + 1 # 0
    BY ONLY <1>1, <2>1, <2>4
  <2>6. code[y].live = L[y] /\ L[y + 1] = L[y]
    BY ONLY <1>2, <2>1 DEF FlowAt
  <2> QED
    BY ONLY <2>2, <2>3, <2>5, <2>6
<1> QED
  BY ONLY <1>3, <1>4

LEMMA CallStep ==
    ASSUME GeneratorAssumption, IInv, Call
    PROVE  IInv'
<1>1. /\ Calling /\ context # NoContext /\ UNCHANGED <<compiler, own, context, recv>>
      /\ counts' = (IF counted THEN Decr(counts, recv) ELSE counts) /\ pc' = context.resume
  BY DEF Call
<1>2. TypeInv /\ Idle /\ Stands /\ ~Open
  BY ONLY IInv, <1>1, CallingIdle DEF Calling
<1>3. PICK L, D : Complete(code, L, D)
  BY ONLY IInv, <1>2, ClosedInv
<1>4. /\ counts \in [Objects -> Int] /\ own \in Values /\ recv \in Values
      /\ \A o \in Objects : /\ Refs(context.fields, Fields, o) \in Nat
                            /\ counts[o] = Refs(context.fields, Fields, o)
                                             + One(own, o) + One(recv, o)
  BY ONLY GeneratorAssumption, <1>2, IdleFacts
<1>5. context \in Contexts /\ counted \in BOOLEAN /\ (~counted => recv = Nil)
  BY ONLY <1>2 DEF TypeInv
<1>6. /\ context.resume \in 1..Len(code) /\ context.resume # 0 /\ L[context.resume] = StandsAt
  BY ONLY <1>1, <1>2, <1>3, <1>5, ResumeIs
<1>7. /\ context' = context /\ code' = code /\ counted' = counted /\ own' = own /\ recv' = recv
  BY ONLY <1>1 DEF compiler
<1>8. Clear(context.fields, StandsAt)
  BY ONLY <1>2 DEF Idle
<1>9. StandsAt \in SUBSET Fields
  <2>1. L \in [1..(Len(code) + 1) -> SUBSET Fields] /\ Len(code) \in Nat
    BY ONLY <1>3 DEF Complete, Flows
  <2>2. context.resume \in 1..(Len(code) + 1)
    BY ONLY <1>6, <2>1
  <2> QED
    BY ONLY <1>6, <2>1, <2>2
<1>10. /\ counts' \in [Objects -> Int]
       /\ \A o \in Objects : counts'[o] = counts[o] - (IF counted THEN One(recv, o) ELSE 0)
  <2>1. CASE counted
    <3>1. /\ counts' \in [Objects -> Int] /\ \A o \in Objects : counts'[o] = counts[o] - One(recv, o)
      BY ONLY GeneratorAssumption, <1>1, <1>4, <2>1, IncrIs
    <3> QED
      BY ONLY <2>1, <3>1
  <2>2. CASE ~counted
    BY ONLY <1>1, <1>4, <2>2
  <2> QED
    BY ONLY <2>1, <2>2
<1>11. ASSUME NEW o \in Objects
       PROVE  counts'[o] = Refs(context.fields, StandsAt, o) + One(own, o)
                             + IF counted THEN 0 ELSE One(recv, o)
  <2>1. Refs(context.fields, Fields, o) = Refs(context.fields, StandsAt, o)
    <3>1. Fields \in SUBSET Fields /\ StandsAt \in SUBSET Fields
          /\ \A x \in Fields \ StandsAt : context.fields[x] = Nil
      BY ONLY <1>8, <1>9 DEF Clear
    <3> QED
      BY ONLY GeneratorAssumption, <3>1, o \in Objects, RefsClear
  <2>2. One(own, o) \in Nat /\ One(recv, o) \in Nat
    BY DEF One
  <2>3. Refs(context.fields, Fields, o) \in Nat
    BY ONLY <1>4, o \in Objects
  <2>4. counts'[o] = counts[o] - (IF counted THEN One(recv, o) ELSE 0)
    BY ONLY <1>10, o \in Objects
  <2>5. counts[o] = Refs(context.fields, Fields, o) + One(own, o) + One(recv, o)
    BY ONLY <1>4, o \in Objects
  <2> QED
    BY ONLY <2>1, <2>2, <2>3, <2>4, <2>5
<1>12. Active(L, D)'
  <2>1. Clear(context.fields, StandsAt \cup D[context.resume])
    BY ONLY <1>8 DEF Clear
  <2> QED
    BY ONLY <1>1, <1>6, <1>7, <1>11, <2>1 DEF Active
<1>13. TypeInv'
  BY ONLY <1>1, <1>4, <1>5, <1>6, <1>7, <1>10 DEF TypeInv, Contexts
<1>14. Stands'
  BY ONLY <1>2, <1>7 DEF Stands
<1>15. UNCHANGED compiler
  BY ONLY <1>1
<1> QED
  BY ONLY <1>2, <1>3, <1>12, <1>13, <1>14, <1>15, RunsOn

-----------------------------------------------------------------------------
(* The body runs.                                                           *)

\* The instruction that runs, and what holds in front of it.
LEMMA ActiveFacts ==
    ASSUME IInv, NEW op, Now(op)
    PROVE  /\ ~Open /\ TypeInv /\ Stands /\ pc \in 1..Len(code) /\ code[pc] \in Instrs
           /\ Len(code) \in Nat /\ code[pc].op = op
           /\ \E L, D : /\ Complete(code, L, D) /\ Active(L, D)
                        /\ L \in [1..(Len(code) + 1) -> SUBSET Fields]
                        /\ D \in [1..(Len(code) + 1) -> SUBSET Fields]
                        /\ FlowAt(code[pc], pc, Len(code) + 1, L, D)
                        /\ op # "end" => pc + 1 \in 1..Len(code)
<1>1. pc # 0 /\ code[pc].op = op
  BY DEF Now
<1>2. ~Open
  BY <1>1 DEF IInv, Idle
<1>3. PICK L, D : TypeInv /\ Stands /\ Complete(code, L, D) /\ (Idle \/ Active(L, D))
  BY <1>2, ClosedInv
<1>4. Active(L, D)
  BY ONLY <1>1, <1>3 DEF Idle
<1>5. pc \in 1..Len(code)
  BY ONLY <1>4 DEF Active
<1>6. /\ code \in Seq(Instrs) /\ Len(code) \in Nat /\ Flows(code, L, D)
      /\ code[Len(code)].op = "end"
  BY ONLY <1>3 DEF Complete
<1>7. /\ L \in [1..(Len(code) + 1) -> SUBSET Fields] /\ D \in [1..(Len(code) + 1) -> SUBSET Fields]
      /\ FlowAt(code[pc], pc, Len(code) + 1, L, D)
  BY ONLY <1>5, <1>6 DEF Flows
<1>8. op # "end" => pc + 1 \in 1..Len(code)
  BY ONLY <1>1, <1>5, <1>6
<1>9. code[pc] \in Instrs
  BY ONLY <1>5, <1>6
<1> QED
  BY ONLY <1>1, <1>2, <1>3, <1>4, <1>5, <1>6, <1>7, <1>8, <1>9

\* The body goes on at q.
LEMMA BodyStep ==
    ASSUME ~Open, TypeInv, Stands, NEW L, NEW D, Complete(code, L, D), Active(L, D),
           UNCHANGED <<compiler, own, recv>>, NEW q, pc' = q, q \in 1..Len(code),
           counts' \in [Objects -> Int], context' \in Contexts, context'.resume = context.resume,
           Clear(context'.fields, L[q] \cup D[q]),
           \A o \in Objects : counts'[o] = Refs(context'.fields, L[q], o) + One(own, o)
                                             + IF counted THEN 0 ELSE One(recv, o)
    PROVE  IInv'
<1>1. /\ code' = code /\ counted' = counted /\ own' = own /\ recv' = recv
  BY DEF compiler
<1>2. context.resume # 0
  BY DEF Active
<1>3. Active(L, D)'
  BY <1>1, <1>2 DEF Active
<1>4. TypeInv'
  BY <1>1 DEF TypeInv
<1>5. Stands'
  <2>1. context # NoContext
    BY <1>2, NoContextIs
  <2> QED
    BY <1>1, <2>1 DEF Stands
<1>6. UNCHANGED compiler
  OBVIOUS
<1> QED
  BY ONLY ~Open, Complete(code, L, D), <1>3, <1>4, <1>5, <1>6, RunsOn

\* What the running body holds.
LEMMA RunFacts ==
    ASSUME TypeInv, NEW L, NEW D, Active(L, D)
    PROVE  /\ counts \in [Objects -> Int] /\ context \in Contexts
           /\ context.fields \in [Fields -> Values] /\ context.resume \in Nat \ {0}
           /\ own \in Values /\ recv \in Values /\ Clear(context.fields, L[pc] \cup D[pc])
           /\ \A o \in Objects : counts[o] = Refs(context.fields, L[pc], o) + One(own, o)
                                             + IF counted THEN 0 ELSE One(recv, o)
<1>1. counts \in [Objects -> Int] /\ context \in Contexts /\ own \in Values /\ recv \in Values
  BY DEF TypeInv
<1>2. context.fields \in [Fields -> Values] /\ context.resume \in Nat
  BY ONLY <1>1 DEF Contexts
<1> QED
  BY <1>1, <1>2 DEF Active

\* Tests and jumps change nothing but the place.
LEMMA GoStep ==
    ASSUME GeneratorAssumption, IInv, Test \/ Jump
    PROVE  IInv'
<1>1. PICK op \in {"test", "jump"} : Now(op)
  BY DEF Test, Jump
<1>2. /\ UNCHANGED <<compiler, own, counts, context, recv>>
      /\ (op = "test" /\ pc' = pc + 1) \/ pc' = code[pc].to
  <2>1. CASE Test
    <3>1. op = "test"
      BY <1>1, <2>1 DEF Test, Now
    <3> QED
      BY <2>1, <3>1 DEF Test, Goto
  <2>2. CASE Jump
    BY <2>2 DEF Jump, Goto
  <2> QED
    BY <2>1, <2>2
<1>3. PICK L, D : /\ ~Open /\ TypeInv /\ Stands /\ pc \in 1..Len(code) /\ code[pc].op = op
                  /\ Complete(code, L, D) /\ Active(L, D)
                  /\ FlowAt(code[pc], pc, Len(code) + 1, L, D) /\ Len(code) \in Nat
                  /\ op # "end" => pc + 1 \in 1..Len(code)
  BY ONLY IInv, <1>1, ActiveFacts
<1>4. /\ counts \in [Objects -> Int] /\ context \in Contexts
      /\ Clear(context.fields, L[pc] \cup D[pc])
      /\ \A o \in Objects : counts[o] = Refs(context.fields, L[pc], o) + One(own, o)
                                             + IF counted THEN 0 ELSE One(recv, o)
  BY ONLY <1>3, RunFacts
<1> DEFINE q == pc'
<1>5. q \in 1..Len(code) /\ L[q] = L[pc] /\ D[pc] \subseteq D[q]
  <2>1. CASE op = "test" /\ pc' = pc + 1
    BY ONLY <1>3, <2>1 DEF FlowAt
  <2>2. CASE pc' = code[pc].to
    <3>1. op = "test" => code[pc].to # 0
      BY ONLY <1>3 DEF Complete
    <3>2. code[pc].to <= Len(code)
      BY ONLY <1>1, <1>3 DEF Complete
    <3>3. /\ L[code[pc].to] = L[pc] /\ D[pc] \subseteq D[code[pc].to]
          /\ code[pc].to \in 1..(Len(code) + 1) \/ code[pc].to \in (pc + 1)..(Len(code) + 1)
      BY ONLY <1>1, <1>3, <3>1 DEF FlowAt
    <3>4. code[pc].to \in 1..Len(code)
      BY ONLY <1>3, <3>2, <3>3
    <3> QED
      BY ONLY <2>2, <3>3, <3>4
  <2> QED
    BY ONLY <1>2, <2>1, <2>2
<1>6. Clear(context.fields, L[q] \cup D[q])
  BY ONLY <1>4, <1>5 DEF Clear
<1>7. counts' = counts /\ context' = context /\ UNCHANGED <<compiler, own, recv>> /\ pc' = q
  BY ONLY <1>2
<1> HIDE DEF q
<1> QED
  BY ONLY <1>3, <1>4, <1>5, <1>6, <1>7, BodyStep

LEMMA StoreNilStep ==
    ASSUME GeneratorAssumption, IInv, StoreNil
    PROVE  IInv'
<1> DEFINE v == code[pc].var
           q == pc + 1
           f == context.fields
           g == [f EXCEPT ![v] = Nil]
<1>1. /\ Now("nil") /\ pc' = q /\ UNCHANGED <<compiler, own, counts, recv>>
      /\ context' = [context EXCEPT !.fields[v] = Nil]
  BY DEF StoreNil, Goto
<1>2. PICK L, D : /\ ~Open /\ TypeInv /\ Stands /\ pc \in 1..Len(code) /\ code[pc].op = "nil"
                  /\ code[pc] \in Instrs /\ Complete(code, L, D) /\ Active(L, D)
                  /\ FlowAt(code[pc], pc, Len(code) + 1, L, D) /\ Len(code) \in Nat
                  /\ L \in [1..(Len(code) + 1) -> SUBSET Fields]
                  /\ "nil" # "end" => pc + 1 \in 1..Len(code)
  BY ONLY IInv, <1>1, ActiveFacts
<1>3. /\ counts \in [Objects -> Int] /\ context \in Contexts /\ f \in [Fields -> Values]
      /\ Clear(f, L[pc] \cup D[pc])
      /\ \A o \in Objects : counts[o] = Refs(f, L[pc], o) + One(own, o)
                                             + IF counted THEN 0 ELSE One(recv, o)
  BY ONLY <1>2, RunFacts
<1>4. v \in Fields
  BY ONLY <1>2, FieldsFinite, GeneratorAssumption DEF Instrs
<1>5. v \notin L[pc] /\ L[pc + 1] = L[pc] \cup {v} /\ D[pc] \ {v} \subseteq D[pc + 1]
  BY ONLY <1>2 DEF FlowAt
<1>6. q \in 1..Len(code) /\ L[q] \in SUBSET Fields /\ L[pc] \in SUBSET Fields
  BY ONLY <1>2
<1>7. L[q] = L[pc] \cup {v} /\ D[pc] \ {v} \subseteq D[q]
  BY ONLY <1>5
<1>8. Nil \in Values
  BY DEF Values
<1>9. /\ g \in [Fields -> Values] /\ g[v] = Nil /\ \A x \in Fields \ {v} : g[x] = f[x]
  BY ONLY <1>3, <1>4, <1>8
<1>10. context' \in Contexts /\ context'.resume = context.resume /\ context'.fields = g
  BY ONLY <1>1, <1>3, <1>9 DEF Contexts
<1> HIDE DEF v, q, f, g
<1>11. Clear(g, L[q] \cup D[q])
  BY ONLY <1>3, <1>7, <1>9 DEF Clear
<1>12. ASSUME NEW o \in Objects PROVE Refs(g, L[q], o) = Refs(f, L[pc], o)
  <2>1. Refs(g, L[q], o) = Refs(g, L[pc], o)
    <3>1. L[pc] \in SUBSET L[q] /\ \A x \in L[q] \ L[pc] : g[x] = Nil
      BY ONLY <1>7, <1>9
    <3> QED
      BY ONLY GeneratorAssumption, <1>6, <3>1, o \in Objects, RefsClear
  <2>2. Holders(g, L[pc], o) = Holders(f, L[pc], o)
    BY ONLY <1>5, <1>6, <1>9 DEF Holders
  <2> QED
    BY ONLY <2>1, <2>2 DEF Refs
<1>13. \A o \in Objects : counts'[o] = Refs(context'.fields, L[q], o) + One(own, o)
                                             + IF counted THEN 0 ELSE One(recv, o)
  <2>1. counts' = counts
    BY ONLY <1>1
  <2> QED
    BY ONLY <1>3, <1>10, <1>12, <2>1
<1>14. counts' \in [Objects -> Int] /\ Clear(context'.fields, L[q] \cup D[q])
       /\ UNCHANGED <<compiler, own, recv>> /\ pc' = q
  BY ONLY <1>1, <1>3, <1>10, <1>11
<1> QED
  BY ONLY <1>2, <1>6, <1>10, <1>13, <1>14, BodyStep

LEMMA StoreStep ==
    ASSUME GeneratorAssumption, IInv, Store
    PROVE  IInv'
<1> DEFINE v == code[pc].var
           q == pc + 1
           f == context.fields
<1>1. /\ Now("store") /\ pc' = q /\ UNCHANGED <<compiler, own, recv>>
  BY DEF Store, Goto
<1>2. PICK w : /\ w \in Objects \/ (code[pc].from # "new" /\ w = f[code[pc].from])
               /\ counts' = Decr(Incr(counts, w), f[v])
               /\ context' = [context EXCEPT !.fields[v] = w]
  <2>1. CASE code[pc].from = "new"
    <3>1. PICK w \in {o \in Objects : counts[o] = 0} :
                 /\ counts' = Decr(Incr(counts, w), f[v])
                 /\ context' = [context EXCEPT !.fields[v] = w]
      BY <2>1 DEF Store
    <3> QED
      BY ONLY <3>1
  <2>2. CASE code[pc].from # "new"
    <3>1. PICK w \in {context.fields[code[pc].from]} :
                 /\ counts' = Decr(Incr(counts, w), f[v])
                 /\ context' = [context EXCEPT !.fields[v] = w]
      BY <2>2 DEF Store
    <3> QED
      BY ONLY <2>2, <3>1
  <2> QED
    BY ONLY <2>1, <2>2
<1>3. PICK L, D : /\ ~Open /\ TypeInv /\ Stands /\ pc \in 1..Len(code) /\ code[pc].op = "store"
                  /\ code[pc] \in Instrs /\ Complete(code, L, D) /\ Active(L, D)
                  /\ FlowAt(code[pc], pc, Len(code) + 1, L, D) /\ Len(code) \in Nat
                  /\ L \in [1..(Len(code) + 1) -> SUBSET Fields]
                  /\ "store" # "end" => pc + 1 \in 1..Len(code)
  BY ONLY IInv, <1>1, ActiveFacts
<1>4. /\ counts \in [Objects -> Int] /\ context \in Contexts /\ f \in [Fields -> Values]
      /\ Clear(f, L[pc] \cup D[pc])
      /\ \A o \in Objects : counts[o] = Refs(f, L[pc], o) + One(own, o)
                                             + IF counted THEN 0 ELSE One(recv, o)
  BY ONLY <1>3, RunFacts
<1>5. /\ v \in L[pc] /\ code[pc].from \in L[pc] \cup {"new"}
      /\ L[pc + 1] = L[pc] /\ D[pc] \subseteq D[pc + 1]
  BY ONLY <1>3 DEF FlowAt
<1>6. q \in 1..Len(code) /\ L[q] = L[pc] /\ D[pc] \subseteq D[q] /\ L[pc] \in SUBSET Fields
  BY ONLY <1>3, <1>5
<1>7. w \in Values
  <2>1. CASE w \in Objects
    BY ONLY <2>1 DEF Values
  <2>2. CASE code[pc].from # "new" /\ w = f[code[pc].from]
    <3>1. code[pc].from \in Fields
      BY ONLY <1>5, <1>6, <2>2
    <3> HIDE DEF f
    <3> QED
      BY ONLY <1>4, <2>2, <3>1
  <2> QED
    BY ONLY <1>2, <2>1, <2>2
<1> DEFINE g == [f EXCEPT ![v] = w]
<1>8. v \in Fields
  BY ONLY <1>5, <1>6
<1>9. g \in [Fields -> Values] /\ \A x \in Fields \ {v} : g[x] = f[x]
  BY ONLY <1>4, <1>7, <1>8
<1>10. context' \in Contexts /\ context'.resume = context.resume /\ context'.fields = g
  BY ONLY <1>2, <1>4, <1>9 DEF Contexts
<1> HIDE DEF f, g, q
<1>11. \A o \in Objects : Refs(g, L[pc], o) = Refs(f, L[pc], o) + One(w, o) - One(f[v], o)
  <2> HIDE DEF v
  <2>1. ASSUME NEW o \in Objects
        PROVE  Refs([f EXCEPT ![v] = w], L[pc], o) = Refs(f, L[pc], o) + One(w, o) - One(f[v], o)
    BY ONLY GeneratorAssumption, <1>4, <1>5, <1>6, <1>7, RefsStore DEF v
  <2> QED
    BY ONLY <2>1 DEF g
<1>12. /\ counts' \in [Objects -> Int]
       /\ \A o \in Objects : counts'[o] = counts[o] + One(w, o) - One(f[v], o)
  <2>1. /\ Incr(counts, w) \in [Objects -> Int]
        /\ \A o \in Objects : Incr(counts, w)[o] = counts[o] + One(w, o)
    BY ONLY GeneratorAssumption, <1>4, <1>7, IncrIs
  <2> DEFINE c == Incr(counts, w)
             z == f[v]
  <2>2. z \in Values
    BY ONLY <1>4, <1>8
  <2>3. c \in [Objects -> Int]
    BY ONLY <2>1
  <2>4. counts' = Decr(c, z)
    BY ONLY <1>2
  <2> HIDE DEF c, z
  <2>5. /\ Decr(c, z) \in [Objects -> Int]
        /\ \A o \in Objects : Decr(c, z)[o] = c[o] - One(z, o)
    BY ONLY GeneratorAssumption, <2>2, <2>3, IncrIs
  <2>6. z = f[v] /\ \A o \in Objects : c[o] = counts[o] + One(w, o)
    BY ONLY <2>1 DEF c, z
  <2>7. ASSUME NEW o \in Objects PROVE counts'[o] = counts[o] + One(w, o) - One(f[v], o)
    <3>1. counts'[o] = c[o] - One(z, o) /\ c[o] = counts[o] + One(w, o)
      BY ONLY <2>4, <2>5, <2>6, o \in Objects
    <3>2. One(w, o) \in Nat /\ One(z, o) \in Nat /\ One(z, o) = One(f[v], o) /\ counts[o] \in Int
      BY ONLY <1>4, <2>6, o \in Objects DEF One
    <3> QED
      BY ONLY <3>1, <3>2
  <2> QED
    BY ONLY <2>4, <2>5, <2>7
<1>13. ASSUME NEW o \in Objects
       PROVE  counts'[o] = Refs(context'.fields, L[q], o) + One(own, o)
                             + IF counted THEN 0 ELSE One(recv, o)
  <2>1. counts[o] = Refs(f, L[pc], o) + One(own, o) + IF counted THEN 0 ELSE One(recv, o)
    BY ONLY <1>4, o \in Objects
  <2>2. counts'[o] = counts[o] + One(w, o) - One(f[v], o)
    BY ONLY <1>12, o \in Objects
  <2>3. Refs(g, L[pc], o) = Refs(f, L[pc], o) + One(w, o) - One(f[v], o)
    BY ONLY <1>11, o \in Objects
  <2>4. Refs(f, L[pc], o) \in Nat
    BY ONLY GeneratorAssumption, <1>6, RefsFinite
  <2>5. One(w, o) \in Nat /\ One(f[v], o) \in Nat /\ One(own, o) \in Nat /\ One(recv, o) \in Nat
    BY DEF One
  <2> QED
    BY ONLY <1>6, <1>10, <2>1, <2>2, <2>3, <2>4, <2>5
<1>14. Clear(context'.fields, L[q] \cup D[q])
  <2>1. \A x \in Fields : x # v => g[x] = f[x]
    BY ONLY <1>9
  <2> QED
    BY ONLY <1>4, <1>5, <1>6, <1>10, <2>1 DEF Clear
<1>15. UNCHANGED <<compiler, own, recv>> /\ pc' = q /\ counts' \in [Objects -> Int]
  BY ONLY <1>1, <1>12
<1> QED
  BY ONLY <1>3, <1>6, <1>10, <1>13, <1>14, <1>15, BodyStep

LEMMA ReleaseStep ==
    ASSUME GeneratorAssumption, IInv, Release
    PROVE  IInv'
<1> DEFINE S == code[pc].vars
           q == pc + 1
           f == context.fields
<1>1. /\ Now("release") /\ pc' = q /\ UNCHANGED <<compiler, own, context, recv>>
      /\ counts' = Released(S)
  BY DEF Release, Goto
<1>2. PICK L, D : /\ ~Open /\ TypeInv /\ Stands /\ pc \in 1..Len(code) /\ code[pc].op = "release"
                  /\ code[pc] \in Instrs /\ Complete(code, L, D) /\ Active(L, D)
                  /\ FlowAt(code[pc], pc, Len(code) + 1, L, D) /\ Len(code) \in Nat
                  /\ L \in [1..(Len(code) + 1) -> SUBSET Fields]
                  /\ "release" # "end" => pc + 1 \in 1..Len(code)
  BY ONLY IInv, <1>1, ActiveFacts
<1>3. /\ counts \in [Objects -> Int] /\ context \in Contexts
      /\ Clear(f, L[pc] \cup D[pc])
      /\ \A o \in Objects : counts[o] = Refs(f, L[pc], o) + One(own, o)
                                             + IF counted THEN 0 ELSE One(recv, o)
  BY ONLY <1>2, RunFacts
<1>4. /\ S \subseteq L[pc] /\ L[q] = L[pc] \ S /\ D[pc] \cup S \subseteq D[q]
  BY ONLY <1>2 DEF FlowAt
<1>5. q \in 1..Len(code) /\ L[pc] \in SUBSET Fields
  BY ONLY <1>2
<1>6. S \in SUBSET Fields /\ S \in SUBSET L[pc] /\ L[pc] \ S \in SUBSET Fields
  BY ONLY <1>4, <1>5
<1> HIDE DEF S, q, f
<1>7. /\ counts' \in [Objects -> Int]
      /\ \A o \in Objects : counts'[o] = counts[o] - Refs(f, S, o)
  BY ONLY GeneratorAssumption, <1>1, <1>2, <1>6, ReleasedIs DEF f
<1>8. ASSUME NEW o \in Objects
      PROVE  counts'[o] = Refs(f, L[q], o) + One(own, o) + IF counted THEN 0 ELSE One(recv, o)
  <2>1. Refs(f, L[pc], o) = Refs(f, L[pc] \ S, o) + Refs(f, S, o)
    BY ONLY GeneratorAssumption, <1>5, <1>6, RefsSplit
  <2>2. Refs(f, L[pc] \ S, o) \in Nat /\ Refs(f, S, o) \in Nat
    BY ONLY GeneratorAssumption, <1>6, RefsFinite
  <2>3. counts[o] = Refs(f, L[pc], o) + One(own, o) + IF counted THEN 0 ELSE One(recv, o)
    BY ONLY <1>3, o \in Objects
  <2>4. One(own, o) \in Nat /\ One(recv, o) \in Nat
    BY DEF One
  <2>5. counts'[o] = counts[o] - Refs(f, S, o)
    BY ONLY <1>7, o \in Objects
  <2>6. Refs(f, L[q], o) = Refs(f, L[pc] \ S, o)
    BY ONLY <1>4
  <2> QED
    BY ONLY <2>1, <2>2, <2>3, <2>4, <2>5, <2>6
<1>9. Clear(f, L[q] \cup D[q])
  BY ONLY <1>3, <1>4 DEF Clear
<1>10. context'.fields = f /\ context' \in Contexts /\ context'.resume = context.resume
  BY ONLY <1>1, <1>3 DEF f
<1>11. UNCHANGED <<compiler, own, recv>> /\ pc' = q /\ Clear(context'.fields, L[q] \cup D[q])
  BY ONLY <1>1, <1>9, <1>10
<1>12. \A o \in Objects : counts'[o] = Refs(context'.fields, L[q], o) + One(own, o)
                             + IF counted THEN 0 ELSE One(recv, o)
  BY ONLY <1>8, <1>10
<1> QED
  BY ONLY <1>2, <1>5, <1>7, <1>10, <1>11, <1>12, BodyStep

\* The steps that give control back to the caller.
LEMMA ReturnStep ==
    ASSUME GeneratorAssumption, ~Open, TypeInv, NEW L, NEW D, Complete(code, L, D),
           UNCHANGED <<compiler, own>>, pc' = 0, counts' \in [Objects -> Int],
           context' \in Contexts, recv' \in Values, ~counted => recv' = Nil,
           Stands', Clear(context'.fields, StandsAt'), NEW S \in SUBSET Fields,
           Clear(context'.fields, S),
           \A o \in Objects : counts'[o] = Refs(context'.fields, S, o) + One(own, o) + One(recv', o)
    PROVE  IInv'
<1>1. counted' = counted /\ own' = own
  BY DEF compiler
<1>2. TypeInv'
  BY <1>1 DEF TypeInv
<1>3. ASSUME NEW o \in Objects PROVE Refs(context'.fields, Fields, o) = Refs(context'.fields, S, o)
  <2>1. /\ Fields \in SUBSET Fields /\ S \in SUBSET Fields
        /\ \A x \in Fields \ S : context'.fields[x] = Nil
    BY DEF Clear
  <2> QED
    BY ONLY GeneratorAssumption, <2>1, o \in Objects, RefsClear
<1>4. Idle'
  <2>1. \A o \in Objects : counts'[o] = Refs(context'.fields, Fields, o) + One(own, o) + One(recv', o)
    BY <1>3
  <2> QED
    BY <1>1, <2>1 DEF Idle
<1>5. UNCHANGED compiler
  OBVIOUS
<1> QED
  BY ONLY ~Open, Complete(code, L, D), Stands', <1>2, <1>4, <1>5, RunsOn

LEMMA YieldToStep ==
    ASSUME GeneratorAssumption, IInv, YieldTo
    PROVE  IInv'
<1> DEFINE f == context.fields
           value == f[code[pc].var]
           S == code[pc].live
<1>1. /\ Now("yield") /\ pc' = 0 /\ UNCHANGED <<compiler, own>>
      /\ context' = [context EXCEPT !.resume = pc + 1]
      /\ \/ counted /\ recv' = value /\ counts' = Incr(counts, value)
         \/ ~counted /\ recv' = recv /\ counts' = counts
  BY DEF YieldTo, Goto
<1>2. PICK L, D : /\ ~Open /\ TypeInv /\ Stands /\ pc \in 1..Len(code) /\ code[pc].op = "yield"
                  /\ code[pc] \in Instrs /\ Complete(code, L, D) /\ Active(L, D)
                  /\ FlowAt(code[pc], pc, Len(code) + 1, L, D) /\ Len(code) \in Nat
                  /\ L \in [1..(Len(code) + 1) -> SUBSET Fields]
                  /\ "yield" # "end" => pc + 1 \in 1..Len(code)
  BY ONLY IInv, <1>1, ActiveFacts
<1>3. /\ counts \in [Objects -> Int] /\ context \in Contexts /\ f \in [Fields -> Values]
      /\ own \in Values /\ recv \in Values /\ Clear(f, L[pc] \cup D[pc])
      /\ \A o \in Objects : counts[o] = Refs(f, L[pc], o) + One(own, o)
                                             + IF counted THEN 0 ELSE One(recv, o)
  BY ONLY <1>2, RunFacts
<1>4. counted \in BOOLEAN /\ (~counted => recv = Nil)
  BY ONLY <1>2 DEF TypeInv
<1>5. S = L[pc] /\ D[pc] = {}
  BY ONLY <1>2 DEF FlowAt
<1>6. S \in SUBSET Fields /\ pc \in Nat /\ pc # 0
  BY ONLY <1>2, <1>5
<1>7. code[pc].var \in Fields
  BY ONLY <1>2, FieldsFinite, GeneratorAssumption DEF Instrs
<1>8. value \in Values
  <2> HIDE DEF f
  <2> QED
    BY ONLY <1>3, <1>7
<1>9. /\ context' \in Contexts /\ context'.resume = pc + 1 /\ context'.fields = f
  BY ONLY <1>1, <1>3, <1>6 DEF Contexts
<1> HIDE DEF f, value, S
<1>10. code' = code
  BY ONLY <1>1 DEF compiler
<1>11. pc + 1 # 0 /\ pc + 1 # 1 /\ (pc + 1) - 1 = pc
  BY ONLY <1>6
<1>12. Stands'
  BY ONLY <1>2, <1>9, <1>10, <1>11 DEF Stands
<1>13. StandsAt' = S
  BY ONLY <1>9, <1>10, <1>11 DEF StandsAt, S
<1>14. Clear(f, S)
  BY ONLY <1>3, <1>5 DEF Clear
<1>15. /\ counts' \in [Objects -> Int] /\ recv' \in Values
       /\ \A o \in Objects : counts'[o] = Refs(f, S, o) + One(own, o) + One(recv', o)
  <2>1. ASSUME NEW o \in Objects
        PROVE  /\ One(value, o) \in Nat /\ One(own, o) \in Nat /\ Refs(f, S, o) \in Nat
               /\ counts[o] = Refs(f, S, o) + One(own, o) + IF counted THEN 0 ELSE One(recv, o)
    <3>1. Refs(f, S, o) \in Nat
      BY ONLY GeneratorAssumption, <1>6, RefsFinite
    <3> QED
      BY ONLY <1>3, <1>5, <3>1, o \in Objects DEF One
  <2>2. CASE counted /\ recv' = value /\ counts' = Incr(counts, value)
    <3>1. /\ counts' \in [Objects -> Int]
          /\ \A o \in Objects : counts'[o] = counts[o] + One(value, o)
      BY ONLY GeneratorAssumption, <1>3, <1>8, <2>2, IncrIs
    <3>2. ASSUME NEW o \in Objects PROVE counts'[o] = Refs(f, S, o) + One(own, o) + One(recv', o)
      <4>1. counts'[o] = counts[o] + One(value, o)
        BY ONLY <3>1, o \in Objects
      <4>2. counts[o] = Refs(f, S, o) + One(own, o) + 0
        BY ONLY <2>1, <2>2, o \in Objects
      <4>3. One(recv', o) = One(value, o)
        BY ONLY <2>2
      <4> QED
        BY ONLY <2>1, <4>1, <4>2, <4>3, o \in Objects
    <3> QED
      BY ONLY <1>8, <2>2, <3>1, <3>2
  <2>3. CASE ~counted /\ recv' = recv /\ counts' = counts
    BY ONLY <1>3, <2>1, <2>3
  <2> QED
    BY ONLY <1>1, <2>2, <2>3
<1>16. ~counted => recv' = Nil
  BY ONLY <1>1, <1>4
<1>17. /\ Clear(context'.fields, StandsAt') /\ Clear(context'.fields, S)
       /\ \A o \in Objects : counts'[o] = Refs(context'.fields, S, o) + One(own, o) + One(recv', o)
  BY ONLY <1>9, <1>13, <1>14, <1>15
<1>18. UNCHANGED <<compiler, own>> /\ pc' = 0
  BY ONLY <1>1
<1> QED
  BY ONLY GeneratorAssumption, <1>2, <1>6, <1>9, <1>12, <1>15, <1>16, <1>17, <1>18, ReturnStep

LEMMA EndStep ==
    ASSUME GeneratorAssumption, IInv, End
    PROVE  IInv'
<1>1. /\ Now("end") /\ pc' = 0 /\ UNCHANGED <<compiler, own, counts, recv>> /\ ~counted
      /\ context' = [context EXCEPT !.fields = NoContext.fields]
  BY DEF End, Goto, GeneratorAssumption
<1>2. PICK L, D : /\ ~Open /\ TypeInv /\ Stands /\ pc \in 1..Len(code) /\ code[pc].op = "end"
                  /\ Complete(code, L, D) /\ Active(L, D)
                  /\ FlowAt(code[pc], pc, Len(code) + 1, L, D)
  BY ONLY IInv, <1>1, ActiveFacts
<1>3. /\ counts \in [Objects -> Int] /\ context \in Contexts
      /\ own \in Values /\ recv \in Values /\ context.resume # 0
      /\ \A o \in Objects : counts[o] = Refs(context.fields, L[pc], o) + One(own, o)
                                             + IF counted THEN 0 ELSE One(recv, o)
  <2>1. context.resume \in Nat \ {0}
    BY ONLY <1>2, RunFacts
  <2> QED
    BY ONLY <1>2, <2>1, RunFacts
<1>4. L[pc] = {}
  BY ONLY <1>2 DEF FlowAt
<1>5. /\ context' \in Contexts /\ context'.resume = context.resume
      /\ \A x \in Fields : context'.fields[x] = Nil
  <2>1. NoContext.fields \in [Fields -> Values] /\ \A x \in Fields : NoContext.fields[x] = Nil
    BY ONLY NoContextIs DEF Contexts
  <2> DEFINE g == NoContext.fields
  <2>2. context' = [context EXCEPT !.fields = g] /\ g \in [Fields -> Values]
        /\ \A x \in Fields : g[x] = Nil
    BY ONLY <1>1, <2>1
  <2> HIDE DEF g
  <2> QED
    BY ONLY <1>3, <2>2 DEF Contexts
<1>6. code' = code /\ counted' = counted /\ recv' = recv
  BY ONLY <1>1 DEF compiler
<1>7. Stands'
  <2>1. context # NoContext
    BY ONLY <1>3, NoContextIs
  <2> QED
    BY ONLY <1>2, <1>5, <1>6, <2>1 DEF Stands
<1>8. {} \in SUBSET Fields /\ Clear(context'.fields, StandsAt') /\ Clear(context'.fields, {})
  BY ONLY <1>5 DEF Clear
<1>9. ASSUME NEW o \in Objects
      PROVE  counts'[o] = Refs(context'.fields, {}, o) + One(own, o) + One(recv', o)
  <2>1. Refs(context.fields, {}, o) = 0 /\ Refs(context'.fields, {}, o) = 0
    BY ONLY RefsNone
  <2>2. counts'[o] = Refs(context.fields, {}, o) + One(own, o) + One(recv, o)
    BY ONLY <1>1, <1>3, <1>4, o \in Objects
  <2> QED
    BY ONLY <1>6, <2>1, <2>2
<1>10. /\ counts' \in [Objects -> Int] /\ recv' \in Values /\ (~counted => recv' = Nil)
       /\ UNCHANGED <<compiler, own>> /\ pc' = 0
  BY ONLY <1>1, <1>2, <1>3 DEF TypeInv
<1> QED
  BY ONLY GeneratorAssumption, <1>2, <1>5, <1>7, <1>8, <1>9, <1>10, ReturnStep

-----------------------------------------------------------------------------
(* The invariant.                                                           *)

LEMMA InitInv ==
    ASSUME GeneratorAssumption, Init
    PROVE  IInv
<1>1. /\ counted \in BOOLEAN /\ code = <<>> /\ left = {}
      /\ scopes = <<[vars |-> {Param}, test |-> 0, loop |-> FALSE]>>
      /\ own \in Objects \cup {Nil} /\ recv = Nil
      /\ counts = [o \in Objects |-> IF o = own THEN 1 ELSE 0]
      /\ context = NoContext /\ pc = 0
  BY DEF Init
<1>2. Param \in Fields
  BY FieldsFinite
<1>3. TypeInv
  <2>1. counts \in [Objects -> Int] /\ own \in Values /\ recv \in Values
    BY ONLY <1>1 DEF Values
  <2> QED
    BY ONLY <1>1, <2>1, NoContextIs DEF TypeInv
<1>4. Idle
  <2>1. \A x \in Fields : context.fields[x] = Nil
    BY ONLY <1>1, NoContextIs
  <2>2. ASSUME NEW o \in Objects
        PROVE  counts[o] = Refs(context.fields, Fields, o) + One(own, o) + One(recv, o)
    <3>1. Refs(context.fields, Fields, o) = 0
      BY ONLY GeneratorAssumption, <2>1, o \in Objects, NilRefs
    <3>2. One(recv, o) = 0 /\ counts[o] = One(own, o) /\ One(own, o) \in Nat
      BY ONLY <1>1, FieldsFinite, GeneratorAssumption, o \in Objects DEF One
    <3> QED
      BY ONLY <3>1, <3>2
  <2> QED
    BY ONLY <1>1, <2>1, <2>2 DEF Idle, Clear
<1> DEFINE r == [vars |-> {Param}, test |-> 0, loop |-> FALSE]
           L == [p \in 1..1 |-> {Param}]
           D == [p \in 1..1 |-> {}]
<1>5. r \in ScopeRecs /\ r.vars = {Param}
  BY ONLY <1>2 DEF ScopeRecs
<1>6. scopes = <<r>>
  BY ONLY <1>1
<1> HIDE DEF r
<1>7. scopes \in Seq(ScopeRecs) /\ Len(scopes) = 1 /\ scopes[1] = r
  BY ONLY <1>5, <1>6
<1>8. code \in Seq(Instrs) /\ Len(code) = 0
  BY ONLY <1>1
<1>9. 2..1 = {} /\ 1..0 = {} /\ \A j \in 1..1 : j = 1
  OBVIOUS
<1>10. /\ L \in [1..1 -> SUBSET Fields] /\ D \in [1..1 -> SUBSET Fields]
       /\ L[1] = {Param} /\ D[1] = {}
  BY ONLY <1>2
<1> HIDE DEF L, D
<1>11. Upto(scopes, 1) = {Param}
  BY ONLY <1>5, <1>7, <1>9 DEF Upto
<1>12. ScopesOK(code, scopes, L)
  BY ONLY <1>7, <1>8, <1>9 DEF ScopesOK
<1>13. 0 + 1 = 1 /\ 1 \in 1..1
  OBVIOUS
<1>14. Flows(code, L, D)
  BY ONLY <1>8, <1>9, <1>10, <1>13 DEF Flows
<1>15. YieldsOK(code, Upto(scopes, 1) \cup left)
  BY ONLY <1>8, <1>9 DEF YieldsOK
<1>16. BodyOK(code, scopes, left, L, D)
  <2>1. left = {} /\ left \in SUBSET Fields /\ \A p \in 1..1 : D[p] = {}
    BY ONLY <1>1, <1>9, <1>10
  <2> QED
    BY ONLY <1>7, <1>8, <1>10, <1>11, <1>12, <1>13, <1>14, <1>15, <2>1 DEF BodyOK
<1>17. Open
  <2>1. Len(<<>>) = 0
    OBVIOUS
  <2> QED
    BY ONLY <1>7, <2>1 DEF Open
<1> QED
  BY ONLY <1>1, <1>3, <1>4, <1>16, <1>17 DEF IInv

LEMMA CompileInv ==
    ASSUME GeneratorAssumption, IInv, Compile
    PROVE  IInv'
<1>1. CASE \E v \in Vars : Declare(v)
  BY ONLY GeneratorAssumption, IInv, <1>1, DeclareStep
<1>2. CASE \E v \in Fields, from \in Fields \cup {"new"} : Assign(v, from)
  BY ONLY GeneratorAssumption, IInv, <1>2, AssignStep
<1>3. CASE \E v \in IF counted THEN InScope ELSE {Param} : Yield(v)
  <2>1. PICK v \in InScope \cup {Param} : Yield(v)
    BY ONLY <1>3
  <2> QED
    BY ONLY GeneratorAssumption, IInv, <2>1, YieldStep
<1>4. CASE \E loop \in BOOLEAN : Block(loop)
  BY ONLY GeneratorAssumption, IInv, <1>4, BlockStep
<1> QED
  BY ONLY Compile, <1>1, <1>2, <1>3, <1>4 DEF Compile

LEMMA NextInv ==
    ASSUME GeneratorAssumption, IInv, [Next]_vars
    PROVE  IInv'
<1> USE GeneratorAssumption, IInv
<1>1. CASE Compile
  BY <1>1, CompileInv
<1>2. CASE EndBlock
  BY <1>2, EndBlockStep
<1>3. CASE EndBody
  BY <1>3, EndBodyStep
<1>4. CASE Create
  BY <1>4, CreateStep
<1>5. CASE Call
  BY <1>5, CallStep
<1>6. CASE Drop
  BY <1>6, DropStep
<1>7. CASE LeaveOwn
  BY <1>7, LeaveStep DEF LeaveOwn
<1>8. CASE LeaveReceiver
  BY <1>8, LeaveStep DEF LeaveReceiver
<1>9. CASE StoreNil
  BY <1>9, StoreNilStep
<1>10. CASE Store
  BY <1>10, StoreStep
<1>11. CASE YieldTo
  BY <1>11, YieldToStep
<1>12. CASE Test
  BY <1>12, GoStep
<1>13. CASE Jump
  BY <1>13, GoStep
<1>14. CASE Release
  BY <1>14, ReleaseStep
<1>15. CASE End
  BY <1>15, EndStep
<1>16. CASE UNCHANGED vars
  <2>1. IInv
    OBVIOUS
  <2> QED
    BY ONLY <1>16, <2>1 DEF vars, IInv, TypeInv, Idle, Active, Stands, StandsAt, Open
<1> QED
  BY ONLY [Next]_vars, <1>1, <1>2, <1>3, <1>4, <1>5, <1>6, <1>7, <1>8, <1>9, <1>10, <1>11,
          <1>12, <1>13, <1>14, <1>15, <1>16 DEF Next

\* The invariant is inductive.
THEOREM Inductive == GeneratorAssumption => (Spec => []IInv)
<1> SUFFICES ASSUME GeneratorAssumption PROVE Spec => []IInv
  OBVIOUS
<1>1. Init => IInv
  BY InitInv
<1>2. IInv /\ [Next]_vars => IInv'
  BY NextInv
<1> QED
  BY <1>1, <1>2, PTL DEF Spec

\* Between two calls the fields that count are the ones in scope.
LEMMA InvCounts ==
    ASSUME GeneratorAssumption, IInv
    PROVE  CountsMatch
<1> SUFFICES ASSUME Calling, NEW o \in Objects
             PROVE  counts[o] = Cardinality({f \in Live : context.fields[f] = o})
                                 + (IF own = o THEN 1 ELSE 0) + (IF recv = o THEN 1 ELSE 0)
  BY DEF CountsMatch
<1>1. TypeInv /\ Stands /\ Idle
  BY CallingIdle
<1>2. /\ \A x \in Objects : counts[x] = Refs(context.fields, Fields, x) + One(own, x) + One(recv, x)
      /\ Clear(context.fields, StandsAt)
  BY ONLY <1>1 DEF Idle
<1>3. StandsAt \in SUBSET Fields
  <2>1. ~Open
    BY DEF Calling
  <2>2. PICK L, D : Complete(code, L, D)
    BY ONLY IInv, <2>1, ClosedInv
  <2>3. CASE context = NoContext
    BY ONLY <2>3, NoContextIs DEF StandsAt
  <2>4. CASE context # NoContext
    <3>1. context \in Contexts
      BY ONLY <1>1 DEF TypeInv
    <3>2. context.resume \in 1..Len(code) /\ L[context.resume] = StandsAt
      BY ONLY <1>1, <2>2, <2>4, <3>1, ResumeIs
    <3>3. L \in [1..(Len(code) + 1) -> SUBSET Fields] /\ Len(code) \in Nat
      BY ONLY <2>2 DEF Complete, Flows
    <3> QED
      BY ONLY <3>2, <3>3
  <2> QED
    BY ONLY <2>3, <2>4
<1>4. Refs(context.fields, Fields, o) = Refs(context.fields, StandsAt, o)
  <2>1. /\ Fields \in SUBSET Fields
        /\ \A x \in Fields \ StandsAt : context.fields[x] = Nil
    BY ONLY <1>2 DEF Clear
  <2> QED
    BY ONLY GeneratorAssumption, <1>3, <2>1, o \in Objects, RefsClear
<1>5. Holders(context.fields, StandsAt, o) = {f \in Live : context.fields[f] = o}
  <2>1. o # Nil
    BY FieldsFinite
  <2> QED
    BY ONLY <2>1 DEF Holders, StandsAt, Live
<1> QED
  BY ONLY <1>2, <1>4, <1>5, o \in Objects DEF Refs, One

\* Whatever the body, and at whatever yield a generator stands when it is
\* called, dropped or left, an object's count is the number of the caller's
\* references to it and of the body's variables in scope at that yield: the
\* destructor of ac_compile_generator_destructor releases what is still held
\* and nothing else.
THEOREM CountsMatchHolds == GeneratorAssumption => (Spec => []CountsMatch)
<1> SUFFICES ASSUME GeneratorAssumption PROVE Spec => []CountsMatch
  OBVIOUS
<1>1. Spec => []IInv
  BY Inductive
<1>2. IInv => CountsMatch
  BY InvCounts
<1> QED
  BY <1>1, <1>2, PTL

=============================================================================
