----------------------------- MODULE ScopesCode -----------------------------
(***************************************************************************)
(* What a sequence of emitted instructions does to the references that are *)
(* held and to the deferments that wait, whatever the values the program   *)
(* computes.  The facts here are about instructions only; ScopesProofs     *)
(* uses them for the code the compiler emits.                              *)
(***************************************************************************)
EXTENDS Scopes, FiniteSetTheorems, SequenceTheorems, WellFoundedInduction, TLAPS

Names == 1..MaxNames

Instrs == [op : {"decl", "rel", "arm", "defer", "goto", "ret"},
           x : 0..MaxNames, v : 0..MaxNames, to : SUBSET Nat]

\* The variables that hold a reference and the deferments that are armed.
States == [own : SUBSET Names, arm : SUBSET Names]
State(o, a) == [own |-> o, arm |-> a]

\* The instruction is safe in s and leads to t.  Where control leaves the
\* block, at a block that expects s (e says what each block expects) or at a
\* return with nothing left to do, what follows is never reached.
Effect(e, ins, s, t) ==
    \/ ins.op = "decl" /\ ins.x \in Names \ s.own /\ t = State(s.own \cup {ins.x}, s.arm)
    \/ ins.op = "rel" /\ ins.x \in s.own /\ t = State(s.own \ {ins.x}, s.arm)
    \/ ins.op = "arm" /\ ins.x \in Names \ s.arm /\ t = State(s.own, s.arm \cup {ins.x})
    \/ /\ ins.op = "defer" /\ ins.x \in s.arm /\ ins.v \in s.own \cup {0}
       /\ t = State(s.own, s.arm \ {ins.x})
    \/ ins.op = "goto" /\ \A b \in ins.to : b \in DOMAIN e /\ e[b] = s
    \/ ins.op = "ret" /\ s.own = {} /\ s.arm = {}

\* The states between the instructions of is, from s to t.
Path(e, is, s, t, st) ==
    /\ st \in [1..(Len(is) + 1) -> States]
    /\ st[1] = s /\ st[Len(is) + 1] = t
    /\ \A i \in 1..Len(is) : Effect(e, is[i], st[i], st[i + 1])

Leads(e, is, s, t) == \E st : Path(e, is, s, t, st)

-----------------------------------------------------------------------------
(* Induction over the natural numbers, for a set of them.                   *)

LEMMA Induction ==
    ASSUME NEW S \in SUBSET Nat, 0 \in S, \A n \in S : n + 1 \in S
    PROVE  S = Nat
<1> SUFFICES ASSUME Nat \ S # {} PROVE FALSE
  OBVIOUS
<1> DEFINE R == OpToRel(<, Nat)
<1>1. IsWellFoundedOn(R, Nat)
  BY NatLessThanWellFounded
<1>2. PICK n \in Nat \ S : \A m \in Nat \ S : <<m, n>> \notin R
  BY <1>1, WFMin
<1>3. n # 0 /\ n - 1 \in Nat
  OBVIOUS
<1>4. <<n - 1, n>> \in R
  BY <1>3 DEF OpToRel
<1>5. n - 1 \in S
  BY <1>2, <1>3, <1>4
<1> QED
  BY <1>5

-----------------------------------------------------------------------------
(* Sequences.                                                               *)

LEMMA Joined ==
    ASSUME NEW S, NEW s \in Seq(S), NEW t \in Seq(S)
    PROVE  /\ s \o t \in Seq(S) /\ Len(s \o t) = Len(s) + Len(t)
           /\ \A j \in 1..Len(s) : (s \o t)[j] = s[j]
           /\ \A j \in 1..Len(t) : (s \o t)[Len(s) + j] = t[j]
  BY ConcatProperties, LenProperties

\* SequencesExt's flattening, by one sequence more.
Flat(seqs, n, f) ==
    f = [i \in 1..n |-> IF i = 1 THEN seqs[i] ELSE f[i - 1] \o seqs[i]]

LEMMA FlatExists ==
    ASSUME NEW seqs
    PROVE  \A n \in Nat : \E f : Flat(seqs, n, f)
<1> DEFINE S == {n \in Nat : \E f : Flat(seqs, n, f)}
<1>1. 0 \in S
  <2> DEFINE f == [i \in 1..0 |-> i]
  <2>1. Flat(seqs, 0, f)
    BY DEF Flat
  <2> QED
    BY <2>1
<1>2. ASSUME NEW n \in S PROVE n + 1 \in S
  <2>1. PICK f : Flat(seqs, n, f)
    OBVIOUS
  <2> DEFINE g == [i \in 1..(n + 1) |-> IF i = n + 1
                                        THEN IF i = 1 THEN seqs[i] ELSE f[i - 1] \o seqs[i]
                                        ELSE f[i]]
  <2>2. \A i \in 1..(n + 1) : g[i] = IF i = 1 THEN seqs[i] ELSE g[i - 1] \o seqs[i]
    <3>1. ASSUME NEW i \in 1..(n + 1)
          PROVE  g[i] = IF i = 1 THEN seqs[i] ELSE g[i - 1] \o seqs[i]
      <4>1. CASE i = n + 1
        <5>1. i # 1 => i - 1 \in 1..(n + 1) /\ i - 1 # n + 1
          BY <4>1
        <5> QED
          BY <4>1, <5>1
      <4>2. CASE i # n + 1
        <5>1. i \in 1..n /\ (i # 1 => i - 1 \in 1..(n + 1) /\ i - 1 # n + 1)
          BY <4>2
        <5>2. f[i] = IF i = 1 THEN seqs[i] ELSE f[i - 1] \o seqs[i]
          BY <2>1, <5>1 DEF Flat
        <5> QED
          BY <4>2, <5>1, <5>2
      <4> QED
        BY <4>1, <4>2
    <3> QED
      BY <3>1
  <2>3. Flat(seqs, n + 1, g)
    <3> DEFINE h == [i \in 1..(n + 1) |-> IF i = 1 THEN seqs[i] ELSE g[i - 1] \o seqs[i]]
    <3>1. DOMAIN g = DOMAIN h /\ g = [i \in DOMAIN g |-> g[i]] /\ h = [i \in DOMAIN h |-> h[i]]
      OBVIOUS
    <3>2. \A i \in 1..(n + 1) : g[i] = h[i]
      BY <2>2
    <3> HIDE DEF g
    <3>3. g = h
      BY <3>1, <3>2
    <3> QED
      BY <3>3 DEF Flat
  <2> HIDE DEF g
  <2> QED
    BY <2>3
<1> HIDE DEF S
<1>3. S = Nat
  <2>1. S \in SUBSET Nat
    BY DEF S
  <2> QED
    BY <1>1, <1>2, <2>1, Induction
<1> QED
  BY <1>3 DEF S

LEMMA FlattenIs ==
    ASSUME NEW S, NEW seqs \in Seq(S), seqs # <<>>
    PROVE  \E f : Flat(seqs, Len(seqs), f) /\ FlattenSeq(seqs) = f[Len(seqs)]
<1> DEFINE f == CHOOSE f : f = [i \in 1..Len(seqs) |->
                                   IF i = 1 THEN seqs[i] ELSE f[i - 1] \o seqs[i]]
<1>1. Len(seqs) \in Nat \ {0}
  BY EmptySeq
<1>2. FlattenSeq(seqs) = f[Len(seqs)]
  BY <1>1 DEF FlattenSeq
<1>3. Flat(seqs, Len(seqs), f)
  BY <1>1, FlatExists DEF Flat
<1> QED
  BY <1>2, <1>3

-----------------------------------------------------------------------------
(* Paths.                                                                   *)

LEMMA StateType ==
    ASSUME NEW o \in SUBSET Names, NEW a \in SUBSET Names
    PROVE  /\ State(o, a) \in States
           /\ State(o, a).own = o /\ State(o, a).arm = a
  BY DEF State, States

LEMMA LeadsNothing ==
    ASSUME NEW e, NEW s \in States
    PROVE  Leads(e, <<>>, s, s)
<1> DEFINE st == [i \in 1..1 |-> s]
<1>1. Path(e, <<>>, s, s, st)
  BY DEF Path
<1> QED
  BY <1>1 DEF Leads

LEMMA LeadsOne ==
    ASSUME NEW e, NEW ins, NEW s \in States, NEW t \in States, Effect(e, ins, s, t)
    PROVE  Leads(e, <<ins>>, s, t)
<1> DEFINE is == <<ins>>
           st == [i \in 1..2 |-> IF i = 1 THEN s ELSE t]
<1>1. Len(is) = 1 /\ is[1] = ins
  OBVIOUS
<1>2. st \in [1..2 -> States] /\ st[1] = s /\ st[2] = t
  OBVIOUS
<1> HIDE DEF is, st
<1>3. \A i \in 1..1 : Effect(e, is[i], st[i], st[i + 1])
  BY <1>1, <1>2
<1>4. Path(e, is, s, t, st)
  BY <1>1, <1>2, <1>3 DEF Path
<1> QED
  BY <1>4 DEF Leads, is

\* One after the other.
LEMMA LeadsOn ==
    ASSUME NEW e, NEW is \in Seq(Instrs), NEW js \in Seq(Instrs), NEW s, NEW t, NEW u,
           Leads(e, is, s, t), Leads(e, js, t, u)
    PROVE  Leads(e, is \o js, s, u)
<1>1. PICK f : Path(e, is, s, t, f)
  BY DEF Leads
<1>2. PICK g : Path(e, js, t, u, g)
  BY DEF Leads
<1> DEFINE ks == is \o js
           m == Len(is)
           n == Len(js)
           st == [i \in 1..(m + n + 1) |-> IF i <= m THEN f[i] ELSE g[i - m]]
<1>3. m \in Nat /\ n \in Nat
  BY LenProperties
<1>4. /\ ks \in Seq(Instrs) /\ Len(ks) = m + n
      /\ \A j \in 1..m : ks[j] = is[j]
      /\ \A j \in 1..n : ks[m + j] = js[j]
  BY Joined
<1>5. /\ f \in [1..(m + 1) -> States] /\ f[1] = s /\ f[m + 1] = t
      /\ \A i \in 1..m : Effect(e, is[i], f[i], f[i + 1])
  BY <1>1 DEF Path
<1>6. /\ g \in [1..(n + 1) -> States] /\ g[1] = t /\ g[n + 1] = u
      /\ \A i \in 1..n : Effect(e, js[i], g[i], g[i + 1])
  BY <1>2 DEF Path
<1> HIDE DEF ks, m, n
<1>7. \A i \in 1..(m + 1) : st[i] = f[i]
  <2>1. ASSUME NEW i \in 1..(m + 1) PROVE st[i] = f[i]
    <3>1. CASE i <= m
      BY <1>3, <3>1
    <3>2. CASE i = m + 1
      <4>1. i - m = 1 /\ ~(i <= m) /\ i \in 1..(m + n + 1)
        BY <1>3, <3>2
      <4> QED
        BY <1>5, <1>6, <3>2, <4>1
    <3> QED
      BY <1>3, <3>1, <3>2
  <2> QED
    BY <2>1
<1>8. \A i \in 1..(n + 1) : st[m + i] = g[i]
  <2>1. ASSUME NEW i \in 1..(n + 1) PROVE st[m + i] = g[i]
    <3>1. m + i \in 1..(m + n + 1) /\ ~(m + i <= m) /\ (m + i) - m = i
      BY <1>3
    <3> QED
      BY <3>1
  <2> QED
    BY <2>1
<1>9. st \in [1..(m + n + 1) -> States]
  <2>1. ASSUME NEW i \in 1..(m + n + 1)
        PROVE  (IF i <= m THEN f[i] ELSE g[i - m]) \in States
    <3>1. i <= m => i \in 1..(m + 1)
      BY <1>3
    <3>2. ~(i <= m) => i - m \in 1..(n + 1)
      BY <1>3
    <3> QED
      BY <1>5, <1>6, <3>1, <3>2
  <2> QED
    BY <2>1
<1> HIDE DEF st
<1>10. ASSUME NEW i \in 1..(m + n) PROVE Effect(e, ks[i], st[i], st[i + 1])
  <2>1. CASE i <= m
    <3>1. i \in 1..m /\ i \in 1..(m + 1) /\ i + 1 \in 1..(m + 1)
      BY <1>3, <2>1
    <3>2. st[i] = f[i] /\ st[i + 1] = f[i + 1] /\ ks[i] = is[i]
      BY <1>4, <1>7, <3>1
    <3>3. Effect(e, is[i], f[i], f[i + 1])
      BY <1>5, <3>1
    <3> QED
      BY <3>2, <3>3
  <2>2. CASE i > m
    <3>1. PICK j \in 1..n : i = m + j
      <4>1. i - m \in 1..n /\ i = m + (i - m)
        BY <1>3, <2>2
      <4> QED
        BY <4>1
    <3>2. j \in 1..(n + 1) /\ j + 1 \in 1..(n + 1) /\ i + 1 = m + (j + 1)
      BY <1>3, <3>1
    <3>3. st[i] = g[j] /\ st[i + 1] = g[j + 1] /\ ks[i] = js[j]
      BY <1>4, <1>8, <3>1, <3>2
    <3>4. Effect(e, js[j], g[j], g[j + 1])
      BY <1>6
    <3> QED
      BY <3>3, <3>4
  <2> QED
    BY <1>3, <2>1, <2>2
<1>11. st[1] = s /\ st[m + n + 1] = u
  <2>1. 1 \in 1..(m + 1) /\ n + 1 \in 1..(n + 1) /\ m + (n + 1) = m + n + 1
    BY <1>3
  <2>2. st[1] = f[1] /\ st[m + (n + 1)] = g[n + 1]
    BY <1>7, <1>8, <2>1
  <2> QED
    BY <1>5, <1>6, <2>1, <2>2
<1>12. Path(e, ks, s, u, st)
  BY <1>4, <1>9, <1>10, <1>11 DEF Path
<1> QED
  BY <1>12 DEF Leads, ks

\* An end of a path is a state.
LEMMA LeadsStates ==
    ASSUME NEW e, NEW is \in Seq(Instrs), NEW s, NEW t, Leads(e, is, s, t)
    PROVE  s \in States /\ t \in States
<1>1. PICK f : Path(e, is, s, t, f)
  BY DEF Leads
<1>2. Len(is) \in Nat
  BY LenProperties
<1>3. 1 \in 1..(Len(is) + 1) /\ Len(is) + 1 \in 1..(Len(is) + 1)
  BY <1>2
<1> QED
  BY <1>1, <1>3 DEF Path

\* Only what the branches expect matters of e.
LEMMA LeadsElsewhere ==
    ASSUME NEW e, NEW d, NEW is \in Seq(Instrs), NEW s, NEW t, Leads(e, is, s, t),
           \A i \in 1..Len(is) : \A b \in is[i].to :
               b \in DOMAIN e => b \in DOMAIN d /\ d[b] = e[b]
    PROVE  Leads(d, is, s, t)
<1>1. PICK f : Path(e, is, s, t, f)
  BY DEF Leads
<1>2. ASSUME NEW i \in 1..Len(is) PROVE Effect(d, is[i], f[i], f[i + 1])
  <2>1. Effect(e, is[i], f[i], f[i + 1])
    BY <1>1 DEF Path
  <2>2. \A b \in is[i].to : b \in DOMAIN e => b \in DOMAIN d /\ d[b] = e[b]
    OBVIOUS
  <2> QED
    BY <2>1, <2>2 DEF Effect
<1>3. Path(d, is, s, t, f)
  BY <1>1, <1>2 DEF Path
<1> QED
  BY <1>3 DEF Leads

-----------------------------------------------------------------------------
(* The callbacks of a scope.                                                *)

\* SetToSeq lists each member of a finite set once.
LEMMA SetToSeqIs ==
    ASSUME NEW R, IsFiniteSet(R)
    PROVE  /\ SetToSeq(R) \in Seq(R) /\ Len(SetToSeq(R)) \in Nat
           /\ \A i, j \in 1..Len(SetToSeq(R)) : SetToSeq(R)[i] = SetToSeq(R)[j] => i = j
           /\ \A r \in R : \E i \in 1..Len(SetToSeq(R)) : SetToSeq(R)[i] = r
<1> DEFINE n == Cardinality(R)
           f == SetToSeq(R)
<1>1. n \in Nat /\ ExistsBijection(1..n, R)
  BY FS_CardinalityType
<1>2. \E g \in [1..n -> R] : IsInjective(g)
  BY <1>1 DEF ExistsBijection, Bijection, Injection
<1>3. f \in [1..n -> R] /\ IsInjective(f)
  BY <1>2 DEF SetToSeq
<1> HIDE DEF n, f
<1>4. f \in Injection(1..n, R)
  BY <1>3 DEF Injection
<1>5. IsFiniteSet(1..n) /\ Cardinality(1..n) = Cardinality(R)
  BY <1>1, FS_Interval DEF n
<1>6. f \in Surjection(1..n, R)
  BY <1>4, <1>5, FS_Injection
<1>7. f \in Seq(R) /\ Len(f) = n
  <2>1. f \in Seq(R)
    BY <1>1, <1>3, SeqDef
  <2>2. DOMAIN f = 1..n /\ DOMAIN f = 1..Len(f) /\ Len(f) \in Nat
    BY <1>3, <2>1, LenProperties
  <2> QED
    BY <1>1, <2>1, <2>2
<1>8. \A i, j \in 1..n : f[i] = f[j] => i = j
  BY <1>3 DEF IsInjective
<1>9. \A r \in R : \E i \in 1..n : f[i] = r
  BY <1>6 DEF Surjection
<1> QED
  BY <1>1, <1>7, <1>8, <1>9 DEF f

LEMMA RelsAre ==
    ASSUME NEW vs \in SUBSET Names
    PROVE  /\ Rels(vs) \in Seq(Instrs) /\ Len(Rels(vs)) \in Nat
           /\ \A i \in 1..Len(Rels(vs)) : \E x \in vs : Rels(vs)[i] = Rel(x)
           /\ \A i, j \in 1..Len(Rels(vs)) : Rels(vs)[i] = Rels(vs)[j] => i = j
           /\ \A x \in vs : \E i \in 1..Len(Rels(vs)) : Rels(vs)[i] = Rel(x)
<1> DEFINE R == {Rel(x) : x \in vs}
           f == [x \in vs |-> Rel(x)]
<1>1. IsFiniteSet(vs)
  <2>1. MaxNames \in Int
    BY ScopesAssumption
  <2>2. IsFiniteSet(Names)
    BY <2>1, FS_Interval DEF Names
  <2> QED
    BY <2>2, FS_Subset
<1>2. f \in Surjection(vs, R)
  BY DEF Surjection
<1>3. IsFiniteSet(R)
  BY <1>1, <1>2, FS_Surjection
<1>4. R \in SUBSET Instrs
  <2>1. ASSUME NEW x \in vs PROVE Rel(x) \in Instrs
    <3>1. x \in 0..MaxNames /\ 0 \in 0..MaxNames
      BY ScopesAssumption DEF Names
    <3> QED
      BY <3>1 DEF Rel, Ins, Instrs
  <2> QED
    BY <2>1
<1> DEFINE g == SetToSeq(R)
<1>5. /\ g \in Seq(R) /\ Len(g) \in Nat
      /\ \A i, j \in 1..Len(g) : g[i] = g[j] => i = j
      /\ \A r \in R : \E i \in 1..Len(g) : g[i] = r
  BY <1>3, SetToSeqIs
<1>6. Rels(vs) = g
  BY DEF Rels
<1> HIDE DEF g
<1>7. g \in Seq(Instrs)
  BY <1>4, <1>5, SeqMonotonic
<1>8. \A i \in 1..Len(g) : g[i] \in R
  BY <1>5, ElementOfSeq
<1> QED
  BY <1>5, <1>6, <1>7, <1>8

LEMMA RelsNothing == Rels({}) = <<>>
<1> DEFINE g == Rels({})
<1>1. g \in Seq(Instrs) /\ \A i \in 1..Len(g) : \E x \in {} : g[i] = Rel(x)
  BY RelsAre
<1> HIDE DEF g
<1>2. Len(g) \in Nat
  BY <1>1, LenProperties
<1>3. Len(g) = 0
  BY <1>1, <1>2
<1>4. g = <<>>
  BY <1>1, <1>3, EmptySeq
<1> QED
  BY <1>4 DEF g

\* Releasing what a scope holds, in whatever order the callbacks come.
LEMMA RelsLead ==
    ASSUME NEW e, NEW vs \in SUBSET Names, NEW o \in SUBSET Names, NEW a \in SUBSET Names,
           vs \subseteq o
    PROVE  Leads(e, Rels(vs), State(o, a), State(o \ vs, a))
<1> DEFINE g == Rels(vs)
           n == Len(g)
           gone(k) == {x \in vs : \E j \in 1..(k - 1) : g[j] = Rel(x)}
           st == [k \in 1..(n + 1) |-> State(o \ gone(k), a)]
<1>1. /\ n \in Nat
      /\ \A i \in 1..n : \E x \in vs : g[i] = Rel(x)
      /\ \A i, j \in 1..n : g[i] = g[j] => i = j
      /\ \A x \in vs : \E i \in 1..n : g[i] = Rel(x)
  BY RelsAre
<1> HIDE DEF g, n
<1>2. \A k \in 1..(n + 1) : gone(k) \in SUBSET vs /\ o \ gone(k) \in SUBSET Names
  OBVIOUS
<1>3. gone(1) = {} /\ gone(n + 1) = vs
  BY <1>1
<1>4. ASSUME NEW k \in 1..n
      PROVE  \E x \in vs : g[k] = Rel(x) /\ x \notin gone(k) /\ gone(k + 1) = gone(k) \cup {x}
  <2>1. PICK x \in vs : g[k] = Rel(x)
    BY <1>1
  <2>2. \A y : Rel(y) = Rel(x) => y = x
    BY DEF Rel, Ins
  <2>3. x \notin gone(k)
    <3>1. ASSUME NEW j \in 1..(k - 1), g[j] = Rel(x) PROVE FALSE
      <4>1. j \in 1..n /\ j # k
        BY <1>1
      <4> QED
        BY <1>1, <2>1, <3>1, <4>1
    <3> QED
      BY <3>1
  <2>4. ASSUME NEW y \in gone(k + 1) PROVE y \in gone(k) \cup {x}
    <3>1. PICK j \in 1..k : g[j] = Rel(y)
      BY <1>1
    <3>2. CASE j = k
      BY <2>1, <2>2, <3>1, <3>2
    <3>3. CASE j # k
      <4>1. j \in 1..(k - 1)
        BY <1>1, <3>3
      <4> QED
        BY <3>1, <4>1
    <3> QED
      BY <3>2, <3>3
  <2>5. ASSUME NEW y \in gone(k) PROVE y \in gone(k + 1)
    <3>1. PICK j \in 1..(k - 1) : g[j] = Rel(y)
      OBVIOUS
    <3>2. j \in 1..((k + 1) - 1)
      BY <1>1
    <3> QED
      BY <3>1, <3>2
  <2>6. x \in gone(k + 1)
    <3>1. k \in 1..((k + 1) - 1)
      BY <1>1
    <3> QED
      BY <2>1, <3>1
  <2> QED
    BY <2>1, <2>3, <2>4, <2>5, <2>6
<1> HIDE DEF gone
<1>5. st \in [1..(n + 1) -> States]
  <2>1. \A k \in 1..(n + 1) : State(o \ gone(k), a) \in States
    BY <1>2, StateType
  <2> QED
    BY <2>1
<1>6. \A k \in 1..(n + 1) : st[k] = State(o \ gone(k), a)
  OBVIOUS
<1> HIDE DEF st
<1>7. ASSUME NEW k \in 1..n PROVE Effect(e, g[k], st[k], st[k + 1])
  <2>1. PICK x \in vs : g[k] = Rel(x) /\ x \notin gone(k) /\ gone(k + 1) = gone(k) \cup {x}
    BY <1>4
  <2>2. k \in 1..(n + 1) /\ k + 1 \in 1..(n + 1)
    BY <1>1
  <2>3. st[k] = State(o \ gone(k), a) /\ st[k + 1] = State(o \ gone(k + 1), a)
    BY <1>6, <2>2
  <2>4. st[k].own = o \ gone(k) /\ st[k].arm = a
    BY <1>2, <2>2, <2>3, StateType
  <2>5. o \ gone(k + 1) = st[k].own \ {x} /\ x \in st[k].own
    BY <2>1, <2>4
  <2>6. g[k].op = "rel" /\ g[k].x = x
    BY <2>1 DEF Rel, Ins
  <2> QED
    BY <2>3, <2>4, <2>5, <2>6 DEF Effect
<1>8. st[1] = State(o, a) /\ st[n + 1] = State(o \ vs, a)
  <2>1. 1 \in 1..(n + 1) /\ n + 1 \in 1..(n + 1)
    BY <1>1
  <2>2. o \ gone(1) = o
    BY <1>3
  <2> QED
    BY <1>3, <1>6, <2>1, <2>2
<1>9. Path(e, g, State(o, a), State(o \ vs, a), st)
  BY <1>5, <1>7, <1>8 DEF Path, n
<1> QED
  BY <1>9 DEF Leads, g

\* Instructions that stay in their block.
Plain == {ins \in Instrs : ins.to = {}}

LEMMA RelsPlain ==
    ASSUME NEW vs \in SUBSET Names
    PROVE  Rels(vs) \in Seq(Plain)
<1> DEFINE g == Rels(vs)
<1>1. g \in Seq(Instrs) /\ \A i \in 1..Len(g) : \E x \in vs : g[i] = Rel(x)
  BY RelsAre
<1> HIDE DEF g
<1>2. Len(g) \in Nat /\ g \in [1..Len(g) -> Instrs]
  BY <1>1, LenProperties
<1>3. \A i \in 1..Len(g) : g[i] \in Plain
  <2>1. \A x : Rel(x).to = {}
    BY DEF Rel, Ins
  <2> QED
    BY <1>1, <1>2, <2>1 DEF Plain
<1>4. g \in [1..Len(g) -> Plain]
  BY <1>2, <1>3
<1>5. g \in Seq(Plain)
  BY <1>2, <1>4, SeqDef
<1> QED
  BY <1>5 DEF g

\* A walk over the scopes: what each of them emits, one after the other.
LEMMA FlattenLeads ==
    ASSUME NEW e, NEW P \in SUBSET Instrs, NEW F \in Seq(Seq(P)),
           NEW S \in [0..Len(F) -> States],
           \A i \in 1..Len(F) : Leads(e, F[i], S[i - 1], S[i])
    PROVE  FlattenSeq(F) \in Seq(P) /\ Leads(e, FlattenSeq(F), S[0], S[Len(F)])
<1>1. Len(F) \in Nat
  BY LenProperties
<1>2. CASE F = <<>>
  <2>1. FlattenSeq(F) = <<>> /\ Len(F) = 0
    BY <1>2 DEF FlattenSeq
  <2>2. S[0] \in States
    BY <1>1
  <2>3. Leads(e, <<>>, S[0], S[0])
    BY <2>2, LeadsNothing
  <2> QED
    BY <2>1, <2>3
<1>3. CASE F # <<>>
  <2> DEFINE n == Len(F)
  <2>1. PICK f : Flat(F, n, f) /\ FlattenSeq(F) = f[n]
    BY <1>3, FlattenIs
  <2>2. n \in Nat \ {0}
    BY <1>3, EmptySeq
  <2>3. \A i \in 1..n : F[i] \in Seq(P)
    BY ElementOfSeq
  <2>4. \A i \in 1..n : f[i] = IF i = 1 THEN F[i] ELSE f[i - 1] \o F[i]
    BY <2>1 DEF Flat
  <2> HIDE DEF n
  <2> DEFINE Z == {k \in Nat : k + 1 <= n =>
                      f[k + 1] \in Seq(P) /\ Leads(e, f[k + 1], S[0], S[k + 1])}
  <2>5. 0 \in Z
    <3>1. f[1] = F[1] /\ F[1] \in Seq(P)
      BY <2>2, <2>3, <2>4
    <3>2. Leads(e, F[1], S[1 - 1], S[1])
      BY <2>2 DEF n
    <3> QED
      BY <3>1, <3>2
  <2>6. ASSUME NEW k \in Z PROVE k + 1 \in Z
    <3> SUFFICES ASSUME (k + 1) + 1 <= n
                 PROVE  /\ f[(k + 1) + 1] \in Seq(P)
                        /\ Leads(e, f[(k + 1) + 1], S[0], S[(k + 1) + 1])
      OBVIOUS
    <3> DEFINE m == k + 1
    <3>1. m \in Nat /\ m <= n /\ m + 1 \in 1..n /\ m + 1 # 1 /\ (m + 1) - 1 = m
      BY <2>2
    <3>2. f[m] \in Seq(P) /\ Leads(e, f[m], S[0], S[m])
      BY <3>1
    <3> HIDE DEF m
    <3>3. f[m + 1] = f[m] \o F[m + 1] /\ F[m + 1] \in Seq(P)
      BY <2>3, <2>4, <3>1
    <3>4. Leads(e, F[m + 1], S[m], S[m + 1])
      BY <3>1 DEF n
    <3>5. f[m] \in Seq(Instrs) /\ F[m + 1] \in Seq(Instrs)
      BY <3>2, <3>3, SeqMonotonic
    <3>6. Leads(e, f[m] \o F[m + 1], S[0], S[m + 1])
      BY <3>2, <3>4, <3>5, LeadsOn
    <3>7. f[m] \o F[m + 1] \in Seq(P)
      BY <3>2, <3>3, Joined
    <3> QED
      BY <3>3, <3>6, <3>7 DEF m
  <2> HIDE DEF Z
  <2>7. Z = Nat
    <3>1. Z \in SUBSET Nat
      BY DEF Z
    <3> QED
      BY <2>5, <2>6, <3>1, Induction
  <2>8. n - 1 \in Z /\ (n - 1) + 1 = n
    BY <2>2, <2>7
  <2>9. f[n] \in Seq(P) /\ Leads(e, f[n], S[0], S[n])
    BY <2>2, <2>8 DEF Z
  <2> QED
    BY <2>1, <2>9 DEF n
<1> QED
  BY <1>2, <1>3

-----------------------------------------------------------------------------
(* A stack of scopes.                                                       *)

ScopeRecs == [id : Nat, vs : SUBSET Names, defers : Seq([x : Names, v : 0..MaxNames])]

\* What the scopes up to depth d hold, and the deferments they wait for.
Vs(sc, d) == UNION {sc[k].vs : k \in 1..d}
Ds(sc, d) == {x \in Names : \E k \in 1..d : \E i \in DOMAIN sc[k].defers : sc[k].defers[i].x = x}

\* A name is in one scope, and a deferred block uses what is in scope where
\* it was deferred.
ScopesOK(sc) ==
    /\ sc \in Seq(ScopeRecs)
    /\ \A d \in 1..Len(sc) : Len(sc[d].defers) <= 1
    /\ \A d, k \in 1..Len(sc) : d # k => sc[d].vs \cap sc[k].vs = {}
    /\ \A d, k \in 1..Len(sc) : d # k =>
          \A i \in DOMAIN sc[d].defers, j \in DOMAIN sc[k].defers :
              sc[d].defers[i].x # sc[k].defers[j].x
    /\ \A d \in 1..Len(sc) : \A i \in DOMAIN sc[d].defers :
          sc[d].defers[i].v \in {0} \cup Vs(sc, d)

LEMMA ScopeType ==
    ASSUME NEW sc, ScopesOK(sc), NEW d \in 1..Len(sc)
    PROVE  /\ sc[d].id \in Nat /\ sc[d].vs \in SUBSET Names
           /\ sc[d].defers \in Seq([x : Names, v : 0..MaxNames])
           /\ Len(sc[d].defers) \in 0..1 /\ DOMAIN sc[d].defers = 1..Len(sc[d].defers)
<1>1. sc[d] \in ScopeRecs
  BY ElementOfSeq DEF ScopesOK
<1>2. sc[d].id \in Nat /\ sc[d].vs \in SUBSET Names /\ sc[d].defers \in Seq([x : Names, v : 0..MaxNames])
  BY <1>1 DEF ScopeRecs
<1>3. Len(sc[d].defers) \in Nat /\ DOMAIN sc[d].defers = 1..Len(sc[d].defers)
  BY <1>2, LenProperties
<1>4. Len(sc[d].defers) <= 1
  BY DEF ScopesOK
<1>5. Len(sc[d].defers) \in 0..1
  <2>1. \A n \in Nat : n <= 1 => n \in 0..1
    OBVIOUS
  <2> QED
    BY <1>3, <1>4, <2>1
<1> QED
  BY <1>2, <1>3, <1>5

LEMMA ScopesLen ==
    ASSUME NEW sc, ScopesOK(sc)
    PROVE  Len(sc) \in Nat /\ DOMAIN sc = 1..Len(sc)
  BY LenProperties DEF ScopesOK

LEMMA VsStep ==
    ASSUME NEW sc, ScopesOK(sc), NEW d \in 1..Len(sc)
    PROVE  /\ Vs(sc, d) = Vs(sc, d - 1) \cup sc[d].vs
           /\ Vs(sc, d - 1) \cap sc[d].vs = {}
<1>1. Len(sc) \in Nat
  BY ScopesLen
<1>2. \A k : k \in 1..d <=> k \in 1..(d - 1) \/ k = d
  BY <1>1
<1>3. Vs(sc, d) = Vs(sc, d - 1) \cup sc[d].vs
  BY <1>2 DEF Vs
<1>4. ASSUME NEW k \in 1..(d - 1) PROVE sc[k].vs \cap sc[d].vs = {}
  <2>1. k \in 1..Len(sc) /\ k # d
    BY <1>1
  <2> QED
    BY <2>1 DEF ScopesOK
<1>5. Vs(sc, d - 1) \cap sc[d].vs = {}
  BY <1>4 DEF Vs
<1> QED
  BY <1>3, <1>5

LEMMA VsType ==
    ASSUME NEW sc, ScopesOK(sc), NEW d \in 0..Len(sc)
    PROVE  Vs(sc, d) \in SUBSET Names /\ Ds(sc, d) \in SUBSET Names
<1>1. Len(sc) \in Nat
  BY ScopesLen
<1>2. \A k \in 1..d : sc[k].vs \in SUBSET Names
  <2>1. ASSUME NEW k \in 1..d PROVE sc[k].vs \in SUBSET Names
    <3>1. k \in 1..Len(sc)
      BY <1>1
    <3> QED
      BY <3>1, ScopeType
  <2> QED
    BY <2>1
<1> QED
  BY <1>2 DEF Vs, Ds

LEMMA VsMonotonic ==
    ASSUME NEW sc, ScopesOK(sc), NEW c \in 0..Len(sc), NEW d \in c..Len(sc)
    PROVE  Vs(sc, c) \subseteq Vs(sc, d)
<1>1. \A k \in 1..c : k \in 1..d
  BY ScopesLen
<1> QED
  BY <1>1 DEF Vs

LEMMA DsNone ==
    ASSUME NEW sc, ScopesOK(sc), NEW d \in 1..Len(sc), sc[d].defers = <<>>
    PROVE  Ds(sc, d) = Ds(sc, d - 1)
<1>1. Len(sc) \in Nat
  BY ScopesLen
<1>2. \A k : k \in 1..d <=> k \in 1..(d - 1) \/ k = d
  BY <1>1
<1>3. DOMAIN sc[d].defers = {}
  <2>1. Len(sc[d].defers) = 0 /\ DOMAIN sc[d].defers = 1..Len(sc[d].defers)
    BY ScopeType
  <2> QED
    BY <2>1
<1> QED
  BY <1>2, <1>3 DEF Ds

LEMMA DsOne ==
    ASSUME NEW sc, ScopesOK(sc), NEW d \in 1..Len(sc), sc[d].defers # <<>>
    PROVE  /\ Len(sc[d].defers) = 1
           /\ Ds(sc, d) = Ds(sc, d - 1) \cup {sc[d].defers[1].x}
           /\ sc[d].defers[1].x \in Names \ Ds(sc, d - 1)
           /\ sc[d].defers[1].v \in 0..MaxNames /\ sc[d].defers[1].v \in {0} \cup Vs(sc, d)
<1>1. Len(sc) \in Nat
  BY ScopesLen
<1>2. \A k : k \in 1..d <=> k \in 1..(d - 1) \/ k = d
  BY <1>1
<1>3. Len(sc[d].defers) = 1 /\ DOMAIN sc[d].defers = {1}
  <2>1. /\ Len(sc[d].defers) \in 0..1 /\ DOMAIN sc[d].defers = 1..Len(sc[d].defers)
        /\ sc[d].defers \in Seq([x : Names, v : 0..MaxNames])
    BY ScopeType
  <2>2. Len(sc[d].defers) # 0
    BY <2>1, EmptySeq
  <2>3. Len(sc[d].defers) = 1
    BY <2>1, <2>2
  <2>4. 1..1 = {1}
    OBVIOUS
  <2> QED
    BY <2>1, <2>3, <2>4
<1>4. sc[d].defers[1] \in [x : Names, v : 0..MaxNames]
  <2>1. sc[d].defers \in Seq([x : Names, v : 0..MaxNames]) /\ 1 \in 1..Len(sc[d].defers)
    BY <1>3, ScopeType
  <2> QED
    BY <2>1, ElementOfSeq
<1>5. sc[d].defers[1].x \in Names /\ sc[d].defers[1].v \in 0..MaxNames
  BY <1>4
<1>6. sc[d].defers[1].v \in {0} \cup Vs(sc, d)
  BY <1>3 DEF ScopesOK
<1>7. Ds(sc, d) = Ds(sc, d - 1) \cup {sc[d].defers[1].x}
  BY <1>2, <1>3, <1>5 DEF Ds
<1>8. ASSUME NEW k \in 1..(d - 1), NEW i \in DOMAIN sc[k].defers
      PROVE  sc[k].defers[i].x # sc[d].defers[1].x
  <2>1. k \in 1..Len(sc) /\ k # d
    BY <1>1
  <2> QED
    BY <1>3, <2>1 DEF ScopesOK
<1>9. sc[d].defers[1].x \notin Ds(sc, d - 1)
  BY <1>8 DEF Ds
<1> QED
  BY <1>3, <1>5, <1>6, <1>7, <1>9

-----------------------------------------------------------------------------
(* What a scope emits at its end.                                           *)

LEMMA PlainOne ==
    ASSUME NEW ins \in Plain
    PROVE  <<ins>> \in Seq(Plain) /\ Len(<<ins>>) = 1 /\ <<ins>>[1] = ins
  OBVIOUS

LEMMA DefermentsAre ==
    ASSUME NEW sc, ScopesOK(sc), NEW d \in 1..Len(sc)
    PROVE  /\ sc[d].defers = <<>> => Deferments(sc[d]) = <<>>
           /\ sc[d].defers # <<>> =>
                 Deferments(sc[d]) = <<Ins("defer", sc[d].defers[1].x, sc[d].defers[1].v)>>
           /\ Deferments(sc[d]) \in Seq(Plain)
<1> DEFINE ds == sc[d].defers
<1>1. CASE ds = <<>>
  <2>1. Len(ds) = 0
    BY <1>1
  <2>2. Deferments(sc[d]) = [i \in 1..0 |-> Ins("defer", ds[Len(ds) - i + 1].x, ds[Len(ds) - i + 1].v)]
    BY <2>1 DEF Deferments
  <2>3. Deferments(sc[d]) = <<>>
    BY <2>2
  <2> QED
    BY <1>1, <2>3
<1>2. CASE ds # <<>>
  <2>1. Len(ds) = 1 /\ ds[1].x \in Names /\ ds[1].v \in 0..MaxNames
    BY <1>2, DsOne
  <2> DEFINE in == Ins("defer", ds[1].x, ds[1].v)
             g == [i \in 1..1 |-> Ins("defer", ds[1 - i + 1].x, ds[1 - i + 1].v)]
  <2>2. Deferments(sc[d]) = g
    BY <2>1 DEF Deferments
  <2>3. in \in Plain
    <3>1. ds[1].x \in 0..MaxNames
      BY <2>1 DEF Names
    <3> QED
      BY <2>1, <3>1 DEF Plain, Instrs, Ins
  <2>4. g = [i \in 1..1 |-> in]
    <3>1. \A i \in 1..1 : 1 - i + 1 = 1
      OBVIOUS
    <3> QED
      BY <3>1
  <2> HIDE DEF in
  <2>5. [i \in 1..1 |-> in] = <<in>>
    OBVIOUS
  <2>6. Deferments(sc[d]) = <<in>> /\ <<in>> \in Seq(Plain)
    BY <2>2, <2>3, <2>4, <2>5, PlainOne
  <2> QED
    BY <1>2, <2>6 DEF in
<1> QED
  BY <1>1, <1>2

LEMMA DefermentsLead ==
    ASSUME NEW e, NEW sc, ScopesOK(sc), NEW d \in 1..Len(sc),
           NEW o \in SUBSET Names, Vs(sc, d) \subseteq o
    PROVE  Leads(e, Deferments(sc[d]), State(o, Ds(sc, d)), State(o, Ds(sc, d - 1)))
<1>1. d \in 0..Len(sc) /\ d - 1 \in 0..Len(sc)
  BY ScopesLen
<1>2. Ds(sc, d) \in SUBSET Names /\ Ds(sc, d - 1) \in SUBSET Names
  BY <1>1, VsType
<1>3. State(o, Ds(sc, d)) \in States /\ State(o, Ds(sc, d - 1)) \in States
  BY <1>2, StateType
<1>4. CASE sc[d].defers = <<>>
  <2>1. Deferments(sc[d]) = <<>> /\ Ds(sc, d) = Ds(sc, d - 1)
    BY <1>4, DefermentsAre, DsNone
  <2> QED
    BY <1>3, <2>1, LeadsNothing
<1>5. CASE sc[d].defers # <<>>
  <2> DEFINE x == sc[d].defers[1].x
             v == sc[d].defers[1].v
             in == Ins("defer", x, v)
  <2>1. /\ Ds(sc, d) = Ds(sc, d - 1) \cup {x} /\ x \notin Ds(sc, d - 1)
        /\ v \in {0} \cup Vs(sc, d)
    BY <1>5, DsOne
  <2>2. Deferments(sc[d]) = <<in>>
    BY <1>5, DefermentsAre
  <2>3. in.op = "defer" /\ in.x = x /\ in.v = v
    BY DEF Ins
  <2> HIDE DEF in, x, v
  <2>4. Effect(e, in, State(o, Ds(sc, d)), State(o, Ds(sc, d - 1)))
    <3>1. Ds(sc, d - 1) = Ds(sc, d) \ {x} /\ x \in Ds(sc, d) /\ v \in o \cup {0}
      BY <2>1
    <3>2. State(o, Ds(sc, d)).own = o /\ State(o, Ds(sc, d)).arm = Ds(sc, d)
      BY <1>2, StateType
    <3> QED
      BY <2>3, <3>1, <3>2 DEF Effect
  <2> QED
    BY <1>3, <2>2, <2>4, LeadsOne
<1> QED
  BY <1>4, <1>5

LEMMA CallbacksLead ==
    ASSUME NEW e, NEW sc, ScopesOK(sc), NEW d \in 1..Len(sc),
           NEW g \in SUBSET Names, g \cap sc[d].vs = {}, NEW a \in SUBSET Names
    PROVE  /\ Callbacks(sc[d]) \in Seq(Plain)
           /\ Leads(e, Callbacks(sc[d]), State(Vs(sc, d) \cup g, a), State(Vs(sc, d - 1) \cup g, a))
<1>1. d \in 0..Len(sc)
  BY ScopesLen
<1>2. Vs(sc, d) \in SUBSET Names /\ sc[d].vs \in SUBSET Names
  BY <1>1, VsType, ScopeType
<1>3. sc[d].vs \subseteq Vs(sc, d) \cup g /\ (Vs(sc, d) \cup g) \ sc[d].vs = Vs(sc, d - 1) \cup g
  BY VsStep
<1>4. Leads(e, Rels(sc[d].vs), State(Vs(sc, d) \cup g, a), State((Vs(sc, d) \cup g) \ sc[d].vs, a))
  BY <1>2, <1>3, RelsLead
<1> QED
  BY <1>2, <1>3, <1>4, RelsPlain DEF Callbacks

LEMMA DefermentsWalk ==
    ASSUME NEW e, ScopesOK(scopes), NEW d \in 1..Len(scopes),
           NEW o \in SUBSET Names, Vs(scopes, Len(scopes)) \subseteq o
    PROVE  /\ DefermentsThrough(d) \in Seq(Plain)
           /\ Leads(e, DefermentsThrough(d), State(o, Ds(scopes, Len(scopes))),
                       State(o, Ds(scopes, d - 1)))
<1> DEFINE n == Len(scopes)
           m == n - d + 1
           F == [i \in 1..m |-> Deferments(scopes[n - i + 1])]
           S == [i \in 0..m |-> State(o, Ds(scopes, n - i))]
<1>1. n \in Nat /\ m \in Nat /\ d <= n
  BY ScopesLen
<1> HIDE DEF n, m
<1>2. \A i \in 1..m : n - i + 1 \in 1..n /\ (n - i + 1) - 1 = n - i /\ n - (i - 1) = n - i + 1
  BY <1>1 DEF m
<1>3. \A i \in 0..m : n - i \in 0..n
  BY <1>1 DEF m
<1>4. F \in Seq(Seq(Plain)) /\ Len(F) = m
  <2>1. \A i \in 1..m : Deferments(scopes[n - i + 1]) \in Seq(Plain)
    BY <1>2, DefermentsAre DEF n
  <2>2. F \in [1..m -> Seq(Plain)]
    BY <2>1
  <2>3. F \in Seq(Seq(Plain))
    BY <1>1, <2>2, SeqDef
  <2> QED
    BY <1>1, <2>2, <2>3, LenProperties
<1>5. S \in [0..m -> States]
  <2>1. \A i \in 0..m : State(o, Ds(scopes, n - i)) \in States
    BY <1>3, VsType, StateType DEF n
  <2> QED
    BY <2>1
<1>6. ASSUME NEW i \in 1..m PROVE Leads(e, F[i], S[i - 1], S[i])
  <2> DEFINE k == n - i + 1
  <2>1. k \in 1..n /\ k - 1 = n - i /\ n - (i - 1) = k /\ i \in 0..m /\ i - 1 \in 0..m
    BY <1>1, <1>2
  <2>2. F[i] = Deferments(scopes[k])
    OBVIOUS
  <2>3. S[i - 1] = State(o, Ds(scopes, n - (i - 1))) /\ S[i] = State(o, Ds(scopes, n - i))
    BY <2>1
  <2> HIDE DEF k, F, S
  <2>4. Vs(scopes, k) \subseteq o
    <3>1. k \in 0..n /\ n \in k..n
      BY <1>1, <2>1
    <3>2. Vs(scopes, k) \subseteq Vs(scopes, n)
      BY <3>1, VsMonotonic DEF n
    <3> QED
      BY <3>2 DEF n
  <2>5. Leads(e, Deferments(scopes[k]), State(o, Ds(scopes, k)), State(o, Ds(scopes, k - 1)))
    BY <2>1, <2>4, DefermentsLead DEF n
  <2> QED
    BY <2>1, <2>2, <2>3, <2>5
<1>7. S[0] = State(o, Ds(scopes, n)) /\ S[m] = State(o, Ds(scopes, d - 1))
  <2>1. 0 \in 0..m /\ m \in 0..m /\ n - 0 = n /\ n - m = d - 1
    BY <1>1 DEF m
  <2> QED
    BY <2>1
<1>8. DefermentsThrough(d) = FlattenSeq(F)
  BY DEF DefermentsThrough, n, m
<1> HIDE DEF F, S
<1>9. Plain \in SUBSET Instrs
  BY DEF Plain
<1>10. /\ FlattenSeq(F) \in Seq(Plain)
       /\ Leads(e, FlattenSeq(F), S[0], S[m])
  BY <1>4, <1>5, <1>6, <1>9, FlattenLeads
<1> QED
  BY <1>7, <1>8, <1>10 DEF n

LEMMA CallbacksWalk ==
    ASSUME NEW e, ScopesOK(scopes), NEW d \in 1..Len(scopes),
           NEW g \in SUBSET Names, g \cap Vs(scopes, Len(scopes)) = {}, NEW a \in SUBSET Names
    PROVE  /\ CallbacksThrough(d) \in Seq(Plain)
           /\ Leads(e, CallbacksThrough(d), State(Vs(scopes, Len(scopes)) \cup g, a),
                       State(Vs(scopes, d - 1) \cup g, a))
<1> DEFINE n == Len(scopes)
           m == n - d + 1
           F == [i \in 1..m |-> Callbacks(scopes[n - i + 1])]
           S == [i \in 0..m |-> State(Vs(scopes, n - i) \cup g, a)]
<1>1. n \in Nat /\ m \in Nat /\ d <= n
  BY ScopesLen
<1> HIDE DEF n, m
<1>2. \A i \in 1..m : n - i + 1 \in 1..n /\ (n - i + 1) - 1 = n - i /\ n - (i - 1) = n - i + 1
  BY <1>1 DEF m
<1>3. \A i \in 0..m : n - i \in 0..n
  BY <1>1 DEF m
<1>4. \A k \in 1..n : g \cap scopes[k].vs = {}
  BY DEF Vs, n
<1>5. F \in Seq(Seq(Plain)) /\ Len(F) = m
  <2>1. \A i \in 1..m : Callbacks(scopes[n - i + 1]) \in Seq(Plain)
    BY <1>2, <1>4, CallbacksLead DEF n
  <2>2. F \in [1..m -> Seq(Plain)]
    BY <2>1
  <2>3. F \in Seq(Seq(Plain))
    BY <1>1, <2>2, SeqDef
  <2> QED
    BY <1>1, <2>2, <2>3, LenProperties
<1>6. S \in [0..m -> States]
  <2>1. ASSUME NEW i \in 0..m PROVE State(Vs(scopes, n - i) \cup g, a) \in States
    <3>1. Vs(scopes, n - i) \in SUBSET Names
      BY <1>3, VsType DEF n
    <3>2. Vs(scopes, n - i) \cup g \in SUBSET Names
      BY <3>1
    <3> QED
      BY <3>2, StateType
  <2> QED
    BY <2>1
<1>7. ASSUME NEW i \in 1..m PROVE Leads(e, F[i], S[i - 1], S[i])
  <2> DEFINE k == n - i + 1
  <2>1. k \in 1..n /\ k - 1 = n - i /\ n - (i - 1) = k /\ i \in 0..m /\ i - 1 \in 0..m
    BY <1>1, <1>2
  <2>2. F[i] = Callbacks(scopes[k])
    OBVIOUS
  <2>3. /\ S[i - 1] = State(Vs(scopes, n - (i - 1)) \cup g, a)
        /\ S[i] = State(Vs(scopes, n - i) \cup g, a)
    BY <2>1
  <2> HIDE DEF k, F, S
  <2>4. Leads(e, Callbacks(scopes[k]), State(Vs(scopes, k) \cup g, a),
                 State(Vs(scopes, k - 1) \cup g, a))
    BY <1>4, <2>1, CallbacksLead DEF n
  <2> QED
    BY <2>1, <2>2, <2>3, <2>4
<1>8. S[0] = State(Vs(scopes, n) \cup g, a) /\ S[m] = State(Vs(scopes, d - 1) \cup g, a)
  <2>1. 0 \in 0..m /\ m \in 0..m /\ n - 0 = n /\ n - m = d - 1
    BY <1>1 DEF m
  <2> QED
    BY <2>1
<1>9. CallbacksThrough(d) = FlattenSeq(F)
  BY DEF CallbacksThrough, n, m
<1> HIDE DEF F, S
<1>10. Plain \in SUBSET Instrs
  BY DEF Plain
<1>11. /\ FlattenSeq(F) \in Seq(Plain)
       /\ Leads(e, FlattenSeq(F), S[0], S[m])
  BY <1>5, <1>6, <1>7, <1>10, FlattenLeads
<1> QED
  BY <1>8, <1>9, <1>11 DEF n

-----------------------------------------------------------------------------
(* Basic blocks.                                                            *)

Codes == Seq(Seq(Instrs))

\* Control does not run off the end of the block.
IsClosed(is) == is # <<>> /\ is[Len(is)].op \in {"goto", "ret"}

\* The blocks that a sequence of instructions, and code, may branch to.
TargetsOf(is) == UNION {is[i].to : i \in 1..Len(is)}
Targets(c) == UNION {TargetsOf(c[b]) : b \in 1..Len(c)}

\* Every block of the code c is safe when entered as e says.  The compiler is
\* at the end of block b, where the state is s; the blocks in P are still to
\* be filled, and the others are closed.
TypedCode(e, c, P, b, s) ==
    /\ c \in Codes /\ b \in 1..Len(c) /\ b \notin P
    /\ P \subseteq 1..Len(c) /\ \A p \in P : c[p] = <<>>
    /\ \A k \in 1..Len(c) : k \notin P \cup {b} => IsClosed(c[k])
    /\ e \in [1..Len(c) -> States] /\ e[1] = State({}, {})
    /\ \A k \in 1..Len(c) : \E t : Leads(e, c[k], e[k], t)
    /\ Leads(e, c[b], e[b], s)

LEMMA PutIs ==
    ASSUME NEW c \in Codes, NEW b \in 1..Len(c), NEW is \in Seq(Instrs)
    PROVE  /\ Put(c, b, is) \in Codes /\ Len(Put(c, b, is)) = Len(c)
           /\ Put(c, b, is)[b] = c[b] \o is
           /\ \A k \in 1..Len(c) : k # b => Put(c, b, is)[k] = c[k]
<1>1. c[b] \in Seq(Instrs)
  BY ElementOfSeq DEF Codes
<1>2. c[b] \o is \in Seq(Instrs)
  BY <1>1, Joined
<1> DEFINE r == c[b] \o is
<1>3. Put(c, b, is) = [c EXCEPT ![b] = r]
  BY DEF Put
<1> HIDE DEF r
<1>4. /\ [c EXCEPT ![b] = r] \in Seq(Seq(Instrs)) /\ Len([c EXCEPT ![b] = r]) = Len(c)
      /\ \A j \in 1..Len(c) : [c EXCEPT ![b] = r][j] = IF j = b THEN r ELSE c[j]
  BY <1>2, ExceptSeq DEF Codes, r
<1>5. Len(c) \in Nat
  BY LenProperties DEF Codes
<1> QED
  BY <1>3, <1>4, <1>5 DEF Codes, r

LEMMA PutNothing ==
    ASSUME NEW c \in Codes, NEW b \in 1..Len(c)
    PROVE  Put(c, b, <<>>) = c
<1>1. c[b] \in Seq(Instrs)
  BY ElementOfSeq DEF Codes
<1>2. c[b] \o <<>> = c[b]
  BY <1>1, ConcatEmptySeq
<1>3. DOMAIN c = 1..Len(c) /\ c = [k \in DOMAIN c |-> c[k]]
  BY LenProperties DEF Codes
<1> QED
  BY <1>2, <1>3 DEF Put

LEMMA PutTwice ==
    ASSUME NEW c \in Codes, NEW b \in 1..Len(c), NEW is \in Seq(Instrs), NEW js \in Seq(Instrs)
    PROVE  Put(Put(c, b, is), b, js) = Put(c, b, is \o js)
<1> DEFINE r == c[b]
<1>1. r \in Seq(Instrs)
  BY ElementOfSeq DEF Codes
<1> HIDE DEF r
<1>2. (r \o is) \o js = r \o (is \o js)
  BY <1>1
<1>3. b \in DOMAIN c
  BY LenProperties DEF Codes
<1> QED
  BY <1>2, <1>3 DEF Put, r

LEMMA ClosedBy ==
    ASSUME NEW is \in Seq(Instrs), NEW js \in Seq(Instrs), IsClosed(js)
    PROVE  IsClosed(is \o js)
<1> DEFINE r == is \o js
<1>1. /\ r \in Seq(Instrs) /\ Len(r) = Len(is) + Len(js)
      /\ \A j \in 1..Len(js) : r[Len(is) + j] = js[j]
  BY Joined
<1>2. Len(is) \in Nat /\ Len(js) \in Nat \ {0}
  BY LenProperties, EmptySeq DEF IsClosed
<1> HIDE DEF r
<1>3. r[Len(r)] = js[Len(js)] /\ Len(r) # 0
  BY <1>1, <1>2
<1>4. r # <<>>
  BY <1>3
<1> QED
  BY <1>3, <1>4 DEF IsClosed, r

LEMMA ClosedOne ==
    ASSUME NEW ins, ins.op \in {"goto", "ret"}
    PROVE  IsClosed(<<ins>>)
<1>1. Len(<<ins>>) = 1 /\ <<ins>>[1] = ins /\ <<ins>> # <<>>
  OBVIOUS
<1> QED
  BY <1>1 DEF IsClosed

LEMMA TargetsJoined ==
    ASSUME NEW is \in Seq(Instrs), NEW js \in Seq(Instrs)
    PROVE  TargetsOf(is \o js) = TargetsOf(is) \cup TargetsOf(js)
<1> DEFINE r == is \o js
<1>1. /\ Len(r) = Len(is) + Len(js)
      /\ \A j \in 1..Len(is) : r[j] = is[j]
      /\ \A j \in 1..Len(js) : r[Len(is) + j] = js[j]
  BY Joined
<1>2. Len(is) \in Nat /\ Len(js) \in Nat
  BY LenProperties
<1> HIDE DEF r
<1>3. ASSUME NEW i \in 1..Len(r)
      PROVE  \/ \E j \in 1..Len(is) : r[i] = is[j]
             \/ \E j \in 1..Len(js) : r[i] = js[j]
  <2>1. CASE i <= Len(is)
    BY <1>1, <1>2, <2>1
  <2>2. CASE i > Len(is)
    <3>1. i - Len(is) \in 1..Len(js) /\ i = Len(is) + (i - Len(is))
      BY <1>1, <1>2, <2>2
    <3> QED
      BY <1>1, <3>1
  <2> QED
    BY <1>1, <1>2, <2>1, <2>2
<1>4. ASSUME NEW j \in 1..Len(is) PROVE \E i \in 1..Len(r) : r[i] = is[j]
  BY <1>1, <1>2
<1>5. ASSUME NEW j \in 1..Len(js) PROVE \E i \in 1..Len(r) : r[i] = js[j]
  <2>1. Len(is) + j \in 1..Len(r)
    BY <1>1, <1>2
  <2> QED
    BY <1>1, <2>1
<1>6. TargetsOf(r) \subseteq TargetsOf(is) \cup TargetsOf(js)
  BY <1>3 DEF TargetsOf
<1>7. TargetsOf(is) \subseteq TargetsOf(r)
  BY <1>4 DEF TargetsOf
<1>8. TargetsOf(js) \subseteq TargetsOf(r)
  BY <1>5 DEF TargetsOf
<1> QED
  BY <1>6, <1>7, <1>8 DEF r

LEMMA TargetsPlain ==
    ASSUME NEW is \in Seq(Plain)
    PROVE  TargetsOf(is) = {} /\ is \in Seq(Instrs)
<1>1. \A i \in 1..Len(is) : is[i].to = {}
  BY ElementOfSeq DEF Plain
<1>2. Plain \subseteq Instrs
  BY DEF Plain
<1> QED
  BY <1>1, <1>2, SeqMonotonic DEF TargetsOf

LEMMA TargetsOne ==
    ASSUME NEW ins
    PROVE  TargetsOf(<<ins>>) = ins.to
<1>1. Len(<<ins>>) = 1 /\ <<ins>>[1] = ins
  OBVIOUS
<1>2. 1..1 = {1}
  OBVIOUS
<1> QED
  BY <1>1, <1>2 DEF TargetsOf

LEMMA TargetsPut ==
    ASSUME NEW c \in Codes, NEW b \in 1..Len(c), NEW is \in Seq(Instrs)
    PROVE  Targets(Put(c, b, is)) = Targets(c) \cup TargetsOf(is)
<1> DEFINE p == Put(c, b, is)
<1>1. /\ Len(p) = Len(c) /\ p[b] = c[b] \o is
      /\ \A k \in 1..Len(c) : k # b => p[k] = c[k]
  BY PutIs
<1>2. c[b] \in Seq(Instrs)
  BY ElementOfSeq DEF Codes
<1>3. TargetsOf(p[b]) = TargetsOf(c[b]) \cup TargetsOf(is)
  BY <1>1, <1>2, TargetsJoined
<1> HIDE DEF p
<1>4. \A k \in 1..Len(c) : k # b => TargetsOf(p[k]) = TargetsOf(c[k])
  BY <1>1
<1> DEFINE T(k) == TargetsOf(c[k])
           U(k) == TargetsOf(p[k])
<1>5. U(b) = T(b) \cup TargetsOf(is) /\ \A k \in 1..Len(c) : k # b => U(k) = T(k)
  BY <1>3, <1>4
<1>6. Targets(c) = UNION {T(k) : k \in 1..Len(c)} /\ Targets(p) = UNION {U(k) : k \in 1..Len(c)}
  BY <1>1 DEF Targets
<1> HIDE DEF T, U
<1>7. Targets(p) = Targets(c) \cup TargetsOf(is)
  BY <1>5, <1>6
<1> QED
  BY <1>7 DEF p

LEMMA GrowIs ==
    ASSUME NEW c \in Codes, NEW n \in Nat
    PROVE  LET r == c \o [i \in 1..n |-> <<>>]
           IN  /\ r \in Codes /\ Len(r) = Len(c) + n /\ Targets(r) = Targets(c)
               /\ \A k \in 1..Len(c) : r[k] = c[k]
               /\ \A k \in (Len(c) + 1)..(Len(c) + n) : r[k] = <<>>
<1> DEFINE new == [i \in 1..n |-> <<>>]
           r == c \o new
<1>1. new \in Codes /\ Len(new) = n /\ \A i \in 1..n : new[i] = <<>>
  <2>1. <<>> \in Seq(Instrs)
    OBVIOUS
  <2>2. new \in [1..n -> Seq(Instrs)]
    BY <2>1
  <2>3. new \in Seq(Seq(Instrs))
    BY <2>2, SeqDef
  <2> QED
    BY <2>2, <2>3, LenProperties DEF Codes
<1> HIDE DEF new
<1>2. /\ r \in Codes /\ Len(r) = Len(c) + Len(new)
      /\ \A k \in 1..Len(c) : r[k] = c[k]
      /\ \A k \in 1..Len(new) : r[Len(c) + k] = new[k]
  <2>1. c \in Seq(Seq(Instrs)) /\ new \in Seq(Seq(Instrs))
    BY <1>1 DEF Codes
  <2>2. c \o new \in Seq(Seq(Instrs))
    BY <2>1, Joined
  <2> QED
    BY <2>1, <2>2, Joined DEF Codes
<1>3. Len(c) \in Nat
  BY LenProperties DEF Codes
<1> HIDE DEF r
<1>4. ASSUME NEW k \in (Len(c) + 1)..(Len(c) + n) PROVE r[k] = <<>>
  <2>1. k - Len(c) \in 1..n /\ k = Len(c) + (k - Len(c))
    BY <1>3
  <2> QED
    BY <1>1, <1>2, <2>1
<1>5. TargetsOf(<<>>) = {}
  BY DEF TargetsOf
<1> DEFINE T(k) == TargetsOf(c[k])
           U(k) == TargetsOf(r[k])
<1>6. \A k \in 1..(Len(c) + n) : U(k) = IF k \in 1..Len(c) THEN T(k) ELSE {}
  <2>1. ASSUME NEW k \in 1..(Len(c) + n)
        PROVE  U(k) = IF k \in 1..Len(c) THEN T(k) ELSE {}
    <3>1. CASE k \in 1..Len(c)
      BY <1>2, <3>1
    <3>2. CASE k \notin 1..Len(c)
      <4>1. k \in (Len(c) + 1)..(Len(c) + n)
        BY <1>3, <3>2
      <4> QED
        BY <1>4, <1>5, <3>2, <4>1
    <3> QED
      BY <3>1, <3>2
  <2> QED
    BY <2>1
<1>7. /\ Targets(c) = UNION {T(k) : k \in 1..Len(c)}
      /\ Targets(r) = UNION {U(k) : k \in 1..(Len(c) + n)}
  BY <1>1, <1>2 DEF Targets
<1> HIDE DEF T, U
<1>8. \A k \in 1..Len(c) : k \in 1..(Len(c) + n)
  BY <1>3
<1>9. Targets(r) = Targets(c)
  BY <1>6, <1>7, <1>8
<1> QED
  BY <1>1, <1>2, <1>4, <1>9 DEF r, new

\* Instructions are appended to the block the compiler is in.
LEMMA TypedAppend ==
    ASSUME NEW e, NEW c, NEW P, NEW b, NEW s, NEW t, TypedCode(e, c, P, b, s),
           NEW is \in Seq(Instrs), Leads(e, is, s, t)
    PROVE  TypedCode(e, Put(c, b, is), P, b, t)
<1> DEFINE p == Put(c, b, is)
<1>1. c \in Codes /\ b \in 1..Len(c)
  BY DEF TypedCode
<1>2. /\ p \in Codes /\ Len(p) = Len(c) /\ p[b] = c[b] \o is
      /\ \A k \in 1..Len(c) : k # b => p[k] = c[k]
  BY <1>1, PutIs
<1> HIDE DEF p
<1>3. c[b] \in Seq(Instrs)
  BY <1>1, ElementOfSeq DEF Codes
<1>4. Leads(e, p[b], e[b], t)
  <2>1. Leads(e, c[b], e[b], s)
    BY DEF TypedCode
  <2> QED
    BY <1>2, <1>3, <2>1, LeadsOn
<1>5. ASSUME NEW k \in 1..Len(c) PROVE \E u : Leads(e, p[k], e[k], u)
  <2>1. CASE k = b
    BY <1>4, <2>1
  <2>2. CASE k # b
    BY <1>2, <2>2 DEF TypedCode
  <2> QED
    BY <2>1, <2>2
<1>6. /\ b \notin P /\ P \subseteq 1..Len(c)
      /\ \A k \in P : p[k] = <<>>
      /\ \A k \in 1..Len(c) : k \notin P \cup {b} => IsClosed(p[k])
      /\ e \in [1..Len(c) -> States] /\ e[1] = State({}, {})
  BY <1>2 DEF TypedCode
<1> QED
  BY <1>1, <1>2, <1>4, <1>5, <1>6 DEF TypedCode, p

\* The compiler goes on in a block that was still to be filled.
LEMMA TypedMove ==
    ASSUME NEW e, NEW c, NEW P, NEW b, NEW s, TypedCode(e, c, P, b, s),
           IsClosed(c[b]), NEW m \in P
    PROVE  TypedCode(e, c, P \ {m}, m, e[m])
<1>1. m \in 1..Len(c) /\ c[m] = <<>> /\ e[m] \in States
  BY DEF TypedCode
<1>2. Leads(e, c[m], e[m], e[m])
  BY <1>1, LeadsNothing
<1> QED
  BY <1>1, <1>2 DEF TypedCode

\* New blocks.
LEMMA TypedGrow ==
    ASSUME NEW e, NEW c, NEW P, NEW b, NEW s, TypedCode(e, c, P, b, s), NEW n \in Nat,
           NEW d \in [1..(Len(c) + n) -> States], \A k \in 1..Len(c) : d[k] = e[k]
    PROVE  TypedCode(d, c \o [i \in 1..n |-> <<>>],
                     P \cup ((Len(c) + 1)..(Len(c) + n)), b, s)
<1> DEFINE r == c \o [i \in 1..n |-> <<>>]
           Q == P \cup ((Len(c) + 1)..(Len(c) + n))
<1>1. c \in Codes /\ b \in 1..Len(c) /\ Len(c) \in Nat /\ DOMAIN e = 1..Len(c)
  BY LenProperties DEF TypedCode, Codes
<1>2. /\ r \in Codes /\ Len(r) = Len(c) + n
      /\ \A k \in 1..Len(c) : r[k] = c[k]
      /\ \A k \in (Len(c) + 1)..(Len(c) + n) : r[k] = <<>>
  BY <1>1, GrowIs
<1> HIDE DEF r
<1>3. \A k \in 1..Len(c) : k \in 1..(Len(c) + n)
  BY <1>1
<1>4. ASSUME NEW k \in 1..Len(c), NEW t, Leads(e, c[k], e[k], t)
      PROVE  Leads(d, r[k], d[k], t)
  <2>1. c[k] \in Seq(Instrs)
    BY <1>1, ElementOfSeq DEF Codes
  <2>2. \A i \in 1..Len(c[k]) : \A l \in c[k][i].to :
           l \in DOMAIN e => l \in DOMAIN d /\ d[l] = e[l]
    BY <1>1, <1>3
  <2>3. Leads(d, c[k], e[k], t)
    BY <1>4, <2>1, <2>2, LeadsElsewhere
  <2> QED
    BY <1>2, <2>3
<1>5. ASSUME NEW k \in 1..(Len(c) + n) PROVE \E t : Leads(d, r[k], d[k], t)
  <2>1. CASE k \in 1..Len(c)
    <3>1. PICK t : Leads(e, c[k], e[k], t)
      BY <2>1 DEF TypedCode
    <3> QED
      BY <1>4, <2>1, <3>1
  <2>2. CASE k \notin 1..Len(c)
    <3>1. r[k] = <<>> /\ d[k] \in States
      BY <1>1, <1>2, <2>2
    <3> QED
      BY <3>1, LeadsNothing
  <2> QED
    BY <2>1, <2>2
<1>6. b \in 1..Len(r) /\ b \notin Q /\ Q \subseteq 1..Len(r)
  <2>1. b \notin P /\ P \subseteq 1..Len(c)
    BY DEF TypedCode
  <2>2. b \in 1..Len(r)
    BY <1>1, <1>2, <1>3
  <2>3. b \notin (Len(c) + 1)..(Len(c) + n)
    BY <1>1
  <2>4. (Len(c) + 1)..(Len(c) + n) \subseteq 1..Len(r)
    BY <1>1, <1>2
  <2>5. P \subseteq 1..Len(r)
    BY <1>2, <1>3, <2>1
  <2> QED
    BY <2>1, <2>2, <2>3, <2>4, <2>5
<1>7. \A k \in Q : r[k] = <<>>
  BY <1>2 DEF TypedCode
<1>8. ASSUME NEW k \in 1..Len(r), k \notin Q \cup {b} PROVE IsClosed(r[k])
  <2>1. k \in 1..Len(c)
    BY <1>1, <1>2, <1>8
  <2> QED
    BY <1>2, <1>8, <2>1 DEF TypedCode
<1>9. Leads(d, r[b], d[b], s)
  BY <1>1, <1>4 DEF TypedCode
<1>10. d[1] = State({}, {})
  <2>1. 1 \in 1..Len(c)
    BY <1>1
  <2> QED
    BY <2>1 DEF TypedCode
<1> QED
  BY <1>2, <1>5, <1>6, <1>7, <1>8, <1>9, <1>10 DEF TypedCode, r

\* What blocks expect that nothing branches to yet may be settled later.
LEMMA TypedSettle ==
    ASSUME NEW e, NEW c, NEW P, NEW b, NEW s, TypedCode(e, c, P, b, s),
           NEW B, B \subseteq P, 1 \notin B, B \cap Targets(c) = {},
           NEW d \in [1..Len(c) -> States], \A k \in 1..Len(c) : k \notin B => d[k] = e[k]
    PROVE  TypedCode(d, c, P, b, s)
<1>1. c \in Codes /\ b \in 1..Len(c) /\ DOMAIN e = 1..Len(c) /\ b \notin B
  BY DEF TypedCode
<1>2. ASSUME NEW k \in 1..Len(c), k \notin B, NEW t, Leads(e, c[k], e[k], t)
      PROVE  Leads(d, c[k], d[k], t)
  <2>1. c[k] \in Seq(Instrs)
    BY <1>1, ElementOfSeq DEF Codes
  <2>2. ASSUME NEW i \in 1..Len(c[k]), NEW l \in c[k][i].to, l \in DOMAIN e
        PROVE  l \in DOMAIN d /\ d[l] = e[l]
    <3>1. l \in TargetsOf(c[k])
      BY DEF TargetsOf
    <3>2. l \in Targets(c)
      BY <3>1 DEF Targets
    <3> QED
      BY <1>1, <2>2, <3>2
  <2>3. Leads(d, c[k], e[k], t)
    BY <1>2, <2>1, <2>2, LeadsElsewhere
  <2> QED
    BY <1>2, <2>3
<1>3. ASSUME NEW k \in 1..Len(c) PROVE \E t : Leads(d, c[k], d[k], t)
  <2>1. CASE k \notin B
    <3>1. PICK t : Leads(e, c[k], e[k], t)
      BY DEF TypedCode
    <3> QED
      BY <1>2, <2>1, <3>1
  <2>2. CASE k \in B
    <3>1. c[k] = <<>> /\ d[k] \in States
      BY <2>2 DEF TypedCode
    <3> QED
      BY <3>1, LeadsNothing
  <2> QED
    BY <2>1, <2>2
<1>4. Leads(d, c[b], d[b], s)
  BY <1>1, <1>2 DEF TypedCode
<1>5. d[1] = State({}, {})
  <2>1. 1 \in 1..Len(c)
    BY <1>1, LenProperties DEF Codes
  <2> QED
    BY <2>1 DEF TypedCode
<1> QED
  BY <1>3, <1>4, <1>5 DEF TypedCode

=============================================================================
