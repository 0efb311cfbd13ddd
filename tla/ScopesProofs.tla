---------------------------- MODULE ScopesProofs ----------------------------
(***************************************************************************)
(* Scopes.tla: the code the compiler emits for a function that uses none   *)
(* of the delicate idioms releases every reference once, runs every        *)
(* deferred block once and never runs off the end of a block, whatever the *)
(* size of the function.                                                   *)
(*                                                                         *)
(* While it compiles, each open statement has promised to the blocks it    *)
(* has yet to fill what is held and what is deferred when control gets     *)
(* there; the scope stack determines what.  The invariant says that the    *)
(* code emitted so far keeps these promises.                               *)
(***************************************************************************)
EXTENDS ScopesCode

Disciplined == Idioms = {}

JumpRecs == [entry : Nat, exit : Nat, loop : Nat, next : Nat, case : Nat]
FrameRecs == [k : {"if", "case", "loop"}, merge : Nat, rest : Seq(Nat), old : JumpRecs,
              jumped : BOOLEAN, incr : Nat, clean : Nat, test : Nat, gen : 0..MaxNames,
              body : Nat]

-----------------------------------------------------------------------------
(* Where the open statements are on the scope stack sc: fs are the frames.  *)

\* The depth of the scope that frame i was opened in: a loop opens two.
LoopsBelow(fs, i) == {j \in 1..(i - 1) : fs[j].k = "loop"}
Depth(fs, i) == i + Cardinality(LoopsBelow(fs, i))

\* The generators of the range loops that frame i was opened in.
Gens(fs, i) == {fs[j].gen : j \in 1..(i - 1)} \ {0}

\* What is held and what waits when the scopes are those up to depth d.
At(sc, fs, d, i) == State(Vs(sc, d) \cup Gens(fs, i), Ds(sc, d))

\* Before and after frame i's statement, and where the compiler is.
Around(sc, fs, i) == At(sc, fs, Depth(fs, i), i)
Here(sc, fs) == Around(sc, fs, Len(fs) + 1)

\* In the test of loop i, and where its body's scope is left early.
Setup(sc, fs, i) == At(sc, fs, Depth(fs, i) + 1, i + 1)
Cleaned(sc, fs, i) ==
    State(Vs(sc, Depth(fs, i) + 2) \cup Gens(fs, i + 1), Ds(sc, Depth(fs, i)))

-----------------------------------------------------------------------------
(* The blocks of a frame: an if's or a switch's that are yet to be filled   *)
(* are the last ones created for it; a loop's are test, loop, incr, clean   *)
(* and merge.                                                               *)

Low(f) == IF f.k = "loop" THEN f.test ELSE f.merge - Len(f.rest)
First(f) == IF f.k = "loop" THEN f.incr ELSE Low(f)
PendOf(f) == First(f)..f.merge
Pend(fs) == UNION {PendOf(fs[i]) : i \in 1..Len(fs)}

Blocks(f) ==
    IF f.k = "loop"
    THEN f.incr = f.test + 2 /\ f.clean = f.test + 3 /\ f.merge = f.test + 4
    ELSE \A j \in 1..Len(f.rest) : f.rest[j] = f.merge - Len(f.rest) + j - 1

\* What the blocks of frame i expect.
Expect(e, sc, fs, i) ==
    IF fs[i].k = "loop"
    THEN /\ e[fs[i].merge] = Setup(sc, fs, i) /\ e[fs[i].test] = Setup(sc, fs, i)
         /\ fs[i].jumped => /\ e[fs[i].incr] = Around(sc, fs, i + 1)
                            /\ e[fs[i].clean] = Cleaned(sc, fs, i)
    ELSE \A b \in PendOf(fs[i]) : e[b] = Around(sc, fs, i)

-----------------------------------------------------------------------------
(* The inductive invariant while the compiler is at work.                   *)

StackOK(sc, n, p) ==
    /\ ScopesOK(sc)
    /\ \A d \in 1..Len(sc) : sc[d].vs \subseteq 1..n
    /\ \A d \in 1..Len(sc) : \A i \in DOMAIN sc[d].defers : sc[d].defers[i].x <= n
    /\ \A d \in 1..Len(sc) : sc[d].id <= p
    /\ \A d, k \in 1..Len(sc) : sc[d].id = sc[k].id => d = k

FramesOK(fs, sc, n, m) ==
    /\ fs \in Seq(FrameRecs)
    /\ Len(sc) = Depth(fs, Len(fs) + 1)
    /\ \A i \in 1..Len(fs) : Blocks(fs[i]) /\ Low(fs[i]) > 1 /\ fs[i].merge <= m
    /\ \A i, j \in 1..Len(fs) : i < j => fs[i].merge < Low(fs[j])
    /\ \A i \in 1..Len(fs) : fs[i].k = "loop" =>
          fs[i].body = Depth(fs, i) + 2 /\ sc[Depth(fs, i) + 1].defers = <<>>
    /\ \A i \in 1..Len(fs) : fs[i].k # "loop" => fs[i].gen = 0
    /\ \A i \in 1..Len(fs) : fs[i].gen <= n
    /\ \A i \in 1..Len(fs) : \A d \in 1..Len(sc) : fs[i].gen \notin sc[d].vs
    /\ \A i, j \in 1..Len(fs) : fs[i].gen = fs[j].gen /\ fs[i].gen # 0 => i = j

\* Frame j is the innermost one of kind k below frame i.
Innermost(fs, k, i, j) == fs[j].k = k /\ \A m \in (j + 1)..(i - 1) : fs[m].k # k

LoopJumps(jm, fs, i) ==
    \A j \in 1..(i - 1) : Innermost(fs, "loop", i, j) =>
        jm.entry = fs[j].incr /\ jm.exit = fs[j].clean
CaseJumps(jm, fs, i) ==
    /\ \A j \in 1..(i - 1) : Innermost(fs, "case", i, j) => jm.next = Low(fs[j])
    /\ (\A j \in 1..(i - 1) : fs[j].k # "case") => jm.next = NoBlock

JumpsOK(jm, fs, sc, p) ==
    /\ jm \in JumpRecs
    /\ LoopJumps(jm, fs, Len(fs) + 1) /\ CaseJumps(jm, fs, Len(fs) + 1)
    /\ \A i \in 1..Len(fs) : fs[i].k = "loop" => LoopJumps(fs[i].old, fs, i)
    /\ \A i \in 1..Len(fs) : fs[i].k = "case" => CaseJumps(fs[i].old, fs, i)
    /\ jm.case <= p
    /\ \A d \in 1..Len(sc), j \in 1..Len(fs) :
          sc[d].id = jm.case /\ Innermost(fs, "case", Len(fs) + 1, j) => d = Depth(fs, j) + 1

\* Nothing branches yet to the blocks whose promise is not fixed.
TargetsOK(c, fs) ==
    /\ Targets(c) \subseteq 1..Len(c)
    /\ \A i \in 1..Len(fs) : fs[i].k = "loop" /\ ~fs[i].jumped =>
          fs[i].incr \notin Targets(c) /\ fs[i].clean \notin Targets(c)

CodeOK(e, c, fs, sc, b) ==
    /\ TypedCode(e, c, Pend(fs), b, Here(sc, fs))
    /\ \A i \in 1..Len(fs) : Expect(e, sc, fs, i)
    /\ TargetsOK(c, fs)

CountInv == stmts \in 0..MaxStmts /\ names \in 0..MaxNames /\ pushed \in Nat /\ temps = {}
StackInv == StackOK(scopes, names, pushed)
FramesInv == FramesOK(frames, scopes, names, Len(code))
JumpsInv == JumpsOK(jumps, frames, scopes, pushed)
EndedInv ==
    /\ ended \in BOOLEAN
    /\ ended => IsClosed(code[cur]) /\ (frames # <<>> => Top(frames).k # "loop")
CodeInv == \E e : CodeOK(e, code, frames, scopes, cur)

Compiled ==
    /\ CountInv /\ StackInv /\ FramesInv /\ JumpsInv /\ EndedInv /\ CodeInv
    /\ at = <<1, 1>> /\ own = [x \in Names |-> "junk"] /\ armed = {}

-----------------------------------------------------------------------------
(* Depths.                                                                  *)

LEMMA LoopsFinite ==
    ASSUME NEW fs, NEW i \in Nat
    PROVE  IsFiniteSet(LoopsBelow(fs, i)) /\ Cardinality(LoopsBelow(fs, i)) \in Nat
<1>1. IsFiniteSet(1..(i - 1))
  BY FS_Interval
<1>2. LoopsBelow(fs, i) \subseteq 1..(i - 1)
  BY DEF LoopsBelow
<1> QED
  BY <1>1, <1>2, FS_Subset, FS_CardinalityType

LEMMA DepthFirst ==
    ASSUME NEW fs
    PROVE  Depth(fs, 1) = 1
<1>1. LoopsBelow(fs, 1) = {}
  BY DEF LoopsBelow
<1>2. Cardinality(LoopsBelow(fs, 1)) = 0
  BY <1>1, FS_EmptySet
<1> QED
  BY <1>2 DEF Depth

LEMMA DepthNext ==
    ASSUME NEW fs, NEW i \in Nat \ {0}
    PROVE  /\ Depth(fs, i) \in Nat /\ Depth(fs, i) >= i
           /\ Depth(fs, i + 1) = Depth(fs, i) + (IF fs[i].k = "loop" THEN 2 ELSE 1)
<1> DEFINE A == LoopsBelow(fs, i)
           B == LoopsBelow(fs, i + 1)
<1>1. IsFiniteSet(A) /\ Cardinality(A) \in Nat
  BY LoopsFinite
<1>2. i \notin A
  BY DEF LoopsBelow
<1>3. B = IF fs[i].k = "loop" THEN A \cup {i} ELSE A
  BY DEF LoopsBelow
<1> HIDE DEF A, B
<1>4. Cardinality(A \cup {i}) = Cardinality(A) + 1
  BY <1>1, <1>2, FS_AddElement
<1>5. Cardinality(B) = Cardinality(A) + (IF fs[i].k = "loop" THEN 1 ELSE 0)
  BY <1>1, <1>3, <1>4
<1>6. /\ i + Cardinality(A) \in Nat /\ i + Cardinality(A) >= i
      /\ (i + 1) + Cardinality(B) = i + Cardinality(A) + (IF fs[i].k = "loop" THEN 2 ELSE 1)
  BY <1>1, <1>5
<1> QED
  BY <1>6 DEF Depth, A, B

LEMMA DepthGrows ==
    ASSUME NEW fs, NEW i \in Nat \ {0}, NEW j \in Nat, i < j
    PROVE  Depth(fs, i) + (IF fs[i].k = "loop" THEN 2 ELSE 1) <= Depth(fs, j)
<1> DEFINE A == LoopsBelow(fs, i + 1)
           B == LoopsBelow(fs, j)
<1>1. IsFiniteSet(A) /\ IsFiniteSet(B) /\ Cardinality(A) \in Nat /\ Cardinality(B) \in Nat
  BY LoopsFinite
<1>2. A \subseteq B
  BY DEF LoopsBelow
<1>3. Cardinality(A) <= Cardinality(B)
  BY <1>1, <1>2, FS_Subset
<1> HIDE DEF A, B
<1>4. (i + 1) + Cardinality(A) <= j + Cardinality(B)
  BY <1>1, <1>3
<1>5. Depth(fs, i + 1) <= Depth(fs, j)
  BY <1>4 DEF Depth, A, B
<1> QED
  BY <1>5, DepthNext

LEMMA DepthSame ==
    ASSUME NEW fs, NEW gs, NEW i \in Nat, \A j \in 1..(i - 1) : gs[j].k = fs[j].k
    PROVE  Depth(gs, i) = Depth(fs, i)
<1>1. LoopsBelow(gs, i) = LoopsBelow(fs, i)
  BY DEF LoopsBelow
<1> QED
  BY <1>1 DEF Depth

LEMMA GensNext ==
    ASSUME NEW fs, NEW i \in Nat \ {0}
    PROVE  Gens(fs, i + 1) = Gens(fs, i) \cup ({fs[i].gen} \ {0})
<1>1. 1..((i + 1) - 1) = (1..(i - 1)) \cup {i}
  OBVIOUS
<1> QED
  BY <1>1 DEF Gens

LEMMA GensSame ==
    ASSUME NEW fs, NEW gs, NEW i \in Nat, \A j \in 1..(i - 1) : gs[j].gen = fs[j].gen
    PROVE  Gens(gs, i) = Gens(fs, i)
  BY DEF Gens

LEMMA ScopesSame ==
    ASSUME NEW sc, NEW r, NEW d \in Nat,
           \A k \in 1..d : r[k].vs = sc[k].vs /\ r[k].defers = sc[k].defers
    PROVE  Vs(r, d) = Vs(sc, d) /\ Ds(r, d) = Ds(sc, d)
  BY DEF Vs, Ds

LEMMA AtSame ==
    ASSUME NEW sc, NEW r, NEW fs, NEW gs, NEW d \in Nat, NEW i \in Nat,
           \A k \in 1..d : r[k].vs = sc[k].vs /\ r[k].defers = sc[k].defers,
           \A j \in 1..(i - 1) : gs[j].gen = fs[j].gen
    PROVE  At(r, gs, d, i) = At(sc, fs, d, i)
  BY ScopesSame, GensSame DEF At

\* The blocks that a frame's promises are about.
Used(f) == IF f.k = "loop" THEN {f.test, f.incr, f.clean, f.merge} ELSE PendOf(f)

\* How many scopes the promises of frame f, opened at depth d, are about.
Reach(f, d) == IF f.k # "loop" THEN d ELSE IF f.jumped THEN d + 2 ELSE d + 1

LEMMA ExpectSame ==
    ASSUME NEW sc, NEW r, NEW fs, NEW gs, NEW e, NEW g, NEW i \in Nat \ {0},
           Expect(e, sc, fs, i),
           \A j \in 1..i : gs[j].k = fs[j].k /\ gs[j].gen = fs[j].gen,
           gs[i] = fs[i],
           \A k \in 1..Reach(fs[i], Depth(fs, i)) :
              r[k].vs = sc[k].vs /\ r[k].defers = sc[k].defers,
           \A b \in Used(fs[i]) : g[b] = e[b]
    PROVE  Expect(g, r, gs, i)
<1> DEFINE D == Depth(fs, i)
<1>1. D \in Nat /\ Depth(gs, i) = D
  BY DepthNext, DepthSame
<1>2. Gens(gs, i) = Gens(fs, i) /\ Gens(gs, i + 1) = Gens(fs, i + 1)
  BY GensSame
<1>3. CASE fs[i].k # "loop"
  <2>1. Vs(r, D) = Vs(sc, D) /\ Ds(r, D) = Ds(sc, D)
    BY <1>1, <1>3, ScopesSame DEF Reach
  <2>2. Around(r, gs, i) = Around(sc, fs, i)
    BY <1>1, <1>2, <2>1 DEF Around, At
  <2>3. \A b \in PendOf(fs[i]) : e[b] = Around(sc, fs, i)
    BY <1>3 DEF Expect
  <2>4. \A b \in PendOf(fs[i]) : g[b] = e[b]
    BY <1>3 DEF Used
  <2> QED
    BY <1>3, <2>2, <2>3, <2>4 DEF Expect
<1>4. CASE fs[i].k = "loop"
  <2>1. D + 1 \in Nat /\ D + 2 \in Nat /\ \A k \in 1..(D + 1) : k \in 1..(D + 2)
    BY <1>1
  <2>2. Vs(r, D + 1) = Vs(sc, D + 1) /\ Ds(r, D + 1) = Ds(sc, D + 1)
    <3>1. \A k \in 1..(D + 1) : r[k].vs = sc[k].vs /\ r[k].defers = sc[k].defers
      BY <1>4, <2>1 DEF Reach
    <3> QED
      BY <2>1, <3>1, ScopesSame
  <2>3. Setup(r, gs, i) = Setup(sc, fs, i)
    BY <1>1, <1>2, <2>2 DEF Setup, At
  <2>4. /\ g[fs[i].merge] = e[fs[i].merge] /\ g[fs[i].test] = e[fs[i].test]
        /\ g[fs[i].incr] = e[fs[i].incr] /\ g[fs[i].clean] = e[fs[i].clean]
    BY <1>4 DEF Used
  <2>5. e[fs[i].merge] = Setup(sc, fs, i) /\ e[fs[i].test] = Setup(sc, fs, i)
    BY <1>4 DEF Expect
  <2>6. ASSUME fs[i].jumped
        PROVE  g[fs[i].incr] = Around(r, gs, i + 1) /\ g[fs[i].clean] = Cleaned(r, gs, i)
    <3>1. \A k \in 1..(D + 2) : r[k].vs = sc[k].vs /\ r[k].defers = sc[k].defers
      BY <1>4, <2>6 DEF Reach
    <3>2. Vs(r, D + 2) = Vs(sc, D + 2) /\ Ds(r, D + 2) = Ds(sc, D + 2)
      BY <2>1, <3>1, ScopesSame
    <3>3. Ds(r, D) = Ds(sc, D)
      <4>1. \A k \in 1..D : k \in 1..(D + 2)
        BY <1>1
      <4> QED
        BY <1>1, <3>1, <4>1, ScopesSame
    <3>4. Depth(fs, i + 1) = D + 2 /\ Depth(gs, i + 1) = D + 2
      BY <1>1, <1>4, DepthNext
    <3>5. Around(r, gs, i + 1) = Around(sc, fs, i + 1)
      BY <1>2, <3>2, <3>4 DEF Around, At
    <3>6. Cleaned(r, gs, i) = Cleaned(sc, fs, i)
      BY <1>1, <1>2, <3>2, <3>3 DEF Cleaned
    <3>7. e[fs[i].incr] = Around(sc, fs, i + 1) /\ e[fs[i].clean] = Cleaned(sc, fs, i)
      BY <1>4, <2>6 DEF Expect
    <3> QED
      BY <2>4, <3>5, <3>6, <3>7
  <2> QED
    BY <1>4, <2>3, <2>4, <2>5, <2>6 DEF Expect
<1> QED
  BY <1>3, <1>4

-----------------------------------------------------------------------------
(* What the invariant says of a frame.                                      *)

LEMMA PopIs ==
    ASSUME NEW S, NEW s \in Seq(S), s # <<>>
    PROVE  /\ Len(s) \in Nat \ {0} /\ Top(s) \in S
           /\ Pop(s) \in Seq(S) /\ Len(Pop(s)) = Len(s) - 1
           /\ \A k \in 1..(Len(s) - 1) : Pop(s)[k] = s[k]
<1>1. Len(s) \in Nat \ {0}
  BY EmptySeq
<1>2. Len(s) \in 1..Len(s) /\ Len(s) - 1 \in 0..Len(s)
  BY <1>1
<1>3. s[Len(s)] \in S
  BY <1>2, ElementOfSeq
<1>4. /\ SubSeq(s, 1, Len(s) - 1) \in Seq(S)
      /\ Len(SubSeq(s, 1, Len(s) - 1)) = Len(s) - 1
      /\ \A k \in 1..(Len(s) - 1) : SubSeq(s, 1, Len(s) - 1)[k] = s[1 + k - 1]
  <2> DEFINE n == Len(s) - 1
             r == SubSeq(s, 1, n)
  <2>1. n \in Nat
    BY <1>1
  <2>2. \A i \in 1..n : s[i] \in S
    <3>1. \A i \in 1..n : i \in 1..Len(s)
      BY <1>1
    <3> QED
      BY <3>1, ElementOfSeq
  <2> HIDE DEF n
  <2>3. /\ r \in Seq(S) /\ Len(r) = (IF 1 <= n THEN n - 1 + 1 ELSE 0)
        /\ \A i \in 1..(n - 1 + 1) : r[i] = s[1 + i - 1]
    BY <2>1, <2>2, SubSeqProperties
  <2>4. n - 1 + 1 = n /\ (1 <= n \/ n = 0)
    BY <2>1
  <2> HIDE DEF r
  <2>5. r \in Seq(S) /\ Len(r) = n /\ \A i \in 1..n : r[i] = s[1 + i - 1]
    BY <2>3, <2>4
  <2> QED
    BY <2>5 DEF n, r
<1>5. \A k \in 1..(Len(s) - 1) : 1 + k - 1 = k
  BY <1>1
<1> QED
  BY <1>1, <1>3, <1>4, <1>5 DEF Top, Pop

LEMMA AppendIs ==
    ASSUME NEW S, NEW s \in Seq(S), NEW x \in S
    PROVE  /\ Append(s, x) \in Seq(S) /\ Len(Append(s, x)) = Len(s) + 1 /\ Len(s) \in Nat
           /\ Append(s, x)[Len(s) + 1] = x
           /\ \A k \in 1..Len(s) : Append(s, x)[k] = s[k]
<1>1. Len(s) \in Nat
  BY LenProperties
<1>2. /\ Append(s, x) \in Seq(S) /\ Len(Append(s, x)) = Len(s) + 1
      /\ \A i \in 1..(Len(s) + 1) : Append(s, x)[i] = IF i <= Len(s) THEN s[i] ELSE x
  BY AppendProperties
<1> QED
  BY <1>1, <1>2

LEMMA FrameType ==
    ASSUME NEW fs \in Seq(FrameRecs), NEW i \in 1..Len(fs)
    PROVE  /\ Len(fs) \in Nat /\ fs[i] \in FrameRecs
           /\ fs[i].k \in {"if", "case", "loop"} /\ fs[i].merge \in Nat
           /\ fs[i].rest \in Seq(Nat) /\ Len(fs[i].rest) \in Nat
           /\ fs[i].old \in JumpRecs /\ fs[i].jumped \in BOOLEAN
           /\ fs[i].incr \in Nat /\ fs[i].clean \in Nat /\ fs[i].test \in Nat
           /\ fs[i].gen \in 0..MaxNames /\ fs[i].body \in Nat
<1>1. fs[i] \in FrameRecs
  BY ElementOfSeq
<1>2. Len(fs) \in Nat
  BY LenProperties
<1>3. fs[i].rest \in Seq(Nat)
  BY <1>1 DEF FrameRecs
<1>4. Len(fs[i].rest) \in Nat
  BY <1>3, LenProperties
<1> QED
  BY <1>1, <1>2, <1>3, <1>4 DEF FrameRecs

LEMMA BlocksAre ==
    ASSUME NEW fs \in Seq(FrameRecs), NEW i \in 1..Len(fs), Blocks(fs[i]), Low(fs[i]) > 1
    PROVE  /\ Low(fs[i]) \in Nat /\ Low(fs[i]) <= fs[i].merge
           /\ PendOf(fs[i]) \subseteq Used(fs[i])
           /\ Used(fs[i]) \subseteq Low(fs[i])..fs[i].merge
           /\ fs[i].merge \in PendOf(fs[i])
           /\ fs[i].k = "loop" => PendOf(fs[i]) = {fs[i].incr, fs[i].clean, fs[i].merge}
<1>1. /\ fs[i].k \in {"if", "case", "loop"} /\ fs[i].merge \in Nat /\ Len(fs[i].rest) \in Nat
      /\ fs[i].test \in Nat
  BY FrameType
<1>2. CASE fs[i].k = "loop"
  <2>1. /\ fs[i].incr = fs[i].test + 2 /\ fs[i].clean = fs[i].test + 3
        /\ fs[i].merge = fs[i].test + 4 /\ Low(fs[i]) = fs[i].test
    BY <1>2 DEF Blocks, Low
  <2>2. PendOf(fs[i]) = (fs[i].test + 2)..(fs[i].test + 4)
    BY <1>2, <2>1 DEF PendOf, First
  <2>3. Used(fs[i]) = {fs[i].test, fs[i].incr, fs[i].clean, fs[i].merge}
    BY <1>2 DEF Used
  <2>4. PendOf(fs[i]) = {fs[i].incr, fs[i].clean, fs[i].merge}
    BY <1>1, <2>1, <2>2
  <2>5. Used(fs[i]) \subseteq Low(fs[i])..fs[i].merge
    BY <1>1, <2>1, <2>3
  <2> QED
    BY <1>1, <2>1, <2>3, <2>4, <2>5
<1>3. CASE fs[i].k # "loop"
  BY <1>1, <1>3 DEF Low, PendOf, First, Used
<1> QED
  BY <1>2, <1>3

LEMMA FrameFacts ==
    ASSUME NEW sc, NEW fs, NEW n, NEW m \in Nat, FramesOK(fs, sc, n, m), NEW i \in 1..Len(fs)
    PROVE  /\ Low(fs[i]) \in Nat /\ Low(fs[i]) > 1 /\ Low(fs[i]) <= fs[i].merge
           /\ fs[i].merge \in 1..m
           /\ PendOf(fs[i]) \subseteq Used(fs[i]) /\ fs[i].merge \in PendOf(fs[i])
           /\ Used(fs[i]) \subseteq Low(fs[i])..fs[i].merge
           /\ Used(fs[i]) \subseteq 2..m
           /\ fs[i].k = "loop" => PendOf(fs[i]) = {fs[i].incr, fs[i].clean, fs[i].merge}
<1>1. /\ fs \in Seq(FrameRecs) /\ Blocks(fs[i]) /\ Low(fs[i]) > 1 /\ fs[i].merge <= m
  BY DEF FramesOK
<1>2. /\ Low(fs[i]) \in Nat /\ Low(fs[i]) <= fs[i].merge
      /\ PendOf(fs[i]) \subseteq Used(fs[i])
      /\ Used(fs[i]) \subseteq Low(fs[i])..fs[i].merge
      /\ fs[i].merge \in PendOf(fs[i])
      /\ fs[i].k = "loop" => PendOf(fs[i]) = {fs[i].incr, fs[i].clean, fs[i].merge}
  BY <1>1, BlocksAre
<1>3. fs[i].merge \in Nat
  BY <1>1, FrameType
<1>4. Low(fs[i])..fs[i].merge \subseteq 2..m /\ fs[i].merge \in 1..m
  BY <1>1, <1>2, <1>3
<1> QED
  BY <1>1, <1>2, <1>4

LEMMA UsedApart ==
    ASSUME NEW sc, NEW fs, NEW n, NEW m \in Nat, FramesOK(fs, sc, n, m),
           NEW i \in 1..Len(fs), NEW j \in 1..Len(fs), i # j
    PROVE  Used(fs[i]) \cap Used(fs[j]) = {}
<1>1. i < j => fs[i].merge < Low(fs[j])
  BY DEF FramesOK
<1>2. j < i => fs[j].merge < Low(fs[i])
  BY DEF FramesOK
<1>3. /\ Low(fs[i]) \in Nat /\ fs[i].merge \in Nat /\ Low(fs[j]) \in Nat /\ fs[j].merge \in Nat
      /\ Used(fs[i]) \subseteq Low(fs[i])..fs[i].merge
      /\ Used(fs[j]) \subseteq Low(fs[j])..fs[j].merge
  BY FrameFacts
<1>4. i < j \/ j < i
  OBVIOUS
<1> QED
  BY <1>1, <1>2, <1>3, <1>4

LEMMA DepthsFit ==
    ASSUME NEW sc, NEW fs, NEW n, NEW m, FramesOK(fs, sc, n, m), NEW i \in 1..Len(fs)
    PROVE  /\ Depth(fs, i) \in Nat /\ Depth(fs, i) >= 1 /\ Len(sc) \in Nat /\ Len(fs) \in Nat
           /\ Depth(fs, i) + (IF fs[i].k = "loop" THEN 2 ELSE 1) <= Len(sc)
           /\ \A j \in (i + 1)..Len(fs) :
                 Reach(fs[i], Depth(fs, i)) <= Depth(fs, j)
           /\ Reach(fs[i], Depth(fs, i)) <= Len(sc)
           /\ ~(i = Len(fs) /\ fs[i].k = "loop" /\ fs[i].jumped) =>
                 Reach(fs[i], Depth(fs, i)) <= Len(sc) - 1
           /\ Reach(fs[i], Depth(fs, i)) \in Nat
<1>1. fs \in Seq(FrameRecs) /\ Len(sc) = Depth(fs, Len(fs) + 1)
  BY DEF FramesOK
<1>2. Len(fs) \in Nat
  BY <1>1, LenProperties
<1>3. i \in Nat \ {0} /\ Len(fs) + 1 \in Nat \ {0} /\ i < Len(fs) + 1
  BY <1>2
<1>4. Depth(fs, i) \in Nat /\ Depth(fs, i) >= 1 /\ Len(sc) \in Nat
  BY <1>1, <1>3, DepthNext
<1>5. Depth(fs, i) + (IF fs[i].k = "loop" THEN 2 ELSE 1) <= Len(sc)
  BY <1>1, <1>3, DepthGrows
<1>6. ASSUME NEW j \in (i + 1)..Len(fs) PROVE Reach(fs[i], Depth(fs, i)) <= Depth(fs, j)
  <2>1. j \in Nat \ {0} /\ i < j
    BY <1>2
  <2>2. Depth(fs, i) + (IF fs[i].k = "loop" THEN 2 ELSE 1) <= Depth(fs, j) /\ Depth(fs, j) \in Nat
    BY <1>3, <2>1, DepthGrows, DepthNext
  <2> QED
    BY <1>4, <2>2 DEF Reach
<1>7. Reach(fs[i], Depth(fs, i)) <= Len(sc) /\ Reach(fs[i], Depth(fs, i)) \in Nat
  BY <1>4, <1>5 DEF Reach
<1>8. ASSUME ~(i = Len(fs) /\ fs[i].k = "loop" /\ fs[i].jumped)
      PROVE  Reach(fs[i], Depth(fs, i)) <= Len(sc) - 1
  <2>1. CASE ~(fs[i].k = "loop" /\ fs[i].jumped)
    BY <1>4, <1>5, <2>1 DEF Reach
  <2>2. CASE i # Len(fs)
    <3>1. Len(fs) \in (i + 1)..Len(fs)
      BY <1>2, <2>2
    <3>2. Reach(fs[i], Depth(fs, i)) <= Depth(fs, Len(fs))
      BY <1>6, <3>1
    <3>3. Len(fs) \in Nat \ {0}
      BY <1>2
    <3>4. Depth(fs, Len(fs)) \in Nat /\ Depth(fs, Len(fs)) < Len(sc)
      <4>1. Depth(fs, Len(fs)) \in Nat
        BY <3>3, DepthNext
      <4>2. Depth(fs, Len(fs) + 1) = Depth(fs, Len(fs)) + (IF fs[Len(fs)].k = "loop" THEN 2 ELSE 1)
        BY <3>3, DepthNext
      <4> QED
        BY <1>1, <4>1, <4>2
    <3> QED
      BY <1>4, <1>7, <3>2, <3>4
  <2> QED
    BY <1>8, <2>1, <2>2
<1> QED
  BY <1>2, <1>4, <1>5, <1>6, <1>7, <1>8

LEMMA GensAre ==
    ASSUME NEW sc, NEW fs, NEW n, NEW m, FramesOK(fs, sc, n, m), NEW i \in 1..(Len(fs) + 1)
    PROVE  /\ Gens(fs, i) \in SUBSET Names
           /\ \A d \in 0..Len(sc) : Gens(fs, i) \cap Vs(sc, d) = {}
<1>1. fs \in Seq(FrameRecs)
  BY DEF FramesOK
<1>2. Len(fs) \in Nat
  BY <1>1, LenProperties
<1>3. \A j \in 1..(i - 1) : j \in 1..Len(fs)
  BY <1>2
<1>4. \A j \in 1..(i - 1) : fs[j].gen \in 0..MaxNames
  BY <1>1, <1>3, FrameType
<1>5. Gens(fs, i) \in SUBSET Names
  <2>1. 0..MaxNames \subseteq {0} \cup Names
    BY ScopesAssumption DEF Names
  <2> QED
    BY <1>4, <2>1 DEF Gens
<1>6. \A j \in 1..(i - 1) : \A d \in 1..Len(sc) : fs[j].gen \notin sc[d].vs
  BY <1>3 DEF FramesOK
<1>7. Len(sc) \in Nat
  <2>1. Len(fs) + 1 \in Nat \ {0}
    BY <1>2
  <2>2. Len(sc) = Depth(fs, Len(fs) + 1)
    BY DEF FramesOK
  <2> QED
    BY <2>1, <2>2, DepthNext
<1>8. \A d \in 0..Len(sc) : \A k \in 1..d : k \in 1..Len(sc)
  BY <1>7
<1> QED
  BY <1>5, <1>6, <1>8 DEF Gens, Vs

LEMMA HereIs ==
    ASSUME NEW sc, NEW fs, NEW n, NEW m, FramesOK(fs, sc, n, m)
    PROVE  Here(sc, fs) = State(Vs(sc, Len(sc)) \cup Gens(fs, Len(fs) + 1), Ds(sc, Len(sc)))
  BY DEF FramesOK, Here, Around, At

\* All that an open statement promises is about states.
LEMMA AtType ==
    ASSUME NEW sc, NEW fs, NEW n, NEW m, FramesOK(fs, sc, n, m), ScopesOK(sc),
           NEW d \in 0..Len(sc), NEW i \in 1..(Len(fs) + 1)
    PROVE  /\ At(sc, fs, d, i) \in States /\ Vs(sc, d) \cup Gens(fs, i) \in SUBSET Names
           /\ Ds(sc, d) \in SUBSET Names
<1>1. Gens(fs, i) \in SUBSET Names
  BY GensAre
<1>2. Vs(sc, d) \in SUBSET Names /\ Ds(sc, d) \in SUBSET Names
  BY VsType
<1> QED
  BY <1>1, <1>2, StateType DEF At

-----------------------------------------------------------------------------
(* The scope stack grows and shrinks.                                       *)

LEMMA ScopeIs ==
    ASSUME NEW id \in Nat, NEW vs \in SUBSET Names
    PROVE  /\ Scope(id, vs) \in ScopeRecs
           /\ Scope(id, vs).id = id /\ Scope(id, vs).vs = vs /\ Scope(id, vs).defers = <<>>
<1>1. <<>> \in Seq([x : Names, v : 0..MaxNames])
  OBVIOUS
<1> QED
  BY <1>1 DEF Scope, ScopeRecs

LEMMA StackPush ==
    ASSUME NEW sc, NEW n \in Nat, NEW p \in Nat, StackOK(sc, n, p),
           NEW l \in Nat, n <= l, l <= MaxNames, NEW vs, vs \subseteq (n + 1)..l
    PROVE  StackOK(Append(sc, Scope(p + 1, vs)), l, p + 1)
<1> DEFINE r == Append(sc, Scope(p + 1, vs))
           N == Len(sc)
<1>1. ScopesOK(sc) /\ sc \in Seq(ScopeRecs) /\ N \in Nat
  BY ScopesLen DEF StackOK, ScopesOK
<1>2. vs \in SUBSET Names
  <2>1. MaxNames \in Nat
    BY ScopesAssumption
  <2>2. (n + 1)..l \subseteq 1..MaxNames
    BY <2>1
  <2> QED
    BY <2>2 DEF Names
<1>3. /\ Scope(p + 1, vs) \in ScopeRecs
      /\ Scope(p + 1, vs).id = p + 1 /\ Scope(p + 1, vs).vs = vs
      /\ Scope(p + 1, vs).defers = <<>>
  BY <1>2, ScopeIs
<1>4. /\ r \in Seq(ScopeRecs) /\ Len(r) = N + 1
      /\ r[N + 1] = Scope(p + 1, vs)
      /\ \A k \in 1..N : r[k] = sc[k]
  BY <1>1, <1>3, AppendIs
<1>5. Len(<<>>) = 0 /\ DOMAIN <<>> = {}
  OBVIOUS
<1>6. /\ r[N + 1].id = p + 1 /\ r[N + 1].vs = vs /\ r[N + 1].defers = <<>>
  BY <1>3, <1>4
<1> HIDE DEF r, N
<1>7. \A d \in 1..(N + 1) : d \in 1..N \/ d = N + 1
  BY <1>1
<1>8. \A d \in 1..N : sc[d].vs \subseteq 1..n
  BY DEF StackOK, N
<1>9. \A d \in 1..N : sc[d].vs \cap vs = {}
  BY <1>8
<1>10. \A d \in 1..N : Vs(r, d) = Vs(sc, d)
  <2>1. ASSUME NEW d \in 1..N PROVE Vs(r, d) = Vs(sc, d)
    <3>1. d \in Nat /\ \A k \in 1..d : k \in 1..N
      BY <1>1
    <3> QED
      BY <1>4, <3>1, ScopesSame
  <2> QED
    BY <2>1
<1>11. ScopesOK(r)
  <2>1. \A d \in 1..(N + 1) : Len(r[d].defers) <= 1
    <3>1. \A d \in 1..N : Len(sc[d].defers) <= 1
      BY <1>1 DEF ScopesOK, N
    <3> QED
      BY <1>4, <1>5, <1>6, <1>7, <3>1
  <2>2. \A d, k \in 1..(N + 1) : d # k => r[d].vs \cap r[k].vs = {}
    <3>1. \A d, k \in 1..N : d # k => sc[d].vs \cap sc[k].vs = {}
      BY <1>1 DEF ScopesOK, N
    <3> QED
      BY <1>4, <1>6, <1>7, <1>9, <3>1
  <2>3. \A d, k \in 1..(N + 1) : d # k =>
          \A i \in DOMAIN r[d].defers, j \in DOMAIN r[k].defers :
              r[d].defers[i].x # r[k].defers[j].x
    <3>1. \A d, k \in 1..N : d # k =>
          \A i \in DOMAIN sc[d].defers, j \in DOMAIN sc[k].defers :
              sc[d].defers[i].x # sc[k].defers[j].x
      BY <1>1 DEF ScopesOK, N
    <3> QED
      BY <1>4, <1>5, <1>6, <1>7, <3>1
  <2>4. \A d \in 1..(N + 1) : \A i \in DOMAIN r[d].defers :
          r[d].defers[i].v \in {0} \cup Vs(r, d)
    <3>1. \A d \in 1..N : \A i \in DOMAIN sc[d].defers : sc[d].defers[i].v \in {0} \cup Vs(sc, d)
      BY <1>1 DEF ScopesOK, N
    <3> QED
      BY <1>4, <1>5, <1>6, <1>7, <1>10, <3>1
  <2> QED
    BY <1>4, <2>1, <2>2, <2>3, <2>4 DEF ScopesOK
<1>12. \A d \in 1..(N + 1) : r[d].vs \subseteq 1..l
  <2>1. 1..n \subseteq 1..l /\ vs \subseteq 1..l
    OBVIOUS
  <2> QED
    BY <1>4, <1>6, <1>7, <1>8, <2>1
<1>13. \A d \in 1..(N + 1) : \A i \in DOMAIN r[d].defers : r[d].defers[i].x <= l
  <2>1. ASSUME NEW d \in 1..N, NEW i \in DOMAIN sc[d].defers PROVE sc[d].defers[i].x <= l
    <3>1. sc[d].defers[i].x <= n
      BY DEF StackOK, N
    <3>2. sc[d].defers[i].x \in Names
      <4>1. sc[d].defers \in Seq([x : Names, v : 0..MaxNames])
        BY <1>1, ScopeType DEF N
      <4>2. sc[d].defers[i] \in [x : Names, v : 0..MaxNames]
        BY <4>1, ElementOfSeq, LenProperties
      <4> QED
        BY <4>2
    <3>3. sc[d].defers[i].x \in Int
      BY <3>2 DEF Names
    <3> QED
      BY <3>1, <3>3
  <2> QED
    BY <1>4, <1>5, <1>6, <1>7, <2>1
<1>14. \A d \in 1..N : sc[d].id \in Nat /\ sc[d].id <= p
  BY <1>1, ScopeType DEF StackOK, N
<1>15. \A d \in 1..(N + 1) : r[d].id <= p + 1
  BY <1>4, <1>6, <1>7, <1>14
<1>16. \A d, k \in 1..(N + 1) : r[d].id = r[k].id => d = k
  <2>1. \A d, k \in 1..N : sc[d].id = sc[k].id => d = k
    BY DEF StackOK, N
  <2>2. \A d \in 1..N : sc[d].id # p + 1
    BY <1>14
  <2> QED
    BY <1>4, <1>6, <1>7, <2>1, <2>2
<1> QED
  BY <1>4, <1>11, <1>12, <1>13, <1>15, <1>16 DEF StackOK, r

LEMMA StackPop ==
    ASSUME NEW sc, NEW n, NEW p, StackOK(sc, n, p), sc # <<>>
    PROVE  StackOK(Pop(sc), n, p)
<1> DEFINE r == Pop(sc)
           N == Len(sc) - 1
<1>1. ScopesOK(sc) /\ sc \in Seq(ScopeRecs) /\ Len(sc) \in Nat
  BY ScopesLen DEF StackOK, ScopesOK
<1>2. r \in Seq(ScopeRecs) /\ Len(r) = N /\ N \in Nat /\ \A k \in 1..N : r[k] = sc[k]
  BY <1>1, PopIs
<1>3. \A k \in 1..N : k \in 1..Len(sc)
  BY <1>1
<1> HIDE DEF r, N
<1>4. \A d \in 1..N : Vs(r, d) = Vs(sc, d)
  <2>1. ASSUME NEW d \in 1..N PROVE Vs(r, d) = Vs(sc, d)
    <3>1. d \in Nat /\ \A k \in 1..d : k \in 1..N
      BY <1>2
    <3> QED
      BY <1>2, <3>1, ScopesSame
  <2> QED
    BY <2>1
<1>5. \A d \in 1..N : Len(r[d].defers) <= 1
  BY <1>1, <1>2, <1>3 DEF ScopesOK
<1>6. \A d, k \in 1..N : d # k => r[d].vs \cap r[k].vs = {}
  BY <1>1, <1>2, <1>3 DEF ScopesOK
<1>7. \A d, k \in 1..N : d # k =>
        \A i \in DOMAIN r[d].defers, j \in DOMAIN r[k].defers :
            r[d].defers[i].x # r[k].defers[j].x
  <2>1. \A d, k \in 1..Len(sc) : d # k =>
        \A i \in DOMAIN sc[d].defers, j \in DOMAIN sc[k].defers :
            sc[d].defers[i].x # sc[k].defers[j].x
    BY <1>1 DEF ScopesOK
  <2> QED
    BY <1>2, <1>3, <2>1
<1>8. \A d \in 1..N : \A i \in DOMAIN r[d].defers : r[d].defers[i].v \in {0} \cup Vs(r, d)
  BY <1>1, <1>2, <1>3, <1>4 DEF ScopesOK
<1>9. ScopesOK(r)
  BY <1>2, <1>5, <1>6, <1>7, <1>8 DEF ScopesOK
<1> QED
  BY <1>2, <1>3, <1>9 DEF StackOK, r

\* A declaration, in the scope on top.
LEMMA StackDeclare ==
    ASSUME NEW sc, NEW n \in Nat, NEW p, StackOK(sc, n, p), sc # <<>>, n < MaxNames
    PROVE  LET r == [sc EXCEPT ![Len(sc)].vs = @ \cup {n + 1}]
           IN  /\ StackOK(r, n + 1, p) /\ Len(r) = Len(sc)
               /\ \A k \in 1..(Len(sc) - 1) : r[k] = sc[k]
               /\ \A k \in 1..Len(sc) : r[k].defers = sc[k].defers /\ r[k].id = sc[k].id
               /\ r[Len(sc)].vs = sc[Len(sc)].vs \cup {n + 1}
<1> DEFINE r == [sc EXCEPT ![Len(sc)].vs = @ \cup {n + 1}]
           N == Len(sc)
<1>1. ScopesOK(sc) /\ sc \in Seq(ScopeRecs)
  BY DEF StackOK, ScopesOK
<1>2. N \in Nat \ {0} /\ DOMAIN sc = 1..N
  BY <1>1, EmptySeq, LenProperties
<1>3. sc[N] \in ScopeRecs /\ n + 1 \in Names
  <2>1. MaxNames \in Nat
    BY ScopesAssumption
  <2>2. n + 1 \in Names
    BY <2>1 DEF Names
  <2>3. N \in 1..N
    BY <1>2
  <2> QED
    BY <1>1, <2>2, <2>3, ElementOfSeq
<1>4. [sc[N] EXCEPT !.vs = @ \cup {n + 1}] \in ScopeRecs
  BY <1>3 DEF ScopeRecs
<1>5. r = [sc EXCEPT ![N] = [sc[N] EXCEPT !.vs = @ \cup {n + 1}]]
  OBVIOUS
<1>6. /\ r \in Seq(ScopeRecs) /\ Len(r) = N
      /\ \A k \in 1..N : k # N => r[k] = sc[k]
      /\ r[N] = [sc[N] EXCEPT !.vs = @ \cup {n + 1}]
  <2> DEFINE x == [sc[N] EXCEPT !.vs = @ \cup {n + 1}]
             q == [sc EXCEPT ![N] = x]
  <2>1. x \in ScopeRecs /\ N \in 1..N
    BY <1>2, <1>4
  <2> HIDE DEF x
  <2>2. q \in Seq(ScopeRecs) /\ Len(q) = N /\ \A j \in 1..N : q[j] = IF j = N THEN x ELSE sc[j]
    BY <1>1, <2>1, ExceptSeq
  <2>3. q = r
    BY <1>5 DEF x
  <2> HIDE DEF q, r
  <2>4. /\ r \in Seq(ScopeRecs) /\ Len(r) = N
        /\ \A k \in 1..N : k # N => r[k] = sc[k]
        /\ r[N] = x
    BY <2>1, <2>2, <2>3
  <2> QED
    BY <2>4 DEF x
<1>7. /\ r[N].vs = sc[N].vs \cup {n + 1} /\ r[N].id = sc[N].id
      /\ r[N].defers = sc[N].defers
  BY <1>3, <1>6 DEF ScopeRecs
<1> HIDE DEF r, N
<1>8. \A k \in 1..N : r[k].defers = sc[k].defers /\ r[k].id = sc[k].id
  BY <1>6, <1>7
<1>9. \A k \in 1..N : sc[k].vs \subseteq r[k].vs /\ r[k].vs \subseteq sc[k].vs \cup {n + 1}
  BY <1>6, <1>7
<1>10. \A k \in 1..N : sc[k].vs \subseteq 1..n /\ n + 1 \notin sc[k].vs
  BY DEF StackOK, N
<1>11. \A d \in 1..N : Vs(sc, d) \subseteq Vs(r, d)
  <2>1. ASSUME NEW d \in 1..N PROVE Vs(sc, d) \subseteq Vs(r, d)
    <3>1. \A k \in 1..d : k \in 1..N
      BY <1>2
    <3> QED
      BY <1>9, <3>1 DEF Vs
  <2> QED
    BY <2>1
<1>12. \A d \in 1..N : Len(r[d].defers) <= 1
  BY <1>1, <1>8 DEF ScopesOK, N
<1>13. \A d, k \in 1..N : d # k => r[d].vs \cap r[k].vs = {}
  <2>1. \A d, k \in 1..N : d # k => sc[d].vs \cap sc[k].vs = {}
    BY <1>1 DEF ScopesOK, N
  <2>2. ASSUME NEW d \in 1..N, NEW k \in 1..N, d # k PROVE r[d].vs \cap r[k].vs = {}
    <3>1. CASE d # N /\ k # N
      BY <1>6, <2>1, <2>2, <3>1
    <3>2. CASE d = N
      BY <1>6, <1>7, <1>10, <2>1, <2>2, <3>2
    <3>3. CASE k = N
      BY <1>6, <1>7, <1>10, <2>1, <2>2, <3>3
    <3> QED
      BY <3>1, <3>2, <3>3
  <2> QED
    BY <2>2
<1>14. \A d, k \in 1..N : d # k =>
        \A i \in DOMAIN r[d].defers, j \in DOMAIN r[k].defers :
            r[d].defers[i].x # r[k].defers[j].x
  <2>1. \A d, k \in 1..N : d # k =>
        \A i \in DOMAIN sc[d].defers, j \in DOMAIN sc[k].defers :
            sc[d].defers[i].x # sc[k].defers[j].x
    BY <1>1 DEF ScopesOK, N
  <2> QED
    BY <1>8, <2>1
<1>15. \A d \in 1..N : \A i \in DOMAIN r[d].defers : r[d].defers[i].v \in {0} \cup Vs(r, d)
  <2>1. \A d \in 1..N : \A i \in DOMAIN sc[d].defers : sc[d].defers[i].v \in {0} \cup Vs(sc, d)
    BY <1>1 DEF ScopesOK, N
  <2> QED
    BY <1>8, <1>11, <2>1
<1>16. ScopesOK(r)
  BY <1>6, <1>12, <1>13, <1>14, <1>15 DEF ScopesOK
<1>17. \A d \in 1..N : r[d].vs \subseteq 1..(n + 1)
  BY <1>9, <1>10
<1>18. \A d \in 1..N : \A i \in DOMAIN r[d].defers : r[d].defers[i].x <= n + 1
  <2>1. ASSUME NEW d \in 1..N, NEW i \in DOMAIN sc[d].defers PROVE sc[d].defers[i].x <= n + 1
    <3>1. sc[d].defers[i].x <= n
      BY DEF StackOK, N
    <3>2. sc[d].defers[i].x \in Names
      <4>1. sc[d].defers \in Seq([x : Names, v : 0..MaxNames])
        BY <1>1, ScopeType DEF N
      <4>2. sc[d].defers[i] \in [x : Names, v : 0..MaxNames]
        BY <4>1, ElementOfSeq, LenProperties
      <4> QED
        BY <4>2
    <3>3. sc[d].defers[i].x \in Int
      BY <3>2 DEF Names
    <3> QED
      BY <3>1, <3>3
  <2> QED
    BY <1>8, <2>1
<1>19. \A d \in 1..N : r[d].id <= p
  BY <1>8 DEF StackOK, N
<1>20. \A d, k \in 1..N : r[d].id = r[k].id => d = k
  BY <1>8 DEF StackOK, N
<1>21. StackOK(r, n + 1, p)
  BY <1>6, <1>16, <1>17, <1>18, <1>19, <1>20 DEF StackOK
<1>22. \A k \in 1..(N - 1) : r[k] = sc[k]
  BY <1>2, <1>6
<1> QED
  BY <1>6, <1>7, <1>8, <1>21, <1>22 DEF r, N

\* A defer statement, in the scope on top, whose block uses what is in scope.
InScope(sc, v) == v = 0 \/ \E d \in 1..Len(sc) : v \in sc[d].vs

LEMMA StackDefer ==
    ASSUME NEW sc, NEW n \in Nat, NEW p, StackOK(sc, n, p), sc # <<>>, n < MaxNames,
           NEW v \in 0..MaxNames, InScope(sc, v), sc[Len(sc)].defers = <<>>
    PROVE  LET r == [sc EXCEPT ![Len(sc)].defers = Append(@, [x |-> n + 1, v |-> v])]
           IN  /\ StackOK(r, n + 1, p) /\ Len(r) = Len(sc)
               /\ \A k \in 1..(Len(sc) - 1) : r[k] = sc[k]
               /\ \A k \in 1..Len(sc) : r[k].vs = sc[k].vs /\ r[k].id = sc[k].id
               /\ r[Len(sc)].defers = <<[x |-> n + 1, v |-> v]>>
<1> DEFINE D == [x : Names, v : 0..MaxNames]
           y == [x |-> n + 1, v |-> v]
           r == [sc EXCEPT ![Len(sc)].defers = Append(@, y)]
           N == Len(sc)
<1>0. v = 0 \/ \E d \in 1..Len(sc) : v \in sc[d].vs
  BY DEF InScope
<1> USE <1>0
<1>1. ScopesOK(sc) /\ sc \in Seq(ScopeRecs)
  BY DEF StackOK, ScopesOK
<1>2. N \in Nat \ {0} /\ DOMAIN sc = 1..N /\ N \in 1..N
  BY <1>1, EmptySeq, LenProperties
<1>3. sc[N] \in ScopeRecs /\ y \in D
  <2>1. MaxNames \in Nat
    BY ScopesAssumption
  <2>2. n + 1 \in Names
    BY <2>1 DEF Names
  <2> QED
    BY <1>1, <1>2, <2>2, ElementOfSeq
<1>4. Append(sc[N].defers, y) = <<y>> /\ <<y>> \in Seq(D)
  BY <1>3
<1> DEFINE x == [sc[N] EXCEPT !.defers = <<y>>]
<1>5. x \in ScopeRecs /\ x.defers = <<y>> /\ x.vs = sc[N].vs /\ x.id = sc[N].id
  BY <1>3, <1>4 DEF ScopeRecs
<1>6. r = [sc EXCEPT ![N] = x]
  BY <1>4
<1>7. /\ r \in Seq(ScopeRecs) /\ Len(r) = N
      /\ \A k \in 1..N : k # N => r[k] = sc[k]
      /\ r[N] = x
  <2> DEFINE q == [sc EXCEPT ![N] = x]
  <2> HIDE DEF x
  <2>1. q \in Seq(ScopeRecs) /\ Len(q) = N /\ \A j \in 1..N : q[j] = IF j = N THEN x ELSE sc[j]
    BY <1>1, <1>2, <1>5, ExceptSeq
  <2>2. q = r
    BY <1>6
  <2> HIDE DEF q, r
  <2> QED
    BY <1>2, <2>1, <2>2
<1>8. Len(<<y>>) = 1 /\ DOMAIN <<y>> = {1} /\ <<y>>[1].x = n + 1 /\ <<y>>[1].v = v
  <2>1. Len(<<y>>) = 1 /\ <<y>>[1] = y /\ 1..1 = {1}
    OBVIOUS
  <2> QED
    BY <1>4, <2>1, LenProperties
<1> DEFINE w == <<y>>
<1> HIDE DEF r, N, x, w, y
<1>9. /\ r[N].defers = w /\ r[N].vs = sc[N].vs /\ r[N].id = sc[N].id
      /\ Len(w) = 1 /\ DOMAIN w = {1} /\ w[1].x = n + 1 /\ w[1].v = v
  BY <1>5, <1>7, <1>8 DEF w
<1>10. \A k \in 1..N : r[k].vs = sc[k].vs /\ r[k].id = sc[k].id
  BY <1>7, <1>9
<1>11. \A k \in 1..N : \A i \in DOMAIN sc[k].defers : sc[k].defers[i].x <= n
  BY DEF StackOK, N
<1>12. \A d \in 1..N : Vs(r, d) = Vs(sc, d)
  <2>1. ASSUME NEW d \in 1..N PROVE Vs(r, d) = Vs(sc, d)
    <3>1. \A k \in 1..d : k \in 1..N
      BY <1>2
    <3> QED
      BY <1>10, <3>1 DEF Vs
  <2> QED
    BY <2>1
<1>13. \A d \in 1..N : Len(r[d].defers) <= 1
  <2>1. \A d \in 1..N : Len(sc[d].defers) <= 1
    BY <1>1 DEF ScopesOK, N
  <2>2. Len(r[N].defers) <= 1
    BY <1>9
  <2>3. ASSUME NEW d \in 1..N, d # N PROVE Len(r[d].defers) <= 1
    <3>1. r[d] = sc[d]
      BY <1>7, <2>3
    <3> QED
      BY <2>1, <3>1
  <2> QED
    BY <2>2, <2>3
<1>14. \A d, k \in 1..N : d # k => r[d].vs \cap r[k].vs = {}
  BY <1>1, <1>10 DEF ScopesOK, N
<1>15. \A d, k \in 1..N : d # k =>
        \A i \in DOMAIN r[d].defers, j \in DOMAIN r[k].defers :
            r[d].defers[i].x # r[k].defers[j].x
  <2>1. \A d, k \in 1..N : d # k =>
        \A i \in DOMAIN sc[d].defers, j \in DOMAIN sc[k].defers :
            sc[d].defers[i].x # sc[k].defers[j].x
    BY <1>1 DEF ScopesOK, N
  <2>2. \A k \in 1..N : \A i \in DOMAIN sc[k].defers : sc[k].defers[i].x # n + 1
    BY <1>11
  <2>3. ASSUME NEW d \in 1..N, NEW k \in 1..N, d # k,
               NEW i \in DOMAIN r[d].defers, NEW j \in DOMAIN r[k].defers
        PROVE  r[d].defers[i].x # r[k].defers[j].x
    <3>1. CASE d # N /\ k # N
      BY <1>7, <2>1, <2>3, <3>1
    <3>2. CASE d = N
      <4>1. r[d].defers[i].x = n + 1
        BY <1>9, <3>2
      <4>2. r[k] = sc[k]
        BY <1>7, <2>3, <3>2
      <4> QED
        BY <2>2, <4>1, <4>2
    <3>3. CASE k = N
      <4>1. r[k].defers[j].x = n + 1
        BY <1>9, <3>3
      <4>2. r[d] = sc[d]
        BY <1>7, <2>3, <3>3
      <4> QED
        BY <2>2, <4>1, <4>2
    <3> QED
      BY <3>1, <3>2, <3>3
  <2> QED
    BY <2>3
<1>16. \A d \in 1..N : \A i \in DOMAIN r[d].defers : r[d].defers[i].v \in {0} \cup Vs(r, d)
  <2>1. \A d \in 1..N : \A i \in DOMAIN sc[d].defers : sc[d].defers[i].v \in {0} \cup Vs(sc, d)
    BY <1>1 DEF ScopesOK, N
  <2>2. v \in {0} \cup Vs(sc, N)
    BY DEF Vs, N
  <2>3. ASSUME NEW d \in 1..N, NEW i \in DOMAIN r[d].defers
        PROVE  r[d].defers[i].v \in {0} \cup Vs(r, d)
    <3>1. CASE d # N
      BY <1>7, <1>12, <2>1, <3>1
    <3>2. CASE d = N
      BY <1>2, <1>9, <1>12, <2>2, <3>2
    <3> QED
      BY <3>1, <3>2
  <2> QED
    BY <2>3
<1>17. ScopesOK(r)
  BY <1>7, <1>13, <1>14, <1>15, <1>16 DEF ScopesOK
<1>18. \A d \in 1..N : r[d].vs \subseteq 1..(n + 1)
  <2>1. \A d \in 1..N : sc[d].vs \subseteq 1..n
    BY DEF StackOK, N
  <2>2. 1..n \subseteq 1..(n + 1)
    OBVIOUS
  <2> QED
    BY <1>10, <2>1, <2>2
<1>19. \A d \in 1..N : \A i \in DOMAIN r[d].defers : r[d].defers[i].x <= n + 1
  <2>1. ASSUME NEW d \in 1..N, NEW i \in DOMAIN sc[d].defers PROVE sc[d].defers[i].x <= n + 1
    <3>1. sc[d].defers[i].x <= n
      BY <1>11
    <3>2. sc[d].defers[i].x \in Names
      <4>1. sc[d].defers \in Seq([x : Names, v : 0..MaxNames])
        BY <1>1, ScopeType DEF N
      <4>2. sc[d].defers[i] \in [x : Names, v : 0..MaxNames]
        BY <4>1, ElementOfSeq, LenProperties
      <4> QED
        BY <4>2
    <3>3. sc[d].defers[i].x \in Int
      BY <3>2 DEF Names
    <3> QED
      BY <3>1, <3>3
  <2>2. \A i \in DOMAIN r[N].defers : r[N].defers[i].x <= n + 1
    BY <1>9
  <2> QED
    BY <1>7, <2>1, <2>2
<1>20. \A d \in 1..N : r[d].id <= p
  BY <1>10 DEF StackOK, N
<1>21. \A d, k \in 1..N : r[d].id = r[k].id => d = k
  BY <1>10 DEF StackOK, N
<1>22. StackOK(r, n + 1, p)
  BY <1>7, <1>17, <1>18, <1>19, <1>20, <1>21 DEF StackOK
<1>23. \A k \in 1..(N - 1) : r[k] = sc[k]
  BY <1>2, <1>7
<1> QED
  BY <1>7, <1>9, <1>10, <1>22, <1>23 DEF r, N, w, y

-----------------------------------------------------------------------------
(* The frames when the scopes change, and when a statement opens or ends.   *)

\* The scope on top changed.
LEMMA FramesSame ==
    ASSUME NEW sc, NEW fs, NEW n \in Nat, NEW m, FramesOK(fs, sc, n, m),
           NEW r, Len(r) = Len(sc),
           \A k \in 1..(Len(sc) - 1) : r[k].defers = sc[k].defers,
           \A k \in 1..Len(sc) : r[k].vs \subseteq sc[k].vs \cup {n + 1}
    PROVE  FramesOK(fs, r, n + 1, m)
<1>1. fs \in Seq(FrameRecs)
  BY DEF FramesOK
<1>2. \A i \in 1..Len(fs) : fs[i].gen <= n /\ fs[i].gen \in 0..MaxNames
  BY <1>1, FrameType DEF FramesOK
<1>3. \A i \in 1..Len(fs) : fs[i].gen <= n + 1 /\ fs[i].gen # n + 1
  BY <1>2
<1>4. \A i \in 1..Len(fs) : \A d \in 1..Len(r) : fs[i].gen \notin r[d].vs
  <2>1. \A i \in 1..Len(fs) : \A d \in 1..Len(sc) : fs[i].gen \notin sc[d].vs
    BY DEF FramesOK
  <2> QED
    BY <1>3, <2>1
<1>5. ASSUME NEW i \in 1..Len(fs), fs[i].k = "loop"
      PROVE  fs[i].body = Depth(fs, i) + 2 /\ r[Depth(fs, i) + 1].defers = <<>>
  <2>1. fs[i].body = Depth(fs, i) + 2 /\ sc[Depth(fs, i) + 1].defers = <<>>
    BY <1>5 DEF FramesOK
  <2>2. Depth(fs, i) \in Nat /\ Depth(fs, i) + 2 <= Len(sc) /\ Len(sc) \in Nat
    BY <1>5, DepthsFit
  <2>3. Depth(fs, i) + 1 \in 1..(Len(sc) - 1)
    BY <2>2
  <2> QED
    BY <2>1, <2>3
<1> QED
  BY <1>3, <1>4, <1>5 DEF FramesOK

\* Frames are read from the bottom.
LEMMA FramesPop ==
    ASSUME NEW sc, NEW fs, NEW n, NEW m, FramesOK(fs, sc, n, m), fs # <<>>,
           NEW r, Len(r) = Depth(fs, Len(fs)), \A k \in 1..Len(r) : r[k] = sc[k]
    PROVE  FramesOK(Pop(fs), r, n, m)
<1> DEFINE gs == Pop(fs)
           N == Len(fs) - 1
<1>1. fs \in Seq(FrameRecs)
  BY DEF FramesOK
<1>2. gs \in Seq(FrameRecs) /\ Len(gs) = N /\ N \in Nat /\ \A k \in 1..N : gs[k] = fs[k]
  BY <1>1, PopIs
<1>3. \A i \in 1..N : i \in 1..Len(fs)
  BY <1>2
<1>4. N + 1 = Len(fs)
  BY <1>2
<1> HIDE DEF gs, N
<1>5. \A i \in 1..(N + 1) : Depth(gs, i) = Depth(fs, i)
  <2>1. ASSUME NEW i \in 1..(N + 1) PROVE Depth(gs, i) = Depth(fs, i)
    <3>1. i \in Nat /\ \A j \in 1..(i - 1) : j \in 1..N
      BY <1>2
    <3> QED
      BY <1>2, <3>1, DepthSame
  <2> QED
    BY <2>1
<1>6. Len(r) = Depth(gs, N + 1)
  <2>1. N + 1 \in 1..(N + 1)
    BY <1>2
  <2> QED
    BY <1>4, <1>5, <2>1
<1>7. \A i \in 1..N : Blocks(gs[i]) /\ Low(gs[i]) > 1 /\ gs[i].merge <= m
  BY <1>2, <1>3 DEF FramesOK
<1>8. \A i, j \in 1..N : i < j => gs[i].merge < Low(gs[j])
  BY <1>2, <1>3 DEF FramesOK
<1>9. Len(r) \in Nat /\ Len(r) <= Len(sc) /\ Len(sc) \in Nat
  <2>1. Len(fs) \in 1..Len(fs)
    BY <1>2, <1>4
  <2> QED
    BY <2>1, DepthsFit
<1>10. ASSUME NEW i \in 1..N, gs[i].k = "loop"
       PROVE  gs[i].body = Depth(gs, i) + 2 /\ r[Depth(gs, i) + 1].defers = <<>>
  <2>1. fs[i] = gs[i] /\ i \in 1..Len(fs)
    BY <1>2, <1>3
  <2>2. fs[i].body = Depth(fs, i) + 2 /\ sc[Depth(fs, i) + 1].defers = <<>>
    BY <1>10, <2>1 DEF FramesOK
  <2>3. Depth(gs, i) = Depth(fs, i)
    BY <1>2, <1>5
  <2>4. Depth(fs, i) + 1 \in 1..Len(r)
    <3>1. i \in Nat \ {0} /\ Len(fs) \in Nat /\ i < Len(fs)
      BY <1>2, <1>4
    <3>2. Depth(fs, i) + 2 <= Depth(fs, Len(fs)) /\ Depth(fs, i) \in Nat
      BY <1>10, <2>1, <3>1, DepthGrows, DepthNext
    <3> QED
      BY <1>9, <3>2
  <2> QED
    BY <2>1, <2>2, <2>3, <2>4
<1>11. \A i \in 1..N : gs[i].k # "loop" => gs[i].gen = 0
  BY <1>2, <1>3 DEF FramesOK
<1>12. \A i \in 1..N : gs[i].gen <= n
  BY <1>2, <1>3 DEF FramesOK
<1>13. \A i \in 1..N : \A d \in 1..Len(r) : gs[i].gen \notin r[d].vs
  <2>1. \A d \in 1..Len(r) : d \in 1..Len(sc)
    BY <1>9
  <2>2. \A i \in 1..Len(fs) : \A d \in 1..Len(sc) : fs[i].gen \notin sc[d].vs
    BY DEF FramesOK
  <2> QED
    BY <1>2, <1>3, <2>1, <2>2
<1>14. \A i, j \in 1..N : gs[i].gen = gs[j].gen /\ gs[i].gen # 0 => i = j
  <2>1. \A i, j \in 1..Len(fs) : fs[i].gen = fs[j].gen /\ fs[i].gen # 0 => i = j
    BY DEF FramesOK
  <2> QED
    BY <1>2, <1>3, <2>1
<1> QED
  BY <1>2, <1>6, <1>7, <1>8, <1>10, <1>11, <1>12, <1>13, <1>14 DEF FramesOK, gs

LEMMA FramesPush ==
    ASSUME NEW sc, NEW fs, NEW n \in Nat, NEW m \in Nat \ {0}, FramesOK(fs, sc, n, m),
           \A d \in 1..Len(sc) : sc[d].vs \subseteq 1..n,
           NEW f \in FrameRecs, NEW l \in Nat, NEW q \in Nat, n <= l,
           Blocks(f), Low(f) > m, f.merge <= q, m <= q,
           NEW r, Len(r) = Len(sc) + (IF f.k = "loop" THEN 2 ELSE 1),
           \A k \in 1..Len(sc) : r[k] = sc[k],
           \A k \in (Len(sc) + 1)..Len(r) : r[k].vs \subseteq (n + 1)..l /\ f.gen \notin r[k].vs,
           f.k = "loop" => f.body = Len(sc) + 2 /\ r[Len(sc) + 1].defers = <<>>,
           f.k # "loop" => f.gen = 0, f.gen \in {0} \cup (n + 1)..l
    PROVE  FramesOK(Append(fs, f), r, l, q)
<1> DEFINE gs == Append(fs, f)
           N == Len(fs)
<1>1. fs \in Seq(FrameRecs)
  BY DEF FramesOK
<1>2. /\ gs \in Seq(FrameRecs) /\ Len(gs) = N + 1 /\ N \in Nat /\ gs[N + 1] = f
      /\ \A k \in 1..N : gs[k] = fs[k]
  BY <1>1, AppendIs
<1> HIDE DEF gs, N
<1>3. \A i \in 1..(N + 1) : i \in 1..N \/ i = N + 1
  BY <1>2
<1>4. \A i \in 1..(N + 1) : Depth(gs, i) = Depth(fs, i)
  <2>1. ASSUME NEW i \in 1..(N + 1) PROVE Depth(gs, i) = Depth(fs, i)
    <3>1. i \in Nat /\ \A j \in 1..(i - 1) : j \in 1..N
      BY <1>2
    <3>2. \A j \in 1..(i - 1) : gs[j].k = fs[j].k
      BY <1>2, <3>1
    <3> QED
      BY <3>1, <3>2, DepthSame
  <2> QED
    BY <2>1
<1>5. Len(sc) = Depth(fs, N + 1) /\ Len(sc) \in Nat
  <2>1. N + 1 \in Nat \ {0}
    BY <1>2
  <2>2. Len(sc) = Depth(fs, N + 1)
    BY DEF FramesOK, N
  <2> QED
    BY <2>1, <2>2, DepthNext
<1>6. Depth(gs, N + 1) = Len(sc)
  <2>1. N + 1 \in 1..(N + 1)
    BY <1>2
  <2> QED
    BY <1>4, <1>5, <2>1
<1>7. Len(r) = Depth(gs, (N + 1) + 1)
  <2>1. N + 1 \in Nat \ {0}
    BY <1>2
  <2>2. Depth(gs, (N + 1) + 1) = Depth(gs, N + 1) + (IF gs[N + 1].k = "loop" THEN 2 ELSE 1)
    BY <2>1, DepthNext
  <2> QED
    BY <1>2, <1>6, <2>2
<1>8. \A i \in 1..N : /\ Blocks(fs[i]) /\ Low(fs[i]) > 1 /\ Low(fs[i]) \in Nat
                      /\ fs[i].merge \in Nat /\ fs[i].merge <= m
  <2>1. ASSUME NEW i \in 1..N
        PROVE  /\ Blocks(fs[i]) /\ Low(fs[i]) > 1 /\ Low(fs[i]) \in Nat
               /\ fs[i].merge \in Nat /\ fs[i].merge <= m
    <3>1. i \in 1..Len(fs)
      BY DEF N
    <3>2. Blocks(fs[i]) /\ fs[i].merge <= m
      BY <3>1 DEF FramesOK
    <3> QED
      BY <3>1, <3>2, FrameFacts
  <2> QED
    BY <2>1
<1>9. Low(f) \in Nat /\ f.merge \in Nat
  <2>1. f.test \in Nat /\ f.merge \in Nat /\ f.rest \in Seq(Nat)
    BY DEF FrameRecs
  <2>2. Len(f.rest) \in Nat
    BY <2>1, LenProperties
  <2>3. Low(f) \in Int
    BY <2>1, <2>2 DEF Low
  <2> QED
    BY <2>1, <2>3
<1>10. \A i \in 1..(N + 1) : Blocks(gs[i]) /\ Low(gs[i]) > 1 /\ gs[i].merge <= q
  <2>1. ASSUME NEW i \in 1..N PROVE Blocks(gs[i]) /\ Low(gs[i]) > 1 /\ gs[i].merge <= q
    <3>1. gs[i] = fs[i]
      BY <1>2
    <3>2. fs[i].merge \in Nat /\ fs[i].merge <= m
      BY <1>8
    <3>3. fs[i].merge <= q
      BY <3>2
    <3> QED
      BY <1>8, <3>1, <3>3
  <2>2. Blocks(f) /\ Low(f) > 1 /\ f.merge <= q
    BY <1>9
  <2> QED
    BY <1>2, <1>3, <2>1, <2>2
<1>11. \A i, j \in 1..(N + 1) : i < j => gs[i].merge < Low(gs[j])
  <2>1. ASSUME NEW i \in 1..(N + 1), NEW j \in 1..(N + 1), i < j PROVE gs[i].merge < Low(gs[j])
    <3>1. i \in 1..N
      BY <1>2, <2>1
    <3>2. CASE j \in 1..N
      BY <1>2, <2>1, <3>1, <3>2 DEF FramesOK, N
    <3>3. CASE j = N + 1
      <4>1. fs[i].merge <= m /\ fs[i].merge \in Nat
        BY <1>8, <3>1
      <4>2. gs[i] = fs[i] /\ gs[j] = f
        BY <1>2, <3>1, <3>3
      <4> QED
        BY <1>9, <4>1, <4>2
    <3> QED
      BY <1>3, <3>2, <3>3
  <2> QED
    BY <2>1
<1>12. ASSUME NEW i \in 1..(N + 1), gs[i].k = "loop"
       PROVE  gs[i].body = Depth(gs, i) + 2 /\ r[Depth(gs, i) + 1].defers = <<>>
  <2>1. CASE i \in 1..N
    <3>1. fs[i].k = "loop" /\ gs[i] = fs[i] /\ i \in 1..Len(fs) /\ Depth(gs, i) = Depth(fs, i)
      BY <1>2, <1>4, <1>12, <2>1 DEF N
    <3>2. fs[i].body = Depth(fs, i) + 2 /\ sc[Depth(fs, i) + 1].defers = <<>>
      BY <3>1 DEF FramesOK
    <3>3. Depth(fs, i) + 2 <= Len(sc) /\ Depth(fs, i) \in Nat
      BY <3>1, DepthsFit
    <3>4. Depth(fs, i) + 1 \in 1..Len(sc)
      BY <1>5, <3>3
    <3> QED
      BY <3>1, <3>2, <3>4
  <2>2. CASE i = N + 1
    BY <1>2, <1>6, <1>12, <2>2
  <2> QED
    BY <1>3, <2>1, <2>2
<1>13. \A i \in 1..(N + 1) : gs[i].k # "loop" => gs[i].gen = 0
  <2>1. \A i \in 1..N : fs[i].k # "loop" => fs[i].gen = 0
    BY DEF FramesOK, N
  <2> QED
    BY <1>2, <1>3, <2>1
<1>14. \A i \in 1..N : fs[i].gen \in 0..n
  <2>1. \A i \in 1..N : fs[i].gen <= n
    BY DEF FramesOK, N
  <2>2. \A i \in 1..N : fs[i].gen \in 0..MaxNames
    BY <1>1, FrameType DEF N
  <2>3. \A g \in 0..MaxNames : g <= n => g \in 0..n
    BY ScopesAssumption
  <2> QED
    BY <2>1, <2>2, <2>3
<1>15. \A i \in 1..(N + 1) : gs[i].gen <= l
  <2>1. \A g \in 0..n : g <= l
    OBVIOUS
  <2>2. f.gen <= l
    OBVIOUS
  <2> QED
    BY <1>2, <1>3, <1>14, <2>1, <2>2
<1>16. \A i \in 1..(N + 1) : \A d \in 1..Len(r) : gs[i].gen \notin r[d].vs
  <2>1. ASSUME NEW i \in 1..(N + 1), NEW d \in 1..Len(r) PROVE gs[i].gen \notin r[d].vs
    <3>1. d \in 1..Len(sc) \/ d \in (Len(sc) + 1)..Len(r)
      BY <1>5
    <3>2. CASE i \in 1..N /\ d \in 1..Len(sc)
      BY <1>2, <3>2 DEF FramesOK, N
    <3>3. CASE i \in 1..N /\ d \in (Len(sc) + 1)..Len(r)
      <4>1. gs[i].gen \in 0..n /\ r[d].vs \subseteq (n + 1)..l
        BY <1>2, <1>14, <3>3
      <4> QED
        BY <4>1
    <3>4. CASE i = N + 1 /\ d \in 1..Len(sc)
      <4>1. r[d].vs \subseteq 1..n /\ gs[i] = f
        BY <1>2, <3>4
      <4>2. f.gen \notin 1..n
        OBVIOUS
      <4> QED
        BY <4>1, <4>2
    <3>5. CASE i = N + 1 /\ d \in (Len(sc) + 1)..Len(r)
      BY <1>2, <3>5
    <3> QED
      BY <1>3, <3>1, <3>2, <3>3, <3>4, <3>5
  <2> QED
    BY <2>1
<1>17. \A i, j \in 1..(N + 1) : gs[i].gen = gs[j].gen /\ gs[i].gen # 0 => i = j
  <2>1. \A i, j \in 1..N : fs[i].gen = fs[j].gen /\ fs[i].gen # 0 => i = j
    BY DEF FramesOK, N
  <2>2. \A i \in 1..N : fs[i].gen # 0 => fs[i].gen # f.gen
    <3>1. \A g \in 0..n : g # 0 => g # f.gen
      OBVIOUS
    <3> QED
      BY <1>14, <3>1
  <2>3. ASSUME NEW i \in 1..(N + 1), NEW j \in 1..(N + 1), gs[i].gen = gs[j].gen, gs[i].gen # 0
        PROVE  i = j
    <3>1. CASE i \in 1..N /\ j \in 1..N
      BY <1>2, <2>1, <2>3, <3>1
    <3>2. CASE i \in 1..N /\ j = N + 1
      BY <1>2, <2>2, <2>3, <3>2
    <3>3. CASE i = N + 1 /\ j \in 1..N
      BY <1>2, <2>2, <2>3, <3>3
    <3> QED
      BY <1>3, <3>1, <3>2, <3>3
  <2> QED
    BY <2>3
<1> QED
  BY <1>2, <1>7, <1>10, <1>11, <1>12, <1>13, <1>15, <1>16, <1>17 DEF FramesOK, gs

\* The frames keep what the rest of the stack depends on.
LEMMA FramesLike ==
    ASSUME NEW sc, NEW fs, NEW n, NEW m \in Nat, FramesOK(fs, sc, n, m),
           NEW gs \in Seq(FrameRecs), Len(gs) = Len(fs),
           \A i \in 1..Len(fs) : /\ gs[i].k = fs[i].k /\ gs[i].gen = fs[i].gen
                                 /\ gs[i].merge = fs[i].merge /\ gs[i].body = fs[i].body
                                 /\ Blocks(gs[i]) /\ Low(fs[i]) <= Low(gs[i]),
           NEW r, Len(r) = Len(sc),
           \A k \in 1..(Len(sc) - 1) : r[k].defers = sc[k].defers,
           \A k \in 1..Len(sc) : r[k].vs \subseteq sc[k].vs
    PROVE  FramesOK(gs, r, n, m) /\ \A i \in 1..(Len(fs) + 1) : Depth(gs, i) = Depth(fs, i)
<1> DEFINE N == Len(fs)
<1>1. fs \in Seq(FrameRecs) /\ N \in Nat
  BY LenProperties DEF FramesOK
<1>2. \A i \in 1..(N + 1) : Depth(gs, i) = Depth(fs, i)
  <2>1. ASSUME NEW i \in 1..(N + 1) PROVE Depth(gs, i) = Depth(fs, i)
    <3>1. i \in Nat /\ \A j \in 1..(i - 1) : j \in 1..N
      BY <1>1
    <3>2. \A j \in 1..(i - 1) : gs[j].k = fs[j].k
      BY <3>1
    <3> QED
      BY <3>1, <3>2, DepthSame
  <2> QED
    BY <2>1
<1>3. Len(r) = Depth(gs, Len(gs) + 1)
  <2>1. N + 1 \in 1..(N + 1) /\ Len(sc) = Depth(fs, N + 1)
    BY <1>1 DEF FramesOK
  <2> QED
    BY <1>2, <2>1
<1>4. \A i \in 1..N : Low(fs[i]) \in Nat /\ Low(fs[i]) > 1 /\ fs[i].merge \in Nat /\ fs[i].merge <= m
  <2>1. ASSUME NEW i \in 1..N
        PROVE  Low(fs[i]) \in Nat /\ Low(fs[i]) > 1 /\ fs[i].merge \in Nat /\ fs[i].merge <= m
    <3>1. fs[i].merge \in 1..m /\ Low(fs[i]) \in Nat /\ Low(fs[i]) > 1
      BY FrameFacts
    <3> QED
      BY <3>1
  <2> QED
    BY <2>1
<1>5. \A i \in 1..N : Low(gs[i]) \in Int
  <2>1. ASSUME NEW i \in 1..N PROVE Low(gs[i]) \in Int
    <3>1. gs[i].test \in Nat /\ gs[i].merge \in Nat /\ Len(gs[i].rest) \in Nat
      BY FrameType
    <3> QED
      BY <3>1 DEF Low
  <2> QED
    BY <2>1
<1>6. \A i \in 1..N : Blocks(gs[i]) /\ Low(gs[i]) > 1 /\ gs[i].merge <= m
  <2>1. ASSUME NEW i \in 1..N PROVE Blocks(gs[i]) /\ Low(gs[i]) > 1 /\ gs[i].merge <= m
    <3>1. Low(fs[i]) \in Nat /\ Low(fs[i]) > 1 /\ fs[i].merge <= m
      BY <1>4
    <3>2. Blocks(gs[i]) /\ Low(fs[i]) <= Low(gs[i]) /\ gs[i].merge = fs[i].merge /\ Low(gs[i]) \in Int
      BY <1>5
    <3> QED
      BY <3>1, <3>2
  <2> QED
    BY <2>1
<1>7. \A i, j \in 1..N : i < j => gs[i].merge < Low(gs[j])
  <2>1. ASSUME NEW i \in 1..N, NEW j \in 1..N, i < j PROVE gs[i].merge < Low(gs[j])
    <3>1. fs[i].merge < Low(fs[j])
      BY <2>1 DEF FramesOK
    <3>2. /\ gs[i].merge = fs[i].merge /\ Low(fs[j]) <= Low(gs[j]) /\ Low(gs[j]) \in Int
          /\ Low(fs[j]) \in Nat /\ fs[i].merge \in Nat
      BY <1>4, <1>5
    <3> QED
      BY <3>1, <3>2
  <2> QED
    BY <2>1
<1>8. ASSUME NEW i \in 1..N, gs[i].k = "loop"
      PROVE  gs[i].body = Depth(gs, i) + 2 /\ r[Depth(gs, i) + 1].defers = <<>>
  <2>1. fs[i].k = "loop" /\ gs[i].body = fs[i].body /\ Depth(gs, i) = Depth(fs, i)
    BY <1>1, <1>2, <1>8
  <2>2. fs[i].body = Depth(fs, i) + 2 /\ sc[Depth(fs, i) + 1].defers = <<>>
    BY <2>1 DEF FramesOK
  <2>3. Depth(fs, i) \in Nat /\ Depth(fs, i) + 2 <= Len(sc) /\ Len(sc) \in Nat
    BY <2>1, DepthsFit
  <2>4. Depth(fs, i) + 1 \in 1..(Len(sc) - 1)
    BY <2>3
  <2> QED
    BY <2>1, <2>2, <2>4
<1>9. \A i \in 1..N : gs[i].k # "loop" => gs[i].gen = 0
  BY DEF FramesOK
<1>10. \A i \in 1..N : gs[i].gen <= n
  BY DEF FramesOK
<1>11. \A i \in 1..N : \A d \in 1..Len(r) : gs[i].gen \notin r[d].vs
  <2>1. \A i \in 1..N : \A d \in 1..Len(sc) : fs[i].gen \notin sc[d].vs
    BY DEF FramesOK
  <2> QED
    BY <2>1
<1>12. \A i, j \in 1..N : gs[i].gen = gs[j].gen /\ gs[i].gen # 0 => i = j
  BY DEF FramesOK
<1> QED
  BY <1>2, <1>3, <1>6, <1>7, <1>8, <1>9, <1>10, <1>11, <1>12 DEF FramesOK

\* The next block of an if or a switch.
LEMMA NextFrame ==
    ASSUME NEW sc, NEW fs, NEW n, NEW m \in Nat, FramesOK(fs, sc, n, m), fs # <<>>,
           fs[Len(fs)].k # "loop", fs[Len(fs)].rest # <<>>
    PROVE  LET f == fs[Len(fs)]
               gs == [fs EXCEPT ![Len(fs)].rest = Tail(@)]
           IN  /\ gs \in Seq(FrameRecs) /\ Len(gs) = Len(fs)
               /\ \A i \in 1..(Len(fs) - 1) : gs[i] = fs[i]
               /\ \A i \in 1..Len(fs) :
                     /\ gs[i].k = fs[i].k /\ gs[i].gen = fs[i].gen /\ gs[i].old = fs[i].old
                     /\ gs[i].merge = fs[i].merge /\ gs[i].body = fs[i].body
                     /\ gs[i].incr = fs[i].incr /\ gs[i].clean = fs[i].clean
                     /\ gs[i].jumped = fs[i].jumped
                     /\ Blocks(gs[i]) /\ Low(fs[i]) <= Low(gs[i])
               /\ Head(f.rest) = Low(f) /\ Low(gs[Len(fs)]) = Low(f) + 1 /\ Low(f) < f.merge
               /\ Head(Tail(f.rest) \o <<f.merge>>) = Low(gs[Len(fs)])
<1> DEFINE N == Len(fs)
           f == fs[N]
           g == [f EXCEPT !.rest = Tail(f.rest)]
           gs == [fs EXCEPT ![N].rest = Tail(@)]
           L == Len(f.rest)
<1>1. fs \in Seq(FrameRecs) /\ N \in Nat \ {0} /\ N \in 1..N
  <2>1. fs \in Seq(FrameRecs)
    BY DEF FramesOK
  <2>2. N \in Nat \ {0}
    BY <2>1, EmptySeq
  <2> QED
    BY <2>1, <2>2
<1>2. f \in FrameRecs /\ f.rest \in Seq(Nat) /\ L \in Nat /\ f.merge \in Nat
  BY <1>1, FrameType
<1>3. L \in Nat \ {0}
  BY <1>2, EmptySeq
<1>4. /\ Tail(f.rest) \in Seq(Nat) /\ Len(Tail(f.rest)) = L - 1
      /\ \A j \in 1..(L - 1) : Tail(f.rest)[j] = f.rest[j + 1]
      /\ Head(f.rest) = f.rest[1]
  BY <1>2, HeadTailProperties
<1>5. g \in FrameRecs
  BY <1>2, <1>4 DEF FrameRecs
<1>6. /\ gs \in Seq(FrameRecs) /\ Len(gs) = N /\ gs[N] = g
      /\ \A i \in 1..N : i # N => gs[i] = fs[i]
  <2> DEFINE q == [fs EXCEPT ![N] = g]
  <2>1. gs = q
    OBVIOUS
  <2> HIDE DEF g
  <2>2. q \in Seq(FrameRecs) /\ Len(q) = N /\ \A j \in 1..N : q[j] = IF j = N THEN g ELSE fs[j]
    BY <1>1, <1>5, ExceptSeq
  <2> HIDE DEF gs, q
  <2> QED
    BY <1>1, <2>1, <2>2
<1>7. /\ g.k = f.k /\ g.gen = f.gen /\ g.merge = f.merge /\ g.body = f.body /\ g.old = f.old
      /\ g.incr = f.incr /\ g.clean = f.clean /\ g.jumped = f.jumped /\ g.rest = Tail(f.rest)
  BY <1>2 DEF FrameRecs
<1>8. f.k # "loop" /\ Blocks(f)
  BY <1>1 DEF FramesOK
<1>9. \A j \in 1..L : f.rest[j] = f.merge - L + j - 1
  BY <1>8 DEF Blocks
<1>10. Low(f) = f.merge - L /\ Low(g) = f.merge - (L - 1)
  BY <1>4, <1>7, <1>8 DEF Low
<1> HIDE DEF f, g, gs, L
<1>11. Blocks(g)
  <2>1. ASSUME NEW j \in 1..(L - 1) PROVE g.rest[j] = g.merge - (L - 1) + j - 1
    <3>1. j + 1 \in 1..L
      BY <1>3
    <3>2. f.rest[j + 1] = f.merge - L + (j + 1) - 1
      BY <1>9, <3>1
    <3>3. f.merge - L + (j + 1) - 1 = f.merge - (L - 1) + j - 1
      BY <1>2, <1>3
    <3> QED
      BY <1>4, <1>7, <3>2, <3>3
  <2> QED
    BY <1>4, <1>7, <1>8, <2>1 DEF Blocks
<1>12. Low(f) \in Int /\ Low(g) = Low(f) + 1 /\ Low(f) < f.merge
  BY <1>2, <1>3, <1>10
<1>13. f.rest[1] = Low(f)
  <2>1. 1 \in 1..L /\ f.merge - L + 1 - 1 = f.merge - L
    BY <1>2, <1>3
  <2> QED
    BY <1>9, <1>10, <2>1
<1>14. Head(Tail(f.rest) \o <<f.merge>>) = Low(g)
  <2> DEFINE t == Tail(f.rest)
             u == t \o <<f.merge>>
  <2>1. t \in Seq(Nat) /\ <<f.merge>> \in Seq(Nat) /\ Len(<<f.merge>>) = 1 /\ <<f.merge>>[1] = f.merge
    BY <1>2, <1>4
  <2>2. /\ u \in Seq(Nat) /\ Len(u) = Len(t) + 1
        /\ \A j \in 1..Len(t) : u[j] = t[j]
        /\ \A j \in 1..1 : u[Len(t) + j] = <<f.merge>>[j]
    BY <2>1, Joined
  <2>3. Len(t) \in Nat /\ Len(t) = L - 1 /\ \A j \in 1..(L - 1) : t[j] = f.rest[j + 1]
    BY <1>3, <1>4
  <2> HIDE DEF u, t
  <2>4. Head(u) = u[1]
    <3>1. u # <<>>
      BY <2>2, <2>3, EmptySeq
    <3> QED
      BY <2>2, <3>1, HeadTailProperties
  <2>5. CASE L = 1
    <3>1. Len(t) + 1 = 1 /\ 1 \in 1..1
      BY <2>3, <2>5
    <3>2. u[1] = f.merge
      BY <2>1, <2>2, <3>1
    <3> QED
      BY <1>2, <1>10, <2>4, <2>5, <3>2 DEF u, t
  <2>6. CASE L # 1
    <3>1. 1 \in 1..(L - 1) /\ 2 \in 1..L
      BY <1>3, <2>6
    <3>2. u[1] = f.rest[2]
      BY <2>2, <2>3, <3>1
    <3>3. f.rest[2] = f.merge - L + 2 - 1
      BY <1>9, <3>1
    <3>4. f.merge - L + 2 - 1 = f.merge - (L - 1)
      BY <1>2, <1>3
    <3> QED
      BY <1>10, <2>4, <3>2, <3>3, <3>4 DEF u, t
  <2> QED
    BY <2>5, <2>6
<1>15. \A i \in 1..(N - 1) : gs[i] = fs[i]
  BY <1>1, <1>6
<1>16. ASSUME NEW i \in 1..N
       PROVE  /\ gs[i].k = fs[i].k /\ gs[i].gen = fs[i].gen /\ gs[i].old = fs[i].old
              /\ gs[i].merge = fs[i].merge /\ gs[i].body = fs[i].body
              /\ gs[i].incr = fs[i].incr /\ gs[i].clean = fs[i].clean
              /\ gs[i].jumped = fs[i].jumped
              /\ Blocks(gs[i]) /\ Low(fs[i]) <= Low(gs[i])
  <2>1. CASE i = N
    BY <1>6, <1>7, <1>11, <1>12, <2>1 DEF f
  <2>2. CASE i # N
    <3>1. gs[i] = fs[i]
      BY <1>6, <2>2
    <3>2. Blocks(fs[i]) /\ Low(fs[i]) \in Nat
      BY FrameFacts DEF FramesOK
    <3> QED
      BY <3>1, <3>2
  <2> QED
    BY <2>1, <2>2
<1> QED
  BY <1>4, <1>6, <1>12, <1>13, <1>14, <1>15, <1>16 DEF f, gs

\* A jump out of loop i.
LEMMA JumpedFrame ==
    ASSUME NEW fs \in Seq(FrameRecs), NEW i \in 1..Len(fs)
    PROVE  LET gs == [fs EXCEPT ![i].jumped = TRUE]
           IN  /\ gs \in Seq(FrameRecs) /\ Len(gs) = Len(fs)
               /\ \A j \in 1..Len(fs) : j # i => gs[j] = fs[j]
               /\ gs[i].jumped = TRUE
               /\ \A j \in 1..Len(fs) :
                     /\ gs[j].k = fs[j].k /\ gs[j].gen = fs[j].gen /\ gs[j].old = fs[j].old
                     /\ gs[j].merge = fs[j].merge /\ gs[j].body = fs[j].body
                     /\ gs[j].incr = fs[j].incr /\ gs[j].clean = fs[j].clean
                     /\ gs[j].test = fs[j].test /\ gs[j].rest = fs[j].rest
                     /\ Low(gs[j]) = Low(fs[j]) /\ PendOf(gs[j]) = PendOf(fs[j])
                     /\ Blocks(gs[j]) = Blocks(fs[j])
<1> DEFINE f == fs[i]
           g == [f EXCEPT !.jumped = TRUE]
           gs == [fs EXCEPT ![i].jumped = TRUE]
<1>1. f \in FrameRecs
  BY FrameType
<1>2. /\ g \in FrameRecs /\ g.jumped = TRUE /\ g.k = f.k /\ g.gen = f.gen /\ g.old = f.old
      /\ g.merge = f.merge /\ g.body = f.body /\ g.incr = f.incr /\ g.clean = f.clean
      /\ g.test = f.test /\ g.rest = f.rest
  BY <1>1 DEF FrameRecs
<1>3. /\ gs \in Seq(FrameRecs) /\ Len(gs) = Len(fs) /\ gs[i] = g
      /\ \A j \in 1..Len(fs) : j # i => gs[j] = fs[j]
  <2> DEFINE q == [fs EXCEPT ![i] = g]
  <2>1. gs = q
    OBVIOUS
  <2> HIDE DEF g
  <2>2. q \in Seq(FrameRecs) /\ Len(q) = Len(fs)
        /\ \A j \in 1..Len(fs) : q[j] = IF j = i THEN g ELSE fs[j]
    BY <1>2, ExceptSeq
  <2> HIDE DEF gs, q
  <2> QED
    BY <2>1, <2>2
<1>4. Low(g) = Low(f) /\ PendOf(g) = PendOf(f) /\ Blocks(g) = Blocks(f)
  <2> HIDE DEF g, f
  <2> QED
    BY <1>2 DEF Low, PendOf, First, Blocks
<1> HIDE DEF g, gs
<1> QED
  BY <1>2, <1>3, <1>4 DEF gs

-----------------------------------------------------------------------------
(* The blocks that are still to be filled.                                  *)

LEMMA PendPop ==
    ASSUME NEW sc, NEW fs, NEW n, NEW m \in Nat, FramesOK(fs, sc, n, m), fs # <<>>
    PROVE  Pend(Pop(fs)) = Pend(fs) \ PendOf(fs[Len(fs)])
<1> DEFINE N == Len(fs)
           gs == Pop(fs)
           P(i) == PendOf(fs[i])
<1>1. fs \in Seq(FrameRecs)
  BY DEF FramesOK
<1>2. Len(gs) = N - 1 /\ N \in Nat \ {0} /\ \A k \in 1..(N - 1) : gs[k] = fs[k]
  BY <1>1, PopIs
<1>3. \A i \in 1..(N - 1) : P(i) \cap P(N) = {}
  <2>1. ASSUME NEW i \in 1..(N - 1) PROVE P(i) \cap P(N) = {}
    <3>1. i \in 1..Len(fs) /\ N \in 1..Len(fs) /\ i # N
      BY <1>2
    <3>2. Used(fs[i]) \cap Used(fs[N]) = {}
      BY <3>1, UsedApart
    <3>3. PendOf(fs[i]) \subseteq Used(fs[i]) /\ PendOf(fs[N]) \subseteq Used(fs[N])
      BY <3>1, FrameFacts
    <3> QED
      BY <3>2, <3>3
  <2> QED
    BY <2>1
<1>4. 1..N = (1..(N - 1)) \cup {N} /\ N \notin 1..(N - 1)
  BY <1>2
<1>5. Pend(fs) = UNION {P(i) : i \in 1..N}
  BY DEF Pend
<1>6. Pend(gs) = UNION {P(i) : i \in 1..(N - 1)}
  BY <1>2 DEF Pend
<1> HIDE DEF P, N
<1>7. Pend(gs) = Pend(fs) \ P(N)
  BY <1>3, <1>4, <1>5, <1>6
<1> QED
  BY <1>7 DEF P, N

LEMMA PendPush ==
    ASSUME NEW fs \in Seq(FrameRecs), NEW f \in FrameRecs
    PROVE  Pend(Append(fs, f)) = Pend(fs) \cup PendOf(f)
<1> DEFINE N == Len(fs)
           gs == Append(fs, f)
           P(i) == PendOf(fs[i])
           Q(i) == PendOf(gs[i])
<1>1. Len(gs) = N + 1 /\ N \in Nat /\ gs[N + 1] = f /\ \A k \in 1..N : gs[k] = fs[k]
  BY AppendIs
<1>2. 1..(N + 1) = (1..N) \cup {N + 1}
  BY <1>1
<1>3. Pend(fs) = UNION {P(i) : i \in 1..N} /\ Pend(gs) = UNION {Q(i) : i \in 1..(N + 1)}
  BY <1>1 DEF Pend
<1>4. Q(N + 1) = PendOf(f) /\ \A i \in 1..N : Q(i) = P(i)
  BY <1>1
<1> HIDE DEF P, Q, N
<1> QED
  BY <1>2, <1>3, <1>4

LEMMA PendNext ==
    ASSUME NEW sc, NEW fs, NEW n, NEW m \in Nat, FramesOK(fs, sc, n, m), fs # <<>>,
           NEW gs, Len(gs) = Len(fs), \A k \in 1..(Len(fs) - 1) : gs[k] = fs[k],
           PendOf(gs[Len(fs)]) = PendOf(fs[Len(fs)]) \ {Low(fs[Len(fs)])}
    PROVE  Pend(gs) = Pend(fs) \ {Low(fs[Len(fs)])}
<1> DEFINE N == Len(fs)
           P(i) == PendOf(fs[i])
           Q(i) == PendOf(gs[i])
           b == Low(fs[N])
<1>1. fs \in Seq(FrameRecs)
  BY DEF FramesOK
<1>2. N \in Nat \ {0}
  BY <1>1, EmptySeq
<1>3. \A i \in 1..(N - 1) : b \notin P(i)
  <2>1. ASSUME NEW i \in 1..(N - 1) PROVE b \notin P(i)
    <3>1. i \in 1..Len(fs) /\ N \in 1..Len(fs) /\ i < N
      BY <1>2
    <3>2. fs[i].merge < Low(fs[N])
      BY <3>1 DEF FramesOK
    <3>3. /\ PendOf(fs[i]) \subseteq Low(fs[i])..fs[i].merge
          /\ Low(fs[i]) \in Nat /\ fs[i].merge \in Nat /\ b \in Nat
      <4>1. /\ PendOf(fs[i]) \subseteq Used(fs[i])
            /\ Used(fs[i]) \subseteq Low(fs[i])..fs[i].merge
            /\ Low(fs[i]) \in Nat /\ fs[i].merge \in 1..m
        BY <3>1, FrameFacts
      <4>2. b \in Nat
        BY <3>1, FrameFacts
      <4> QED
        BY <4>1, <4>2
    <3> QED
      BY <3>2, <3>3
  <2> QED
    BY <2>1
<1>4. 1..N = (1..(N - 1)) \cup {N} /\ N \notin 1..(N - 1)
  BY <1>2
<1>5. Pend(fs) = UNION {P(i) : i \in 1..N} /\ Pend(gs) = UNION {Q(i) : i \in 1..N}
  BY DEF Pend
<1>6. Q(N) = P(N) \ {b} /\ \A i \in 1..(N - 1) : Q(i) = P(i)
  OBVIOUS
<1> HIDE DEF P, Q, N, b
<1>7. Pend(gs) = Pend(fs) \ {b}
  <2>1. Pend(gs) = (UNION {P(i) : i \in 1..(N - 1)}) \cup (P(N) \ {b})
    BY <1>4, <1>5, <1>6
  <2>2. Pend(fs) = (UNION {P(i) : i \in 1..(N - 1)}) \cup P(N)
    BY <1>4, <1>5
  <2> QED
    BY <1>3, <2>1, <2>2
<1> QED
  BY <1>7 DEF b, N

LEMMA PendSame ==
    ASSUME NEW fs, NEW gs, Len(gs) = Len(fs), \A i \in 1..Len(fs) : PendOf(gs[i]) = PendOf(fs[i])
    PROVE  Pend(gs) = Pend(fs)
  BY DEF Pend

-----------------------------------------------------------------------------
(* Where jumps go.                                                          *)

\* What the frames below i say depends on those frames only.
LEMMA LoopJumpsSame ==
    ASSUME NEW jm, NEW fs, NEW gs, NEW i \in Nat, LoopJumps(jm, fs, i),
           \A j \in 1..(i - 1) : /\ gs[j].k = fs[j].k /\ gs[j].incr = fs[j].incr
                                 /\ gs[j].clean = fs[j].clean
    PROVE  LoopJumps(jm, gs, i)
<1>1. ASSUME NEW j \in 1..(i - 1), Innermost(gs, "loop", i, j)
      PROVE  jm.entry = gs[j].incr /\ jm.exit = gs[j].clean
  <2>1. \A m \in (j + 1)..(i - 1) : m \in 1..(i - 1)
    OBVIOUS
  <2>2. Innermost(fs, "loop", i, j)
    BY <1>1, <2>1 DEF Innermost
  <2> QED
    BY <2>2 DEF LoopJumps
<1> QED
  BY <1>1 DEF LoopJumps

LEMMA CaseJumpsSame ==
    ASSUME NEW jm, NEW fs, NEW gs, NEW i \in Nat, CaseJumps(jm, fs, i),
           \A j \in 1..(i - 1) : gs[j].k = fs[j].k /\ Low(gs[j]) = Low(fs[j])
    PROVE  CaseJumps(jm, gs, i)
<1>1. ASSUME NEW j \in 1..(i - 1), Innermost(gs, "case", i, j)
      PROVE  jm.next = Low(gs[j])
  <2>1. \A m \in (j + 1)..(i - 1) : m \in 1..(i - 1)
    OBVIOUS
  <2>2. Innermost(fs, "case", i, j)
    BY <1>1, <2>1 DEF Innermost
  <2> QED
    BY <2>2 DEF CaseJumps
<1>2. (\A j \in 1..(i - 1) : gs[j].k # "case") => jm.next = NoBlock
  BY DEF CaseJumps
<1> QED
  BY <1>1, <1>2 DEF CaseJumps

\* A frame of another kind hides nothing.
LEMMA LoopJumpsUnder ==
    ASSUME NEW jm, NEW fs, NEW i \in Nat \ {0}, fs[i].k # "loop"
    PROVE  LoopJumps(jm, fs, i + 1) <=> LoopJumps(jm, fs, i)
<1>1. \A j \in 1..i : j \in 1..(i - 1) \/ j = i
  OBVIOUS
<1>2. ASSUME NEW j \in 1..(i - 1)
      PROVE  Innermost(fs, "loop", i + 1, j) <=> Innermost(fs, "loop", i, j)
  <2>1. (j + 1)..((i + 1) - 1) = ((j + 1)..(i - 1)) \cup {i}
    OBVIOUS
  <2> QED
    BY <2>1 DEF Innermost
<1>3. ~Innermost(fs, "loop", i + 1, i)
  BY DEF Innermost
<1>4. (i + 1) - 1 = i /\ \A j \in 1..(i - 1) : j \in 1..i
  OBVIOUS
<1> QED
  BY <1>1, <1>2, <1>3, <1>4 DEF LoopJumps

LEMMA CaseJumpsUnder ==
    ASSUME NEW jm, NEW fs, NEW i \in Nat \ {0}, fs[i].k # "case"
    PROVE  CaseJumps(jm, fs, i + 1) <=> CaseJumps(jm, fs, i)
<1>1. \A j \in 1..i : j \in 1..(i - 1) \/ j = i
  OBVIOUS
<1>2. ASSUME NEW j \in 1..(i - 1)
      PROVE  Innermost(fs, "case", i + 1, j) <=> Innermost(fs, "case", i, j)
  <2>1. (j + 1)..((i + 1) - 1) = ((j + 1)..(i - 1)) \cup {i}
    OBVIOUS
  <2> QED
    BY <2>1 DEF Innermost
<1>3. ~Innermost(fs, "case", i + 1, i)
  BY DEF Innermost
<1>4. (i + 1) - 1 = i /\ \A j \in 1..(i - 1) : j \in 1..i
  OBVIOUS
<1> QED
  BY <1>1, <1>2, <1>3, <1>4 DEF CaseJumps

\* A loop or a switch on top.
LEMMA LoopJumpsTop ==
    ASSUME NEW jm, NEW fs, NEW i \in Nat \ {0}, fs[i].k = "loop",
           jm.entry = fs[i].incr, jm.exit = fs[i].clean
    PROVE  LoopJumps(jm, fs, i + 1)
<1>1. ASSUME NEW j \in 1..((i + 1) - 1), Innermost(fs, "loop", i + 1, j) PROVE j = i
  <2>1. j # i => i \in (j + 1)..((i + 1) - 1)
    OBVIOUS
  <2> QED
    BY <1>1, <2>1 DEF Innermost
<1> QED
  BY <1>1 DEF LoopJumps

LEMMA CaseJumpsTop ==
    ASSUME NEW jm, NEW fs, NEW i \in Nat \ {0}, fs[i].k = "case", jm.next = Low(fs[i])
    PROVE  CaseJumps(jm, fs, i + 1)
<1>1. ASSUME NEW j \in 1..((i + 1) - 1), Innermost(fs, "case", i + 1, j) PROVE j = i
  <2>1. j # i => i \in (j + 1)..((i + 1) - 1)
    OBVIOUS
  <2> QED
    BY <1>1, <2>1 DEF Innermost
<1>2. i \in 1..((i + 1) - 1)
  OBVIOUS
<1> QED
  BY <1>1, <1>2 DEF CaseJumps

\* The frames and the scopes' addresses stay.
LEMMA JumpsLike ==
    ASSUME NEW jm, NEW fs, NEW sc, NEW p, JumpsOK(jm, fs, sc, p), fs \in Seq(FrameRecs),
           NEW gs, Len(gs) = Len(fs),
           \A i \in 1..Len(fs) : /\ gs[i].k = fs[i].k /\ Low(gs[i]) = Low(fs[i])
                                 /\ gs[i].incr = fs[i].incr /\ gs[i].clean = fs[i].clean
                                 /\ gs[i].old = fs[i].old,
           NEW r, Len(r) = Len(sc), \A d \in 1..Len(sc) : r[d].id = sc[d].id
    PROVE  JumpsOK(jm, gs, r, p)
<1> DEFINE N == Len(fs)
<1>1. N \in Nat /\ N + 1 \in Nat /\ (N + 1) - 1 = N
  BY LenProperties
<1>2. LoopJumps(jm, gs, N + 1) /\ CaseJumps(jm, gs, N + 1)
  <2>1. LoopJumps(jm, fs, N + 1) /\ CaseJumps(jm, fs, N + 1)
    BY DEF JumpsOK
  <2>2. \A j \in 1..((N + 1) - 1) : j \in 1..N
    BY <1>1
  <2>3. LoopJumps(jm, gs, N + 1)
    BY <1>1, <2>1, <2>2, LoopJumpsSame
  <2>4. CaseJumps(jm, gs, N + 1)
    BY <1>1, <2>1, <2>2, CaseJumpsSame
  <2> QED
    BY <2>3, <2>4
<1>3. ASSUME NEW i \in 1..N
      PROVE  /\ gs[i].k = "loop" => LoopJumps(gs[i].old, gs, i)
             /\ gs[i].k = "case" => CaseJumps(gs[i].old, gs, i)
  <2>1. /\ fs[i].k = "loop" => LoopJumps(fs[i].old, fs, i)
        /\ fs[i].k = "case" => CaseJumps(fs[i].old, fs, i)
    BY DEF JumpsOK
  <2>2. i \in Nat /\ \A j \in 1..(i - 1) : j \in 1..N
    BY <1>1
  <2>3. gs[i].k = fs[i].k /\ gs[i].old = fs[i].old
    OBVIOUS
  <2>4. fs[i].k = "loop" => LoopJumps(gs[i].old, gs, i)
    BY <2>1, <2>2, <2>3, LoopJumpsSame
  <2>5. fs[i].k = "case" => CaseJumps(gs[i].old, gs, i)
    BY <2>1, <2>2, <2>3, CaseJumpsSame
  <2> QED
    BY <2>3, <2>4, <2>5
<1>4. ASSUME NEW d \in 1..Len(r), NEW j \in 1..N, r[d].id = jm.case,
             Innermost(gs, "case", N + 1, j)
      PROVE  d = Depth(gs, j) + 1
  <2>1. \A m \in (j + 1)..((N + 1) - 1) : m \in 1..N
    BY <1>1
  <2>2. Innermost(fs, "case", N + 1, j)
    BY <1>4, <2>1 DEF Innermost
  <2>3. d = Depth(fs, j) + 1
    BY <1>4, <2>2 DEF JumpsOK
  <2>4. j \in Nat /\ \A k \in 1..(j - 1) : k \in 1..N
    BY <1>1
  <2>5. Depth(gs, j) = Depth(fs, j)
    BY <2>4, DepthSame
  <2> QED
    BY <2>3, <2>5
<1> QED
  BY <1>2, <1>3, <1>4 DEF JumpsOK

LEMMA JumpsPop ==
    ASSUME NEW sc, NEW fs, NEW n, NEW m, FramesOK(fs, sc, n, m), fs # <<>>,
           NEW jm, NEW p, JumpsOK(jm, fs, sc, p),
           NEW r, Len(r) = Depth(fs, Len(fs)), \A k \in 1..Len(r) : r[k] = sc[k],
           NEW jr \in JumpRecs, jr.case = jm.case,
           IF fs[Len(fs)].k = "loop"
           THEN jr.entry = fs[Len(fs)].old.entry /\ jr.exit = fs[Len(fs)].old.exit
           ELSE jr.entry = jm.entry /\ jr.exit = jm.exit,
           jr.next = IF fs[Len(fs)].k = "case" THEN fs[Len(fs)].old.next ELSE jm.next
    PROVE  JumpsOK(jr, Pop(fs), r, p)
<1> DEFINE gs == Pop(fs)
           N == Len(fs)
           f == fs[N]
<1>1. fs \in Seq(FrameRecs)
  BY DEF FramesOK
<1>2. /\ gs \in Seq(FrameRecs) /\ Len(gs) = N - 1 /\ N \in Nat \ {0}
      /\ \A k \in 1..(N - 1) : gs[k] = fs[k]
  BY <1>1, PopIs
<1> HIDE DEF gs, N
<1>3. N \in 1..N /\ (N - 1) + 1 = N /\ \A i \in 1..(N - 1) : i \in 1..N
  BY <1>2
<1>4. LoopJumps(jr, gs, N)
  <2>1. LoopJumps(jr, fs, N)
    <3>1. CASE f.k = "loop"
      <4>1. LoopJumps(f.old, fs, N)
        BY <1>3, <3>1 DEF JumpsOK, N
      <4>2. jr.entry = f.old.entry /\ jr.exit = f.old.exit
        BY <3>1 DEF N
      <4> QED
        BY <4>1, <4>2 DEF LoopJumps
    <3>2. CASE f.k # "loop"
      <4>1. LoopJumps(jm, fs, N + 1)
        BY DEF JumpsOK, N
      <4>2. LoopJumps(jm, fs, N)
        BY <1>2, <3>2, <4>1, LoopJumpsUnder
      <4>3. jr.entry = jm.entry /\ jr.exit = jm.exit
        BY <3>2 DEF N
      <4> QED
        BY <4>2, <4>3 DEF LoopJumps
    <3> QED
      BY <3>1, <3>2
  <2> QED
    BY <1>2, <2>1, LoopJumpsSame
<1>5. CaseJumps(jr, gs, N)
  <2>1. CaseJumps(jr, fs, N)
    <3>1. CASE f.k = "case"
      <4>1. CaseJumps(f.old, fs, N)
        BY <1>3, <3>1 DEF JumpsOK, N
      <4>2. jr.next = f.old.next
        BY <3>1 DEF N
      <4> QED
        BY <4>1, <4>2 DEF CaseJumps
    <3>2. CASE f.k # "case"
      <4>1. CaseJumps(jm, fs, N + 1)
        BY DEF JumpsOK, N
      <4>2. CaseJumps(jm, fs, N)
        BY <1>2, <3>2, <4>1, CaseJumpsUnder
      <4>3. jr.next = jm.next
        BY <3>2 DEF N
      <4> QED
        BY <4>2, <4>3 DEF CaseJumps
    <3> QED
      BY <3>1, <3>2
  <2>2. \A j \in 1..(N - 1) : gs[j].k = fs[j].k /\ Low(gs[j]) = Low(fs[j])
    BY <1>2
  <2> QED
    BY <1>2, <2>1, <2>2, CaseJumpsSame
<1>6. ASSUME NEW i \in 1..(N - 1)
      PROVE  /\ gs[i].k = "loop" => LoopJumps(gs[i].old, gs, i)
             /\ gs[i].k = "case" => CaseJumps(gs[i].old, gs, i)
  <2>1. i \in 1..Len(fs)
    BY <1>3 DEF N
  <2>2. /\ fs[i].k = "loop" => LoopJumps(fs[i].old, fs, i)
        /\ fs[i].k = "case" => CaseJumps(fs[i].old, fs, i)
    BY <2>1 DEF JumpsOK
  <2>3. i \in Nat /\ \A j \in 1..(i - 1) : j \in 1..(N - 1)
    BY <1>2
  <2>4. \A j \in 1..(i - 1) : gs[j] = fs[j]
    BY <1>2, <2>3
  <2>5. gs[i] = fs[i]
    BY <1>2
  <2>6. fs[i].k = "loop" => LoopJumps(gs[i].old, gs, i)
    BY <2>2, <2>3, <2>4, <2>5, LoopJumpsSame
  <2>7. fs[i].k = "case" => CaseJumps(gs[i].old, gs, i)
    BY <2>2, <2>3, <2>4, <2>5, CaseJumpsSame
  <2> QED
    BY <2>5, <2>6, <2>7
<1>7. Len(r) = Depth(fs, N) /\ Len(r) \in Nat /\ Len(r) < Len(sc) /\ Len(sc) \in Nat
  <2>1. N \in 1..Len(fs)
    BY <1>3 DEF N
  <2>2. Len(r) = Depth(fs, N)
    BY DEF N
  <2> QED
    BY <2>1, <2>2, DepthsFit
<1>8. ASSUME NEW d \in 1..Len(r), NEW j \in 1..(N - 1), r[d].id = jr.case,
             Innermost(gs, "case", N, j)
      PROVE  d = Depth(gs, j) + 1
  <2>1. d \in 1..Len(sc) /\ sc[d].id = jm.case
    BY <1>7, <1>8
  <2>2. CASE f.k = "case"
    <3>1. Innermost(fs, "case", N + 1, N)
      BY <1>2, <2>2 DEF Innermost
    <3>2. d = Depth(fs, N) + 1
      BY <1>3, <2>1, <3>1 DEF JumpsOK, N
    <3> QED
      BY <1>7, <3>2
  <2>3. CASE f.k # "case"
    <3>1. (j + 1)..((N + 1) - 1) = ((j + 1)..(N - 1)) \cup {N}
          /\ \A q \in (j + 1)..(N - 1) : q \in 1..(N - 1)
      BY <1>2
    <3>2. Innermost(fs, "case", N + 1, j)
      BY <1>2, <1>8, <2>3, <3>1 DEF Innermost
    <3>3. d = Depth(fs, j) + 1
      BY <1>3, <2>1, <3>2 DEF JumpsOK, N
    <3>4. j \in Nat /\ \A k \in 1..(j - 1) : k \in 1..(N - 1)
      BY <1>2
    <3>5. \A k \in 1..(j - 1) : gs[k].k = fs[k].k
      BY <1>2, <3>4
    <3>6. Depth(gs, j) = Depth(fs, j)
      BY <3>4, <3>5, DepthSame
    <3> QED
      BY <3>3, <3>6
  <2> QED
    BY <2>2, <2>3
<1>9. jr.case <= p
  BY DEF JumpsOK
<1> QED
  BY <1>2, <1>3, <1>4, <1>5, <1>6, <1>8, <1>9 DEF JumpsOK, gs

LEMMA JumpsPush ==
    ASSUME NEW sc, NEW fs, NEW n, NEW m, FramesOK(fs, sc, n, m),
           NEW jm, NEW p \in Nat, JumpsOK(jm, fs, sc, p), \A d \in 1..Len(sc) : sc[d].id <= p,
           \A d \in 1..Len(sc) : sc[d].id \in Nat,
           NEW f \in FrameRecs, f.old = jm,
           NEW jr \in JumpRecs, NEW q \in Nat, p < q,
           IF f.k = "loop" THEN jr.entry = f.incr /\ jr.exit = f.clean
           ELSE jr.entry = jm.entry /\ jr.exit = jm.exit,
           IF f.k = "case" THEN jr.next = Low(f) /\ jr.case = p + 1
           ELSE jr.next = jm.next /\ jr.case = jm.case,
           NEW r, Len(r) \in Nat, \A k \in 1..Len(sc) : r[k] = sc[k],
           \A k \in (Len(sc) + 1)..Len(r) : r[k].id \in Nat /\ r[k].id > p,
           f.k = "case" => Len(r) = Len(sc) + 1
    PROVE  JumpsOK(jr, Append(fs, f), r, q)
<1> DEFINE gs == Append(fs, f)
           N == Len(fs)
<1>1. fs \in Seq(FrameRecs)
  BY DEF FramesOK
<1>2. /\ gs \in Seq(FrameRecs) /\ Len(gs) = N + 1 /\ N \in Nat /\ gs[N + 1] = f
      /\ \A k \in 1..N : gs[k] = fs[k]
  BY <1>1, AppendIs
<1> HIDE DEF gs
<1>3. /\ N + 1 \in Nat \ {0} /\ N + 1 \in Nat /\ (N + 1) - 1 = N
      /\ \A i \in 1..(N + 1) : i \in 1..N \/ i = N + 1
  BY <1>2
<1>4. \A j \in 1..N : gs[j].k = fs[j].k /\ gs[j].incr = fs[j].incr /\ gs[j].clean = fs[j].clean
                      /\ Low(gs[j]) = Low(fs[j])
  BY <1>2
<1>5. LoopJumps(jm, gs, N + 1) /\ CaseJumps(jm, gs, N + 1)
  <2>1. LoopJumps(jm, fs, N + 1) /\ CaseJumps(jm, fs, N + 1)
    BY DEF JumpsOK
  <2>2. LoopJumps(jm, gs, N + 1)
    BY <1>3, <1>4, <2>1, LoopJumpsSame
  <2>3. CaseJumps(jm, gs, N + 1)
    BY <1>3, <1>4, <2>1, CaseJumpsSame
  <2> QED
    BY <2>2, <2>3
<1>6. LoopJumps(jr, gs, (N + 1) + 1)
  <2>1. CASE f.k = "loop"
    <3>1. jr.entry = gs[N + 1].incr /\ jr.exit = gs[N + 1].clean /\ gs[N + 1].k = "loop"
      BY <1>2, <2>1
    <3> QED
      BY <1>3, <3>1, LoopJumpsTop
  <2>2. CASE f.k # "loop"
    <3>1. jr.entry = jm.entry /\ jr.exit = jm.exit
      BY <2>2
    <3>2. LoopJumps(jr, gs, N + 1)
      BY <1>5, <3>1 DEF LoopJumps
    <3>3. gs[N + 1].k # "loop"
      BY <1>2, <2>2
    <3> QED
      BY <1>3, <3>2, <3>3, LoopJumpsUnder
  <2> QED
    BY <2>1, <2>2
<1>7. CaseJumps(jr, gs, (N + 1) + 1)
  <2>1. CASE f.k = "case"
    <3>1. jr.next = Low(gs[N + 1]) /\ gs[N + 1].k = "case"
      BY <1>2, <2>1
    <3> QED
      BY <1>3, <3>1, CaseJumpsTop
  <2>2. CASE f.k # "case"
    <3>1. jr.next = jm.next
      BY <2>2
    <3>2. CaseJumps(jr, gs, N + 1)
      BY <1>5, <3>1 DEF CaseJumps
    <3>3. gs[N + 1].k # "case"
      BY <1>2, <2>2
    <3> QED
      BY <1>3, <3>2, <3>3, CaseJumpsUnder
  <2> QED
    BY <2>1, <2>2
<1>8. ASSUME NEW i \in 1..(N + 1)
      PROVE  /\ gs[i].k = "loop" => LoopJumps(gs[i].old, gs, i)
             /\ gs[i].k = "case" => CaseJumps(gs[i].old, gs, i)
  <2>1. CASE i = N + 1
    <3>1. gs[i].old = jm
      BY <1>2, <2>1
    <3> QED
      BY <1>5, <2>1, <3>1
  <2>2. CASE i \in 1..N
    <3>1. /\ fs[i].k = "loop" => LoopJumps(fs[i].old, fs, i)
          /\ fs[i].k = "case" => CaseJumps(fs[i].old, fs, i)
      BY <2>2 DEF JumpsOK
    <3>2. i \in Nat /\ \A j \in 1..(i - 1) : j \in 1..N
      BY <1>2, <2>2
    <3>3. gs[i] = fs[i]
      BY <1>2, <2>2
    <3>4. fs[i].k = "loop" => LoopJumps(gs[i].old, gs, i)
      BY <1>4, <3>1, <3>2, <3>3, LoopJumpsSame
    <3>5. fs[i].k = "case" => CaseJumps(gs[i].old, gs, i)
      BY <1>4, <3>1, <3>2, <3>3, CaseJumpsSame
    <3> QED
      BY <3>3, <3>4, <3>5
  <2> QED
    BY <1>3, <2>1, <2>2
<1>9. Len(sc) = Depth(fs, N + 1) /\ Len(sc) \in Nat
  <2>1. Len(sc) = Depth(fs, N + 1)
    BY DEF FramesOK
  <2> QED
    BY <1>3, <2>1, DepthNext
<1>10. jm \in JumpRecs /\ jm.case \in Nat /\ jm.case <= p
  BY DEF JumpsOK, JumpRecs
<1>11. jr.case <= q
  BY <1>10
<1>12. \A i \in 1..(N + 1) : Depth(gs, i) = Depth(fs, i)
  <2>1. ASSUME NEW i \in 1..(N + 1) PROVE Depth(gs, i) = Depth(fs, i)
    <3>1. i \in Nat /\ \A j \in 1..(i - 1) : j \in 1..N
      BY <1>2
    <3>2. \A j \in 1..(i - 1) : gs[j].k = fs[j].k
      BY <1>2, <3>1
    <3> QED
      BY <3>1, <3>2, DepthSame
  <2> QED
    BY <2>1
<1>13. ASSUME NEW d \in 1..Len(r), NEW j \in 1..(N + 1), r[d].id = jr.case,
              Innermost(gs, "case", (N + 1) + 1, j)
       PROVE  d = Depth(gs, j) + 1
  <2>1. d \in 1..Len(sc) \/ d \in (Len(sc) + 1)..Len(r)
    BY <1>9
  <2>2. CASE f.k = "case"
    <3>1. ~(d \in 1..Len(sc))
      <4>1. d \in 1..Len(sc) => sc[d].id = p + 1 /\ sc[d].id <= p
        BY <1>13, <2>2
      <4> QED
        BY <4>1
    <3>2. d = Len(sc) + 1
      BY <1>9, <2>1, <2>2, <3>1
    <3>3. j = N + 1
      <4>1. j # N + 1 => N + 1 \in (j + 1)..(((N + 1) + 1) - 1)
        BY <1>2, <1>3
      <4>2. \A k \in (j + 1)..(((N + 1) + 1) - 1) : gs[k].k # "case"
        BY <1>13 DEF Innermost
      <4> QED
        BY <1>2, <2>2, <4>1, <4>2
    <3> QED
      BY <1>9, <1>12, <3>2, <3>3
  <2>3. CASE f.k # "case"
    <3>1. jr.case = jm.case
      BY <2>3
    <3>2. d \in 1..Len(sc)
      <4>1. d \in (Len(sc) + 1)..Len(r) => r[d].id > p /\ r[d].id <= p
        BY <1>10, <1>13, <3>1
      <4>2. d \in (Len(sc) + 1)..Len(r) => r[d].id \in Nat
        OBVIOUS
      <4> QED
        BY <2>1, <4>1, <4>2
    <3>3. gs[j].k = "case" /\ \A k \in (j + 1)..(((N + 1) + 1) - 1) : gs[k].k # "case"
      BY <1>13 DEF Innermost
    <3>4. j \in 1..N
      BY <1>2, <1>3, <2>3, <3>3
    <3>5. \A k \in (j + 1)..((N + 1) - 1) : k \in 1..N /\ k \in (j + 1)..(((N + 1) + 1) - 1)
      BY <1>2, <3>4
    <3>6. Innermost(fs, "case", N + 1, j)
      BY <1>2, <3>3, <3>4, <3>5 DEF Innermost
    <3>7. d = Depth(fs, j) + 1
      BY <1>13, <3>1, <3>2, <3>4, <3>6 DEF JumpsOK
    <3> QED
      BY <1>12, <3>7
  <2> QED
    BY <2>2, <2>3
<1> QED
  BY <1>2, <1>6, <1>7, <1>8, <1>11, <1>13 DEF JumpsOK, gs

\* The next block of an if or a switch.
LEMMA JumpsNext ==
    ASSUME NEW sc, NEW fs, NEW n, NEW m, FramesOK(fs, sc, n, m), fs # <<>>,
           fs[Len(fs)].k # "loop",
           NEW jm, NEW p \in Nat, JumpsOK(jm, fs, sc, p),
           \A d \in 1..Len(sc) : sc[d].id \in Nat /\ sc[d].id <= p,
           NEW gs, Len(gs) = Len(fs), \A k \in 1..(Len(fs) - 1) : gs[k] = fs[k],
           gs[Len(fs)].k = fs[Len(fs)].k, gs[Len(fs)].old = fs[Len(fs)].old,
           NEW jr \in JumpRecs, jr.entry = jm.entry, jr.exit = jm.exit,
           IF fs[Len(fs)].k = "case" THEN jr.next = Low(gs[Len(fs)]) /\ jr.case = p + 1
           ELSE jr.next = jm.next /\ jr.case = jm.case,
           NEW r, Len(r) = Len(sc), \A k \in 1..(Len(sc) - 1) : r[k] = sc[k],
           r[Len(sc)].id = p + 1
    PROVE  JumpsOK(jr, gs, r, p + 1)
<1> DEFINE N == Len(fs)
           f == fs[N]
<1>1. fs \in Seq(FrameRecs) /\ N \in Nat \ {0} /\ N \in 1..N
  <2>1. fs \in Seq(FrameRecs)
    BY DEF FramesOK
  <2>2. N \in Nat \ {0}
    BY <2>1, EmptySeq
  <2> QED
    BY <2>1, <2>2
<1> HIDE DEF f
<1>2. \A i \in 1..N : i \in 1..(N - 1) \/ i = N
  BY <1>1
<1>3. gs[N].k = f.k /\ gs[N].old = f.old /\ f.k # "loop"
  BY DEF f
<1>4. LoopJumps(jr, gs, N + 1)
  <2>1. LoopJumps(jm, fs, N + 1)
    BY DEF JumpsOK
  <2>2. LoopJumps(jm, fs, N)
    BY <1>1, <2>1, LoopJumpsUnder
  <2>3. LoopJumps(jm, gs, N)
    BY <1>1, <2>2, LoopJumpsSame
  <2>4. LoopJumps(jr, gs, N)
    BY <2>3 DEF LoopJumps
  <2> QED
    BY <1>1, <1>3, <2>4, LoopJumpsUnder
<1>5. CaseJumps(jr, gs, N + 1)
  <2>1. CASE f.k = "case"
    <3>1. jr.next = Low(gs[N])
      BY <2>1 DEF f
    <3> QED
      BY <1>1, <1>3, <2>1, <3>1, CaseJumpsTop
  <2>2. CASE f.k # "case"
    <3>1. CaseJumps(jm, fs, N + 1)
      BY DEF JumpsOK
    <3>2. CaseJumps(jm, fs, N)
      BY <1>1, <2>2, <3>1, CaseJumpsUnder DEF f
    <3>3. CaseJumps(jm, gs, N)
      BY <1>1, <3>2, CaseJumpsSame
    <3>4. jr.next = jm.next
      BY <2>2 DEF f
    <3>5. CaseJumps(jr, gs, N)
      BY <3>3, <3>4 DEF CaseJumps
    <3> QED
      BY <1>1, <1>3, <2>2, <3>5, CaseJumpsUnder
  <2> QED
    BY <2>1, <2>2
<1>6. ASSUME NEW i \in 1..N
      PROVE  /\ gs[i].k = "loop" => LoopJumps(gs[i].old, gs, i)
             /\ gs[i].k = "case" => CaseJumps(gs[i].old, gs, i)
  <2>1. /\ fs[i].k = "loop" => LoopJumps(fs[i].old, fs, i)
        /\ fs[i].k = "case" => CaseJumps(fs[i].old, fs, i)
    BY DEF JumpsOK
  <2>2. i \in Nat /\ \A j \in 1..(i - 1) : j \in 1..(N - 1)
    BY <1>1
  <2>3. \A j \in 1..(i - 1) : gs[j] = fs[j]
    BY <2>2
  <2>4. gs[i].k = fs[i].k /\ gs[i].old = fs[i].old
    BY <1>2, <1>3 DEF f
  <2>5. fs[i].k = "loop" => LoopJumps(gs[i].old, gs, i)
    BY <2>1, <2>2, <2>3, <2>4, LoopJumpsSame
  <2>6. fs[i].k = "case" => CaseJumps(gs[i].old, gs, i)
    BY <2>1, <2>2, <2>3, <2>4, CaseJumpsSame
  <2> QED
    BY <2>4, <2>5, <2>6
<1>7. jm \in JumpRecs /\ jm.case \in Nat /\ jm.case <= p
  BY DEF JumpsOK, JumpRecs
<1>8. jr.case <= p + 1
  BY <1>7
<1>9. /\ Len(sc) \in Nat /\ Depth(fs, N) \in Nat /\ Depth(fs, N) + 1 = Len(sc)
      /\ \A i \in 1..N : Depth(gs, i) = Depth(fs, i)
  <2>1. Len(sc) = Depth(fs, N + 1)
    BY DEF FramesOK
  <2>2. Depth(fs, N) \in Nat /\ Depth(fs, N + 1) = Depth(fs, N) + (IF fs[N].k = "loop" THEN 2 ELSE 1)
    BY <1>1, DepthNext
  <2>3. ASSUME NEW i \in 1..N PROVE Depth(gs, i) = Depth(fs, i)
    <3>1. i \in Nat /\ \A j \in 1..(i - 1) : j \in 1..(N - 1)
      BY <1>1
    <3>2. \A j \in 1..(i - 1) : gs[j].k = fs[j].k
      BY <3>1
    <3> QED
      BY <3>1, <3>2, DepthSame
  <2> QED
    BY <2>1, <2>2, <2>3
<1>10. ASSUME NEW d \in 1..Len(r), NEW j \in 1..N, r[d].id = jr.case,
              Innermost(gs, "case", N + 1, j)
       PROVE  d = Depth(gs, j) + 1
  <2>1. d \in 1..(Len(sc) - 1) \/ d = Len(sc)
    BY <1>9
  <2>2. (N + 1) - 1 = N
    BY <1>1
  <2>3. gs[j].k = "case" /\ \A k \in (j + 1)..N : gs[k].k # "case"
    BY <1>10, <2>2 DEF Innermost
  <2>4. CASE f.k = "case"
    <3>1. jr.case = p + 1
      BY <2>4 DEF f
    <3>2. ~(d \in 1..(Len(sc) - 1))
      <4>1. d \in 1..(Len(sc) - 1) => d \in 1..Len(sc) /\ r[d] = sc[d]
        BY <1>9
      <4>2. d \in 1..(Len(sc) - 1) => sc[d].id = p + 1 /\ sc[d].id <= p
        BY <1>10, <3>1, <4>1
      <4> QED
        BY <4>2
    <3>3. j = N
      <4>1. j # N => N \in (j + 1)..N
        BY <1>1
      <4> QED
        BY <1>3, <2>3, <2>4, <4>1
    <3> QED
      BY <1>9, <2>1, <3>2, <3>3
  <2>5. CASE f.k # "case"
    <3>1. jr.case = jm.case
      BY <2>5 DEF f
    <3>2. d \in 1..(Len(sc) - 1)
      <4>1. d = Len(sc) => p + 1 <= p
        BY <1>7, <1>10, <3>1
      <4> QED
        BY <2>1, <4>1
    <3>3. j \in 1..(N - 1)
      BY <1>2, <1>3, <2>3, <2>5
    <3>4. \A k \in (j + 1)..N : k \in 1..(N - 1) \/ k = N
      BY <1>1, <3>3
    <3>5. \A k \in (j + 1)..N : fs[k].k # "case"
      BY <2>3, <2>5, <3>4 DEF f
    <3>6. Innermost(fs, "case", N + 1, j)
      BY <2>2, <2>3, <3>3, <3>5 DEF Innermost
    <3>7. d \in 1..Len(sc) /\ sc[d].id = jm.case
      BY <1>9, <1>10, <3>1, <3>2
    <3>8. d = Depth(fs, j) + 1
      BY <3>6, <3>7 DEF JumpsOK
    <3> QED
      BY <1>9, <3>8
  <2> QED
    BY <2>4, <2>5
<1> QED
  BY <1>4, <1>5, <1>6, <1>8, <1>10 DEF JumpsOK

-----------------------------------------------------------------------------
(* The code, when the compiler appends to the block it is in.               *)

LEMMA CodeFacts ==
    ASSUME NEW e, NEW c, NEW fs, NEW sc, NEW b, CodeOK(e, c, fs, sc, b)
    PROVE  /\ c \in Codes /\ Len(c) \in Nat \ {0} /\ b \in 1..Len(c) /\ c[b] \in Seq(Instrs)
           /\ e \in [1..Len(c) -> States] /\ DOMAIN e = 1..Len(c)
           /\ Here(sc, fs) \in States
<1>1. TypedCode(e, c, Pend(fs), b, Here(sc, fs))
  BY DEF CodeOK
<1>2. c \in Codes /\ b \in 1..Len(c) /\ e \in [1..Len(c) -> States]
  BY <1>1 DEF TypedCode
<1>3. Len(c) \in Nat
  BY <1>2, LenProperties DEF Codes
<1>4. c[b] \in Seq(Instrs)
  BY <1>2, ElementOfSeq DEF Codes
<1>5. Leads(e, c[b], e[b], Here(sc, fs))
  BY <1>1 DEF TypedCode
<1>6. Here(sc, fs) \in States
  BY <1>4, <1>5, LeadsStates
<1> QED
  BY <1>2, <1>3, <1>4, <1>6

LEMMA CodeAppend ==
    ASSUME NEW e, NEW c, NEW fs, NEW sc, NEW b, CodeOK(e, c, fs, sc, b),
           NEW r, \A i \in 1..Len(fs) : Expect(e, r, fs, i),
           NEW is \in Seq(Instrs), Leads(e, is, Here(sc, fs), Here(r, fs)),
           TargetsOf(is) \subseteq 1..Len(c),
           \A i \in 1..Len(fs) : fs[i].k = "loop" /\ ~fs[i].jumped =>
              fs[i].incr \notin TargetsOf(is) /\ fs[i].clean \notin TargetsOf(is)
    PROVE  /\ CodeOK(e, Put(c, b, is), fs, r, b)
           /\ Put(c, b, is)[b] = c[b] \o is /\ Len(Put(c, b, is)) = Len(c)
           /\ IsClosed(is) => IsClosed(Put(c, b, is)[b])
<1> DEFINE p == Put(c, b, is)
<1>1. TypedCode(e, c, Pend(fs), b, Here(sc, fs)) /\ TargetsOK(c, fs)
  BY DEF CodeOK
<1>2. TypedCode(e, p, Pend(fs), b, Here(r, fs))
  BY <1>1, TypedAppend
<1>3. c \in Codes /\ b \in 1..Len(c) /\ c[b] \in Seq(Instrs)
  BY CodeFacts
<1>4. Len(p) = Len(c) /\ Targets(p) = Targets(c) \cup TargetsOf(is) /\ p[b] = c[b] \o is
  BY <1>3, PutIs, TargetsPut
<1>5. TargetsOK(p, fs)
  BY <1>1, <1>4 DEF TargetsOK
<1>6. IsClosed(is) => IsClosed(p[b])
  BY <1>3, <1>4, ClosedBy
<1> QED
  BY <1>2, <1>4, <1>5, <1>6 DEF CodeOK

\* Declarations and deferments: the scope on top changed.
LEMMA CodeTop ==
    ASSUME NEW e, NEW c, NEW fs, NEW sc, NEW b, NEW n, NEW m,
           CodeOK(e, c, fs, sc, b), FramesOK(fs, sc, n, m),
           ~(fs # <<>> /\ fs[Len(fs)].k = "loop" /\ fs[Len(fs)].jumped),
           NEW r, \A k \in 1..(Len(sc) - 1) : r[k] = sc[k],
           NEW is \in Seq(Plain), Leads(e, is, Here(sc, fs), Here(r, fs))
    PROVE  CodeOK(e, Put(c, b, is), fs, r, b) /\ Len(Put(c, b, is)) = Len(c)
<1>1. ASSUME NEW i \in 1..Len(fs) PROVE Expect(e, r, fs, i)
  <2>1. /\ Reach(fs[i], Depth(fs, i)) \in Nat /\ Len(sc) \in Nat /\ Len(fs) \in Nat
        /\ ~(i = Len(fs) /\ fs[i].k = "loop" /\ fs[i].jumped) =>
              Reach(fs[i], Depth(fs, i)) <= Len(sc) - 1
    BY DepthsFit
  <2>2. fs # <<>>
    BY <2>1
  <2>3. ~(i = Len(fs) /\ fs[i].k = "loop" /\ fs[i].jumped)
    BY <2>2
  <2>4. \A k \in 1..Reach(fs[i], Depth(fs, i)) : k \in 1..(Len(sc) - 1)
    BY <2>1, <2>3
  <2>5. \A k \in 1..Reach(fs[i], Depth(fs, i)) : r[k].vs = sc[k].vs /\ r[k].defers = sc[k].defers
    BY <2>4
  <2>6. Expect(e, sc, fs, i) /\ i \in Nat \ {0}
    BY <2>1 DEF CodeOK
  <2> QED
    BY <2>5, <2>6, ExpectSame
<1>2. is \in Seq(Instrs) /\ TargetsOf(is) = {}
  BY TargetsPlain
<1> QED
  BY <1>1, <1>2, CodeAppend

\* A statement that leaves the block, and the end of a block.
LEMMA CodeLeave ==
    ASSUME NEW e, NEW c, NEW fs, NEW sc, NEW b, CodeOK(e, c, fs, sc, b),
           NEW js \in Seq(Plain), NEW t, Leads(e, js, Here(sc, fs), t),
           NEW ins \in Instrs, ins.op \in {"goto", "ret"},
           \/ ins.op = "goto" /\ \A l \in ins.to : l \in 1..Len(c) /\ e[l] = t
           \/ ins.op = "ret" /\ ins.to = {} /\ t = State({}, {}),
           \A i \in 1..Len(fs) : fs[i].k = "loop" /\ ~fs[i].jumped =>
              fs[i].incr \notin ins.to /\ fs[i].clean \notin ins.to
    PROVE  /\ CodeOK(e, Put(c, b, js \o <<ins>>), fs, sc, b)
           /\ IsClosed(Put(c, b, js \o <<ins>>)[b])
           /\ Len(Put(c, b, js \o <<ins>>)) = Len(c)
<1> DEFINE k == <<ins>>
           is == js \o k
<1>1. /\ c \in Codes /\ e \in [1..Len(c) -> States] /\ DOMAIN e = 1..Len(c)
      /\ Here(sc, fs) \in States
  BY CodeFacts
<1>2. js \in Seq(Instrs) /\ TargetsOf(js) = {}
  BY TargetsPlain
<1>3. k \in Seq(Instrs) /\ TargetsOf(k) = ins.to /\ IsClosed(k)
  BY TargetsOne, ClosedOne
<1>4. t \in States
  BY <1>2, LeadsStates
<1>5. Effect(e, ins, t, Here(sc, fs))
  <2>1. State({}, {}).own = {} /\ State({}, {}).arm = {}
    BY DEF State
  <2> QED
    BY <1>1, <2>1 DEF Effect
<1>6. Leads(e, k, t, Here(sc, fs))
  BY <1>1, <1>4, <1>5, LeadsOne
<1> HIDE DEF k
<1>7. is \in Seq(Instrs) /\ Leads(e, is, Here(sc, fs), Here(sc, fs))
  BY <1>2, <1>3, <1>6, LeadsOn, Joined
<1>8. TargetsOf(is) = ins.to
  <2>1. js \in Seq(Instrs) /\ k \in Seq(Instrs)
    BY <1>2, <1>3
  <2>2. TargetsOf(js \o k) = TargetsOf(js) \cup TargetsOf(k)
    BY <2>1, TargetsJoined
  <2> DEFINE A == TargetsOf(js)
  <2>3. A = {} /\ TargetsOf(k) = ins.to /\ TargetsOf(is) = A \cup TargetsOf(k)
    BY <1>2, <1>3, <2>2
  <2> HIDE DEF A, is
  <2> QED
    BY <2>3
<1>9. IsClosed(is)
  BY <1>2, <1>3, ClosedBy
<1>10. \A i \in 1..Len(fs) : Expect(e, sc, fs, i)
  BY DEF CodeOK
<1>11. ins.to \subseteq 1..Len(c)
  OBVIOUS
<1> HIDE DEF is
<1>12. TargetsOf(is) \subseteq 1..Len(c)
  BY <1>8, <1>11
<1>13. \A i \in 1..Len(fs) : fs[i].k = "loop" /\ ~fs[i].jumped =>
          fs[i].incr \notin TargetsOf(is) /\ fs[i].clean \notin TargetsOf(is)
  BY <1>8
<1>14. /\ CodeOK(e, Put(c, b, is), fs, sc, b) /\ Len(Put(c, b, is)) = Len(c)
       /\ IsClosed(is) => IsClosed(Put(c, b, is)[b])
  BY <1>7, <1>10, <1>12, <1>13, CodeAppend
<1> QED
  BY <1>9, <1>14 DEF is, k

\* The promises of a loop that is left early are fixed then.
LEMMA CodeSettle ==
    ASSUME NEW e, NEW c, NEW fs, NEW sc, NEW b, NEW n,
           CodeOK(e, c, fs, sc, b), ScopesOK(sc), FramesOK(fs, sc, n, Len(c)),
           NEW i \in 1..Len(fs), fs[i].k = "loop"
    PROVE  \E d : CodeOK(d, c, [fs EXCEPT ![i].jumped = TRUE], sc, b)
<1> DEFINE gs == [fs EXCEPT ![i].jumped = TRUE]
           B == {fs[i].incr, fs[i].clean}
           D == Depth(fs, i)
           d == IF fs[i].jumped THEN e
                ELSE [k \in 1..Len(c) |-> IF k = fs[i].incr THEN Around(sc, fs, i + 1)
                                          ELSE IF k = fs[i].clean THEN Cleaned(sc, fs, i)
                                          ELSE e[k]]
<1>1. fs \in Seq(FrameRecs) /\ Len(fs) \in Nat
  BY LenProperties DEF FramesOK
<1>2. /\ gs \in Seq(FrameRecs) /\ Len(gs) = Len(fs)
      /\ \A j \in 1..Len(fs) : j # i => gs[j] = fs[j]
      /\ gs[i].jumped = TRUE
      /\ \A j \in 1..Len(fs) :
            /\ gs[j].k = fs[j].k /\ gs[j].gen = fs[j].gen
            /\ gs[j].merge = fs[j].merge /\ gs[j].incr = fs[j].incr
            /\ gs[j].clean = fs[j].clean /\ gs[j].test = fs[j].test
            /\ PendOf(gs[j]) = PendOf(fs[j])
  <2>1. LET hs == [fs EXCEPT ![i].jumped = TRUE]
        IN  /\ hs \in Seq(FrameRecs) /\ Len(hs) = Len(fs)
            /\ \A j \in 1..Len(fs) : j # i => hs[j] = fs[j]
            /\ hs[i].jumped = TRUE
            /\ \A j \in 1..Len(fs) :
                  /\ hs[j].k = fs[j].k /\ hs[j].gen = fs[j].gen /\ hs[j].old = fs[j].old
                  /\ hs[j].merge = fs[j].merge /\ hs[j].body = fs[j].body
                  /\ hs[j].incr = fs[j].incr /\ hs[j].clean = fs[j].clean
                  /\ hs[j].test = fs[j].test /\ hs[j].rest = fs[j].rest
                  /\ Low(hs[j]) = Low(fs[j]) /\ PendOf(hs[j]) = PendOf(fs[j])
                  /\ Blocks(hs[j]) = Blocks(fs[j])
    BY <1>1, JumpedFrame
  <2> HIDE DEF gs
  <2> QED
    BY <2>1 DEF gs
<1>3. /\ c \in Codes /\ Len(c) \in Nat \ {0} /\ e \in [1..Len(c) -> States]
      /\ Here(sc, fs) \in States /\ TypedCode(e, c, Pend(fs), b, Here(sc, fs))
      /\ TargetsOK(c, fs) /\ \A j \in 1..Len(fs) : Expect(e, sc, fs, j)
  BY CodeFacts DEF CodeOK
<1> HIDE DEF gs
<1>4. Pend(gs) = Pend(fs)
  BY <1>2, PendSame
<1>5. /\ PendOf(fs[i]) = {fs[i].incr, fs[i].clean, fs[i].merge}
      /\ PendOf(fs[i]) \subseteq Used(fs[i]) /\ Used(fs[i]) \subseteq 2..Len(c)
  BY <1>3, FrameFacts
<1>6. /\ fs[i].incr = fs[i].test + 2 /\ fs[i].clean = fs[i].test + 3
      /\ fs[i].merge = fs[i].test + 4 /\ fs[i].test \in Nat
  BY <1>1, FrameType DEF FramesOK, Blocks
<1>7. B \subseteq Pend(fs) /\ 1 \notin B
  <2>1. B \subseteq PendOf(fs[i])
    BY <1>5
  <2>2. PendOf(fs[i]) \subseteq Pend(fs)
    BY DEF Pend
  <2>3. 1 \notin 2..Len(c)
    OBVIOUS
  <2> QED
    BY <1>5, <2>1, <2>2, <2>3
<1>8. D \in Nat /\ D + 2 <= Len(sc) /\ Len(sc) \in Nat /\ Depth(fs, i + 1) = D + 2
  <2>1. i \in Nat \ {0}
    BY <1>1
  <2> QED
    BY <2>1, DepthsFit, DepthNext
<1>9. Around(sc, fs, i + 1) \in States /\ Cleaned(sc, fs, i) \in States
  <2>1. D + 2 \in 0..Len(sc) /\ D \in 0..Len(sc) /\ i + 1 \in 1..(Len(fs) + 1)
    BY <1>1, <1>8
  <2>2. At(sc, fs, D + 2, i + 1) \in States /\ Vs(sc, D + 2) \cup Gens(fs, i + 1) \in SUBSET Names
    BY <2>1, AtType
  <2>3. Ds(sc, D) \in SUBSET Names
    BY <2>1, VsType
  <2>4. Cleaned(sc, fs, i) \in States
    BY <2>2, <2>3, StateType DEF Cleaned
  <2> QED
    BY <1>8, <2>2, <2>4 DEF Around
<1>10. d \in [1..Len(c) -> States] /\ \A k \in 1..Len(c) : k \notin B => d[k] = e[k]
  BY <1>3, <1>9
<1>11. TypedCode(d, c, Pend(fs), b, Here(sc, fs))
  <2>1. CASE fs[i].jumped
    BY <1>3, <2>1
  <2>2. CASE ~fs[i].jumped
    <3>1. B \cap Targets(c) = {}
      BY <1>3, <2>2 DEF TargetsOK
    <3> HIDE DEF d, B
    <3> QED
      BY <1>3, <1>7, <1>10, <3>1, TypedSettle
  <2> QED
    BY <2>1, <2>2
<1>12. Here(sc, gs) = Here(sc, fs)
  <2>1. Len(fs) + 1 \in Nat /\ \A j \in 1..((Len(fs) + 1) - 1) : j \in 1..Len(fs)
    BY <1>1
  <2>2. Depth(gs, Len(fs) + 1) = Depth(fs, Len(fs) + 1)
    BY <1>2, <2>1, DepthSame
  <2>3. Gens(gs, Len(fs) + 1) = Gens(fs, Len(fs) + 1)
    BY <1>2, <2>1, GensSame
  <2> QED
    BY <1>2, <2>2, <2>3 DEF Here, Around, At
<1>13. ASSUME NEW j \in 1..Len(fs) PROVE Expect(d, sc, gs, j)
  <2>1. j \in Nat \ {0} /\ \A k \in 1..j : k \in 1..Len(fs)
    BY <1>1
  <2>2. \A k \in 1..j : gs[k].k = fs[k].k /\ gs[k].gen = fs[k].gen
    BY <1>2, <2>1
  <2>3. Expect(e, sc, fs, j)
    BY <1>3
  <2>4. CASE j # i
    <3>1. Used(fs[i]) \cap Used(fs[j]) = {}
      BY <1>3, <2>4, UsedApart
    <3>2. Used(fs[j]) \subseteq 2..Len(c) /\ 2..Len(c) \subseteq 1..Len(c)
      BY <1>3, FrameFacts
    <3>3. \A l \in Used(fs[j]) : d[l] = e[l]
      BY <1>5, <1>10, <3>1, <3>2
    <3>4. gs[j] = fs[j]
      BY <1>2, <2>4
    <3> HIDE DEF d
    <3> QED
      BY <2>1, <2>2, <2>3, <3>3, <3>4, ExpectSame
  <2>5. CASE j = i
    <3>1. Depth(gs, i) = D /\ Depth(gs, i + 1) = Depth(fs, i + 1)
      <4>1. i \in Nat /\ i + 1 \in Nat /\ (\A k \in 1..(i - 1) : k \in 1..i)
            /\ (\A k \in 1..((i + 1) - 1) : k \in 1..i)
        BY <1>1
      <4>2. Depth(gs, i) = D
        BY <2>2, <2>5, <4>1, DepthSame
      <4>3. Depth(gs, i + 1) = Depth(fs, i + 1)
        BY <2>2, <2>5, <4>1, DepthSame
      <4> QED
        BY <4>2, <4>3
    <3>2. Gens(gs, i + 1) = Gens(fs, i + 1)
      <4>1. i + 1 \in Nat /\ (\A k \in 1..((i + 1) - 1) : k \in 1..i)
        BY <1>1
      <4> QED
        BY <2>2, <2>5, <4>1, GensSame
    <3>3. /\ Setup(sc, gs, i) = Setup(sc, fs, i)
          /\ Around(sc, gs, i + 1) = Around(sc, fs, i + 1)
          /\ Cleaned(sc, gs, i) = Cleaned(sc, fs, i)
      BY <3>1, <3>2 DEF Setup, Around, Cleaned, At
    <3>4. fs[i].merge \notin B /\ fs[i].test \notin B
      BY <1>6
    <3>5. {fs[i].merge, fs[i].test, fs[i].incr, fs[i].clean} \subseteq 1..Len(c)
      <4>1. {fs[i].merge, fs[i].test, fs[i].incr, fs[i].clean} = Used(fs[i])
        BY DEF Used
      <4>2. 2..Len(c) \subseteq 1..Len(c)
        OBVIOUS
      <4> QED
        BY <1>5, <4>1, <4>2
    <3>6. e[fs[i].merge] = Setup(sc, fs, i) /\ e[fs[i].test] = Setup(sc, fs, i)
      BY <2>3, <2>5 DEF Expect
    <3>7. d[fs[i].merge] = Setup(sc, fs, i) /\ d[fs[i].test] = Setup(sc, fs, i)
      BY <1>10, <3>4, <3>5, <3>6
    <3>8. d[fs[i].incr] = Around(sc, fs, i + 1) /\ d[fs[i].clean] = Cleaned(sc, fs, i)
      <4>1. CASE fs[i].jumped
        BY <2>3, <2>5, <4>1 DEF Expect
      <4>2. CASE ~fs[i].jumped
        <5>1. fs[i].clean # fs[i].incr
          BY <1>6
        <5> QED
          BY <3>5, <4>2, <5>1
      <4> QED
        BY <4>1, <4>2
    <3> HIDE DEF d
    <3> QED
      BY <1>2, <2>5, <3>3, <3>7, <3>8 DEF Expect
  <2> QED
    BY <2>4, <2>5
<1>14. TargetsOK(c, gs)
  BY <1>2, <1>3 DEF TargetsOK
<1> HIDE DEF d
<1>15. CodeOK(d, c, gs, sc, b)
  BY <1>2, <1>4, <1>11, <1>12, <1>13, <1>14 DEF CodeOK
<1> QED
  BY <1>15 DEF gs

-----------------------------------------------------------------------------
(* The code, when a statement opens.                                        *)

\* The promises of the statements that are open already.
LEMMA ExpectGrown ==
    ASSUME NEW sc, NEW fs, NEW n, NEW m \in Nat, FramesOK(fs, sc, n, m),
           NEW i \in 1..Len(fs), NEW e, Expect(e, sc, fs, i),
           NEW r, \A k \in 1..Len(sc) : r[k] = sc[k],
           NEW gs, \A k \in 1..Len(fs) : gs[k] = fs[k],
           NEW d, \A k \in 1..m : d[k] = e[k]
    PROVE  Expect(d, r, gs, i)
<1>1. /\ Reach(fs[i], Depth(fs, i)) \in Nat /\ Len(sc) \in Nat /\ Len(fs) \in Nat
      /\ Reach(fs[i], Depth(fs, i)) <= Len(sc)
  BY DepthsFit
<1>2. i \in Nat \ {0} /\ \A j \in 1..i : j \in 1..Len(fs)
  BY <1>1
<1>3. \A j \in 1..i : gs[j].k = fs[j].k /\ gs[j].gen = fs[j].gen
  BY <1>2
<1>4. \A k \in 1..Reach(fs[i], Depth(fs, i)) : k \in 1..Len(sc)
  BY <1>1
<1>5. \A k \in 1..Reach(fs[i], Depth(fs, i)) : r[k].vs = sc[k].vs /\ r[k].defers = sc[k].defers
  BY <1>4
<1>6. \A l \in Used(fs[i]) : d[l] = e[l]
  <2>1. Used(fs[i]) \subseteq 2..m /\ 2..m \subseteq 1..m
    BY FrameFacts
  <2> QED
    BY <2>1
<1> QED
  BY <1>2, <1>3, <1>5, <1>6, ExpectSame

\* The promises of the statements below the one on top.
LEMMA ExpectBelow ==
    ASSUME NEW sc, NEW fs, NEW n, NEW m \in Nat, FramesOK(fs, sc, n, m),
           NEW i \in 1..(Len(fs) - 1), NEW e, Expect(e, sc, fs, i),
           NEW r, \A k \in 1..Depth(fs, Len(fs)) : r[k] = sc[k],
           NEW gs, \A k \in 1..(Len(fs) - 1) : gs[k] = fs[k]
    PROVE  Expect(e, r, gs, i)
<1>1. Len(fs) \in Nat
  BY LenProperties DEF FramesOK
<1>2. /\ i \in 1..Len(fs) /\ Len(fs) \in 1..Len(fs) /\ Len(fs) \in (i + 1)..Len(fs)
      /\ i \in Nat \ {0} /\ \A j \in 1..i : j \in 1..(Len(fs) - 1)
  BY <1>1
<1>3. /\ Reach(fs[i], Depth(fs, i)) \in Nat
      /\ Reach(fs[i], Depth(fs, i)) <= Depth(fs, Len(fs))
      /\ Depth(fs, Len(fs)) \in Nat
  BY <1>2, DepthsFit
<1>4. \A k \in 1..Reach(fs[i], Depth(fs, i)) : k \in 1..Depth(fs, Len(fs))
  BY <1>3
<1>5. \A k \in 1..Reach(fs[i], Depth(fs, i)) : r[k].vs = sc[k].vs /\ r[k].defers = sc[k].defers
  BY <1>4
<1>6. \A j \in 1..i : gs[j].k = fs[j].k /\ gs[j].gen = fs[j].gen
  BY <1>2
<1> QED
  BY <1>2, <1>5, <1>6, ExpectSame

LEMMA GotoIs ==
    ASSUME NEW T \in SUBSET Nat
    PROVE  Goto(T) \in Instrs /\ Goto(T).op = "goto" /\ Goto(T).to = T
<1>1. 0 \in 0..MaxNames
  BY ScopesAssumption
<1> QED
  BY <1>1 DEF Goto, Instrs

LEMMA DeclIs ==
    ASSUME NEW x \in Names
    PROVE  Decl(x) \in Plain /\ Decl(x).op = "decl" /\ Decl(x).x = x
<1>1. x \in 0..MaxNames /\ 0 \in 0..MaxNames
  BY ScopesAssumption DEF Names
<1> QED
  BY <1>1 DEF Decl, Ins, Plain, Instrs

\* Blocks are added, and the block the compiler is in branches to some of
\* them, all of which expect the state it leaves.
Forks(e, c, P, b, s, q, js, t, T, d, c2) ==
    /\ TypedCode(e, c, P, b, s) /\ q \in Nat
    /\ js \in Seq(Plain) /\ Leads(e, js, s, t)
    /\ T \subseteq (Len(c) + 1)..(Len(c) + q)
    /\ d \in [1..(Len(c) + q) -> States]
    /\ \A l \in 1..Len(c) : d[l] = e[l]
    /\ \A l \in T : d[l] = t
    /\ c2 = Put(c \o [i \in 1..q |-> <<>>], b, js \o <<Goto(T)>>)

\* What the code c has become.
Forked(c, q, T, c2) == Len(c2) = Len(c) + q /\ Targets(c2) = Targets(c) \cup T

LEMMA TypedBranch ==
    ASSUME NEW e, NEW c, NEW P, NEW b, NEW s, NEW q \in Nat, NEW js, NEW t, NEW T, NEW d, NEW c2,
           Forks(e, c, P, b, s, q, js, t, T, d, c2)
    PROVE  /\ TypedCode(d, c2, P \cup ((Len(c) + 1)..(Len(c) + q)), b, t)
           /\ IsClosed(c2[b]) /\ Forked(c, q, T, c2)
<1> DEFINE c1 == c \o [i \in 1..q |-> <<>>]
           k == <<Goto(T)>>
           is == js \o k
           Q == P \cup ((Len(c) + 1)..(Len(c) + q))
<1>0. c2 = Put(c1, b, is)
  BY DEF Forks
<1>a. TypedCode(e, c, P, b, s) /\ q \in Nat /\ js \in Seq(Plain) /\ Leads(e, js, s, t)
  BY DEF Forks
<1>b. T \subseteq (Len(c) + 1)..(Len(c) + q) /\ d \in [1..(Len(c) + q) -> States]
  BY DEF Forks
<1>c. (\A l \in 1..Len(c) : d[l] = e[l]) /\ (\A l \in T : d[l] = t)
  BY DEF Forks
<1> USE <1>a, <1>b, <1>c
<1>1. c \in Codes /\ b \in 1..Len(c) /\ Len(c) \in Nat /\ e \in [1..Len(c) -> States] /\ DOMAIN e = 1..Len(c)
  BY LenProperties DEF TypedCode, Codes
<1>2. js \in Seq(Instrs) /\ TargetsOf(js) = {}
  BY TargetsPlain
<1>3. t \in States
  BY <1>2, LeadsStates
<1>4. DOMAIN d = 1..(Len(c) + q)
  OBVIOUS
<1>5. \A l \in T : l \in DOMAIN d /\ d[l] = t
  BY <1>1, <1>4
<1>6. TypedCode(d, c1, Q, b, s)
  BY TypedGrow
<1>7. Leads(d, js, s, t)
  <2>1. \A i \in 1..Len(js) : js[i].to = {}
    BY ElementOfSeq DEF Plain
  <2> QED
    BY <1>2, <2>1, LeadsElsewhere
<1>8. T \in SUBSET Nat
  BY <1>1
<1>9. k \in Seq(Instrs) /\ TargetsOf(k) = T /\ IsClosed(k) /\ Leads(d, k, t, t)
  <2>1. Goto(T) \in Instrs /\ Goto(T).op = "goto" /\ Goto(T).to = T
    BY <1>8, GotoIs
  <2>2. Effect(d, Goto(T), t, t)
    BY <1>5, <2>1 DEF Effect
  <2>3. Leads(d, k, t, t)
    BY <1>3, <2>2, LeadsOne
  <2>4. TargetsOf(k) = T /\ IsClosed(k)
    BY <2>1, TargetsOne, ClosedOne
  <2> QED
    BY <2>1, <2>3, <2>4
<1> HIDE DEF k
<1>10. is \in Seq(Instrs) /\ Leads(d, is, s, t)
  BY <1>2, <1>7, <1>9, LeadsOn, Joined
<1>11. TargetsOf(is) = T /\ IsClosed(is)
  <2>1. js \in Seq(Instrs) /\ k \in Seq(Instrs)
    BY <1>2, <1>9
  <2>2. TargetsOf(js \o k) = TargetsOf(js) \cup TargetsOf(k)
    BY <2>1, TargetsJoined
  <2> DEFINE A == TargetsOf(js)
  <2>3. A = {} /\ TargetsOf(k) = T /\ TargetsOf(is) = A \cup TargetsOf(k)
    BY <1>2, <1>9, <2>2
  <2>4. IsClosed(is)
    BY <1>9, <2>1, ClosedBy
  <2> HIDE DEF A, is
  <2> QED
    BY <2>3, <2>4
<1> HIDE DEF is
<1>12. c1 \in Codes /\ Len(c1) = Len(c) + q /\ Targets(c1) = Targets(c)
  BY <1>1, GrowIs
<1> HIDE DEF c1
<1>13. TypedCode(d, c2, Q, b, t)
  BY <1>0, <1>6, <1>10, TypedAppend
<1>14. b \in 1..Len(c1)
  BY <1>6 DEF TypedCode
<1>15. Len(c2) = Len(c1) /\ c2[b] = c1[b] \o is /\ Targets(c2) = Targets(c1) \cup TargetsOf(is)
  <2>1. c1 \in Codes /\ b \in 1..Len(c1) /\ is \in Seq(Instrs)
    BY <1>10, <1>12, <1>14
  <2>2. Len(Put(c1, b, is)) = Len(c1) /\ Put(c1, b, is)[b] = c1[b] \o is
    BY <2>1, PutIs
  <2>3. Targets(Put(c1, b, is)) = Targets(c1) \cup TargetsOf(is)
    BY <2>1, TargetsPut
  <2> QED
    BY <1>0, <2>2, <2>3
<1>16. c1[b] \in Seq(Instrs)
  BY <1>12, <1>14, ElementOfSeq DEF Codes
<1>17. IsClosed(c2[b])
  BY <1>10, <1>11, <1>15, <1>16, ClosedBy
<1>18. Forked(c, q, T, c2)
  BY <1>11, <1>12, <1>15 DEF Forked
<1> QED
  BY <1>13, <1>17, <1>18

\* Where control is once a frame and its scopes are on top.
LEMMA HerePushed ==
    ASSUME NEW sc, NEW fs, NEW n, NEW m, FramesOK(fs, sc, n, m), NEW f,
           NEW gs, Len(gs) = Len(fs) + 1, gs[Len(fs) + 1] = f,
           \A k \in 1..Len(fs) : gs[k] = fs[k],
           NEW r, \A k \in 1..Len(sc) : r[k] = sc[k]
    PROVE  /\ Len(fs) \in Nat /\ Len(sc) \in Nat /\ Depth(gs, Len(fs) + 1) = Len(sc)
           /\ Around(r, gs, Len(fs) + 1) = Here(sc, fs)
           /\ Gens(gs, Len(fs) + 2) = Gens(fs, Len(fs) + 1) \cup ({f.gen} \ {0})
           /\ Vs(r, Len(sc)) = Vs(sc, Len(sc)) /\ Ds(r, Len(sc)) = Ds(sc, Len(sc))
           /\ Depth(gs, Len(fs) + 2) = Len(sc) + (IF f.k = "loop" THEN 2 ELSE 1)
<1> DEFINE N == Len(fs)
<1>1. N \in Nat /\ N + 1 \in Nat \ {0} /\ N + 1 \in Nat /\ (N + 1) + 1 = N + 2 /\ (N + 1) - 1 = N
  BY LenProperties DEF FramesOK
<1>2. Len(sc) = Depth(fs, N + 1)
  BY DEF FramesOK
<1>3. Depth(gs, N + 1) = Len(sc) /\ Len(sc) \in Nat
  <2>1. \A j \in 1..((N + 1) - 1) : gs[j].k = fs[j].k
    BY <1>1
  <2>2. Depth(gs, N + 1) = Depth(fs, N + 1)
    BY <1>1, <2>1, DepthSame
  <2> QED
    BY <1>1, <1>2, <2>2, DepthNext
<1>4. Vs(r, Len(sc)) = Vs(sc, Len(sc)) /\ Ds(r, Len(sc)) = Ds(sc, Len(sc))
  <2>1. \A k \in 1..Len(sc) : r[k].vs = sc[k].vs /\ r[k].defers = sc[k].defers
    OBVIOUS
  <2> QED
    BY <1>3, <2>1, ScopesSame
<1>5. Gens(gs, N + 1) = Gens(fs, N + 1)
  <2>1. \A j \in 1..((N + 1) - 1) : gs[j].gen = fs[j].gen
    BY <1>1
  <2> QED
    BY <1>1, <2>1, GensSame
<1>6. Around(r, gs, N + 1) = Here(sc, fs)
  BY <1>2, <1>3, <1>4, <1>5 DEF Around, At, Here
<1>7. Gens(gs, (N + 1) + 1) = Gens(gs, N + 1) \cup ({gs[N + 1].gen} \ {0})
  BY <1>1, GensNext
<1>8. Depth(gs, (N + 1) + 1) = Depth(gs, N + 1) + (IF gs[N + 1].k = "loop" THEN 2 ELSE 1)
  BY <1>1, DepthNext
<1> QED
  BY <1>1, <1>3, <1>4, <1>5, <1>6, <1>7, <1>8

\* The state once an empty scope is on top.
LEMMA TopEmpty ==
    ASSUME NEW r, ScopesOK(r), NEW D \in 1..Len(r), r[D].vs = {}, r[D].defers = <<>>
    PROVE  Vs(r, D) = Vs(r, D - 1) /\ Ds(r, D) = Ds(r, D - 1)
<1>1. Vs(r, D) = Vs(r, D - 1) \cup r[D].vs
  BY VsStep
<1>2. Ds(r, D) = Ds(r, D - 1)
  BY DsNone
<1> DEFINE A == Vs(r, D)
           B == Vs(r, D - 1)
           C == r[D].vs
<1>3. A = B \cup C /\ C = {}
  BY <1>1
<1> HIDE DEF A, B, C
<1>4. A = B
  BY <1>3
<1> QED
  BY <1>2, <1>4 DEF A, B

LEMMA TopFrame ==
    ASSUME NEW sc, NEW fs, NEW n, NEW m, FramesOK(fs, sc, n, m), fs # <<>>
    PROVE  /\ fs \in Seq(FrameRecs) /\ Len(fs) \in Nat \ {0} /\ Len(fs) \in 1..Len(fs)
           /\ Top(fs) = fs[Len(fs)]
           /\ Depth(fs, Len(fs)) \in Nat \ {0} /\ Len(sc) \in Nat
           /\ Len(sc) = Depth(fs, Len(fs)) + (IF fs[Len(fs)].k = "loop" THEN 2 ELSE 1)
           /\ Gens(fs, Len(fs) + 1) = Gens(fs, Len(fs)) \cup ({fs[Len(fs)].gen} \ {0})
<1> DEFINE N == Len(fs)
<1>1. fs \in Seq(FrameRecs)
  BY DEF FramesOK
<1>2. N \in Nat \ {0} /\ N \in 1..N
  BY <1>1, PopIs
<1>3. Depth(fs, N) \in Nat /\ Depth(fs, N) >= N
  BY <1>2, DepthNext
<1>4. Depth(fs, N + 1) = Depth(fs, N) + (IF fs[N].k = "loop" THEN 2 ELSE 1)
  BY <1>2, DepthNext
<1>5. Gens(fs, N + 1) = Gens(fs, N) \cup ({fs[N].gen} \ {0})
  BY <1>2, GensNext
<1>6. Len(sc) = Depth(fs, N + 1)
  BY DEF FramesOK
<1> HIDE DEF N
<1>7. Depth(fs, N) \in Nat \ {0} /\ Len(sc) \in Nat
  BY <1>2, <1>3, <1>4, <1>6
<1> QED
  BY <1>1, <1>2, <1>4, <1>5, <1>6, <1>7 DEF N, Top

\* The code at the regular end of a scope.
LEMMA ScopeEnds ==
    ASSUME NEW e, NEW sc, ScopesOK(sc), NEW d \in 1..Len(sc),
           NEW g \in SUBSET Names, g \cap sc[d].vs = {}
    PROVE  /\ Deferments(sc[d]) \o Callbacks(sc[d]) \in Seq(Plain)
           /\ Leads(e, Deferments(sc[d]) \o Callbacks(sc[d]),
                       State(Vs(sc, d) \cup g, Ds(sc, d)),
                       State(Vs(sc, d - 1) \cup g, Ds(sc, d - 1)))
<1> DEFINE ds == Deferments(sc[d])
           cb == Callbacks(sc[d])
           o == Vs(sc, d) \cup g
           a == Ds(sc, d - 1)
<1>1. d \in 0..Len(sc) /\ d - 1 \in 0..Len(sc)
  BY ScopesLen
<1>2. o \in SUBSET Names /\ a \in SUBSET Names /\ Vs(sc, d) \subseteq o
  BY <1>1, VsType
<1>3. ds \in Seq(Plain)
  BY DefermentsAre
<1>4. Leads(e, ds, State(o, Ds(sc, d)), State(o, a))
  <2> HIDE DEF o
  <2> QED
    BY <1>2, DefermentsLead
<1>5. cb \in Seq(Plain) /\ Leads(e, cb, State(o, a), State(Vs(sc, d - 1) \cup g, a))
  <2> HIDE DEF a
  <2> QED
    BY <1>2, CallbacksLead
<1>6. ds \in Seq(Instrs) /\ cb \in Seq(Instrs)
  BY <1>3, <1>5, TargetsPlain
<1> HIDE DEF ds, cb, o, a
<1>7. ds \o cb \in Seq(Plain)
  BY <1>3, <1>5
<1>8. Leads(e, ds \o cb, State(o, Ds(sc, d)), State(Vs(sc, d - 1) \cup g, a))
  BY <1>4, <1>5, <1>6, LeadsOn
<1> QED
  BY <1>7, <1>8 DEF ds, cb, o, a

\* The states around the innermost if, case or else block.
LEMMA AroundTop ==
    ASSUME NEW sc, NEW fs, NEW n, NEW m, FramesOK(fs, sc, n, m), fs # <<>>,
           fs[Len(fs)].k # "loop", ScopesOK(sc)
    PROVE  /\ Len(sc) \in 1..Len(sc) /\ Len(sc) - 1 = Depth(fs, Len(fs))
           /\ Gens(fs, Len(fs)) \in SUBSET Names
           /\ \A d \in 0..Len(sc) : Gens(fs, Len(fs)) \cap Vs(sc, d) = {}
           /\ Here(sc, fs) = State(Vs(sc, Len(sc)) \cup Gens(fs, Len(fs)), Ds(sc, Len(sc)))
           /\ Around(sc, fs, Len(fs)) =
                 State(Vs(sc, Len(sc) - 1) \cup Gens(fs, Len(fs)), Ds(sc, Len(sc) - 1))
<1> DEFINE N == Len(fs)
<1>1. N \in Nat \ {0} /\ N \in 1..N /\ N \in 1..(N + 1) /\ Depth(fs, N) \in Nat \ {0}
  BY TopFrame
<1>2. Len(sc) = Depth(fs, N) + 1
  BY TopFrame
<1>3. Gens(fs, N + 1) = Gens(fs, N) \cup ({fs[N].gen} \ {0})
  BY TopFrame
<1>4. fs[N].gen = 0
  BY <1>1 DEF FramesOK
<1>5. Gens(fs, N + 1) = Gens(fs, N)
  BY <1>3, <1>4
<1>6. Gens(fs, N) \in SUBSET Names /\ \A d \in 0..Len(sc) : Gens(fs, N) \cap Vs(sc, d) = {}
  BY <1>1, GensAre
<1>7. Here(sc, fs) = State(Vs(sc, Len(sc)) \cup Gens(fs, N + 1), Ds(sc, Len(sc)))
  BY HereIs
<1>8. Len(sc) \in 1..Len(sc) /\ Len(sc) - 1 = Depth(fs, N)
  BY <1>1, <1>2
<1> QED
  BY <1>5, <1>6, <1>7, <1>8 DEF Around, At

\* The scopes and frames up to the innermost statement, once it is left.
LEMMA HerePopped ==
    ASSUME NEW sc, NEW fs, NEW n, NEW m, FramesOK(fs, sc, n, m), fs # <<>>,
           NEW r, Len(r) = Depth(fs, Len(fs)), \A k \in 1..Len(r) : r[k] = sc[k]
    PROVE  Here(r, Pop(fs)) = Around(sc, fs, Len(fs))
<1> DEFINE N == Len(fs)
           gs == Pop(fs)
           D == Depth(fs, N)
<1>1. N \in Nat \ {0} /\ fs \in Seq(FrameRecs) /\ D \in Nat \ {0}
  BY TopFrame
<1>2. Len(gs) = N - 1 /\ \A k \in 1..(N - 1) : gs[k] = fs[k]
  BY <1>1, PopIs
<1>3. Len(gs) + 1 = N /\ N \in Nat
  BY <1>1, <1>2
<1> HIDE DEF gs
<1>4. Depth(gs, N) = D
  <2>1. \A j \in 1..(N - 1) : gs[j].k = fs[j].k
    BY <1>2
  <2> QED
    BY <1>3, <2>1, DepthSame
<1>5. At(r, gs, D, N) = At(sc, fs, D, N)
  <2>1. \A k \in 1..D : r[k].vs = sc[k].vs /\ r[k].defers = sc[k].defers
    OBVIOUS
  <2>2. \A j \in 1..(N - 1) : gs[j].gen = fs[j].gen
    BY <1>2
  <2>3. D \in Nat /\ N \in Nat
    BY <1>1
  <2> HIDE DEF D, N
  <2>4. Vs(r, D) = Vs(sc, D) /\ Ds(r, D) = Ds(sc, D)
    BY ONLY <2>1, <2>3, ScopesSame
  <2>5. Gens(gs, N) = Gens(fs, N)
    BY ONLY <2>2, <2>3, GensSame
  <2> QED
    BY <2>4, <2>5 DEF At
<1> QED
  BY <1>3, <1>4, <1>5 DEF Here, Around, gs

\* After an if or a switch.
LEMMA CodePop ==
    ASSUME NEW e, NEW c, NEW fs, NEW sc, NEW b, NEW n,
           CodeOK(e, c, fs, sc, b), FramesOK(fs, sc, n, Len(c)), IsClosed(c[b]),
           fs # <<>>, fs[Len(fs)].k # "loop", fs[Len(fs)].rest = <<>>,
           NEW r, Len(r) = Depth(fs, Len(fs)), \A k \in 1..Len(r) : r[k] = sc[k]
    PROVE  CodeOK(e, c, Pop(fs), r, Top(fs).merge)
<1> DEFINE N == Len(fs)
           gs == Pop(fs)
           M == fs[N].merge
<1>1. N \in Nat \ {0} /\ N \in 1..N /\ Top(fs) = fs[N] /\ fs \in Seq(FrameRecs)
  BY TopFrame
<1>2. Len(gs) = N - 1 /\ \A k \in 1..(N - 1) : gs[k] = fs[k]
  BY <1>1, PopIs
<1>3. /\ Len(c) \in Nat /\ TypedCode(e, c, Pend(fs), b, Here(sc, fs))
      /\ TargetsOK(c, fs) /\ \A i \in 1..N : Expect(e, sc, fs, i)
  BY CodeFacts DEF CodeOK
<1>4. PendOf(fs[N]) = {M}
  <2>1. Len(fs[N].rest) = 0 /\ M \in Nat
    BY <1>1, FrameType
  <2>2. First(fs[N]) = M
    BY <2>1 DEF First, Low
  <2> QED
    BY <2>1, <2>2 DEF PendOf
<1>5. Pend(gs) = Pend(fs) \ {M}
  <2>1. Pend(gs) = Pend(fs) \ PendOf(fs[N])
    BY <1>3, PendPop
  <2> QED
    BY <1>4, <2>1
<1>6. M \in Pend(fs)
  BY <1>1, <1>4 DEF Pend
<1>7. e[M] = Around(sc, fs, N)
  BY <1>1, <1>3, <1>4 DEF Expect
<1> HIDE DEF gs, M
<1>8. Here(r, gs) = Around(sc, fs, N)
  BY HerePopped DEF gs
<1>9. TypedCode(e, c, Pend(gs), M, Here(r, gs))
  <2>1. TypedCode(e, c, Pend(fs) \ {M}, M, e[M])
    BY <1>3, <1>6, TypedMove
  <2> QED
    BY <1>5, <1>7, <1>8, <2>1
<1>10. ASSUME NEW i \in 1..Len(gs) PROVE Expect(e, r, gs, i)
  <2>1. i \in 1..(Len(fs) - 1) /\ i \in 1..Len(fs)
    BY <1>1, <1>2
  <2>2. \A k \in 1..Depth(fs, Len(fs)) : r[k] = sc[k]
    OBVIOUS
  <2> QED
    BY <1>2, <1>3, <2>1, <2>2, ExpectBelow
<1>11. TargetsOK(c, gs)
  <2>1. \A i \in 1..Len(gs) : i \in 1..N /\ gs[i] = fs[i]
    BY <1>1, <1>2
  <2> QED
    BY <1>3, <2>1 DEF TargetsOK
<1> QED
  BY <1>1, <1>9, <1>10, <1>11 DEF CodeOK, gs, M

\* The next block of an if or a switch.
LEMMA CodeNext ==
    ASSUME NEW e, NEW c, NEW fs, NEW sc, NEW b, NEW n,
           CodeOK(e, c, fs, sc, b), FramesOK(fs, sc, n, Len(c)), ScopesOK(sc), IsClosed(c[b]),
           fs # <<>>, fs[Len(fs)].k # "loop", fs[Len(fs)].rest # <<>>,
           NEW r, Len(r) = Len(sc), \A k \in 1..(Len(sc) - 1) : r[k] = sc[k],
           r[Len(sc)].vs = {}, r[Len(sc)].defers = <<>>, ScopesOK(r),
           NEW gs, gs = [fs EXCEPT ![Len(fs)].rest = Tail(@)]
    PROVE  CodeOK(e, c, gs, r, Head(Top(fs).rest))
<1> DEFINE N == Len(fs)
           M == Low(fs[N])
           S == Around(sc, fs, N)
<1>1. /\ N \in Nat \ {0} /\ N \in 1..N /\ Top(fs) = fs[N] /\ fs \in Seq(FrameRecs)
      /\ Len(sc) = Depth(fs, N) + 1 /\ Depth(fs, N) \in Nat \ {0}
  BY TopFrame
<1>2. /\ Len(c) \in Nat /\ TypedCode(e, c, Pend(fs), b, Here(sc, fs))
      /\ TargetsOK(c, fs) /\ \A i \in 1..N : Expect(e, sc, fs, i)
  BY CodeFacts DEF CodeOK
<1>3. /\ Len(gs) = N /\ \A i \in 1..(N - 1) : gs[i] = fs[i]
      /\ gs[N].k = fs[N].k /\ gs[N].gen = fs[N].gen /\ gs[N].merge = fs[N].merge
      /\ Head(fs[N].rest) = M /\ Low(gs[N]) = M + 1 /\ M < fs[N].merge
  BY <1>1, <1>2, NextFrame
<1>4. M \in Nat /\ fs[N].merge \in Nat
  BY <1>1, <1>2, FrameFacts
<1>5. PendOf(fs[N]) = M..fs[N].merge /\ PendOf(gs[N]) = (M + 1)..fs[N].merge
  BY <1>3 DEF PendOf, First
<1>6. M \in PendOf(fs[N]) /\ PendOf(gs[N]) = PendOf(fs[N]) \ {M}
  BY <1>3, <1>4, <1>5
<1>7. M \in Pend(fs) /\ e[M] = S
  BY <1>1, <1>2, <1>6 DEF Expect, Pend
<1>8. Pend(gs) = Pend(fs) \ {M}
  BY <1>2, <1>3, <1>6, PendNext
<1>9. \A j \in 1..N : gs[j].k = fs[j].k /\ gs[j].gen = fs[j].gen
  <2>1. \A j \in 1..N : j = N \/ j \in 1..(N - 1)
    BY <1>1
  <2> QED
    BY <1>3, <2>1
<1>10. /\ Gens(gs, N + 1) = Gens(fs, N) /\ Gens(gs, N) = Gens(fs, N)
       /\ Depth(gs, N) = Depth(fs, N) /\ Depth(gs, N + 1) = Depth(fs, N) + 1
  <2>1. (N + 1) - 1 = N /\ N + 1 \in Nat /\ N \in Nat
    BY <1>1
  <2>2. Gens(gs, N + 1) = Gens(fs, N + 1)
    <3> DEFINE K == N + 1
    <3>1. \A j \in 1..(K - 1) : gs[j].gen = fs[j].gen
      BY <1>9, <2>1
    <3>2. K \in Nat
      BY <2>1
    <3> HIDE DEF K
    <3>3. Gens(gs, K) = Gens(fs, K)
      BY ONLY <3>1, <3>2, GensSame
    <3> QED
      BY <3>3 DEF K
  <2>3. Gens(gs, N) = Gens(fs, N) /\ Depth(gs, N) = Depth(fs, N)
    <3>1. \A j \in 1..(N - 1) : gs[j].gen = fs[j].gen
      BY <1>3
    <3>2. \A j \in 1..(N - 1) : gs[j].k = fs[j].k
      BY <1>3
    <3>3. N \in Nat
      BY <2>1
    <3> HIDE DEF N
    <3> QED
      BY ONLY <3>1, <3>2, <3>3, GensSame, DepthSame
  <2>4. Gens(fs, N + 1) = Gens(fs, N)
    <3>1. Gens(fs, N + 1) = Gens(fs, N) \cup ({fs[N].gen} \ {0})
      BY TopFrame
    <3>2. fs[N].gen = 0
      BY <1>1 DEF FramesOK
    <3> QED
      BY <3>1, <3>2
  <2>5. Depth(gs, N + 1) = Depth(gs, N) + (IF gs[N].k = "loop" THEN 2 ELSE 1)
    BY <1>1, DepthNext
  <2> QED
    BY <1>3, <2>2, <2>3, <2>4, <2>5
<1>11. At(r, gs, Depth(fs, N), N) = S /\ Here(r, gs) = S
  <2>1. /\ \A k \in 1..Depth(fs, N) : r[k].vs = sc[k].vs /\ r[k].defers = sc[k].defers
    BY <1>1
  <2>2. /\ Vs(r, Depth(fs, N)) = Vs(sc, Depth(fs, N)) /\ Ds(r, Depth(fs, N)) = Ds(sc, Depth(fs, N))
    BY <1>1, <2>1, ScopesSame
  <2>3. S = State(Vs(sc, Depth(fs, N)) \cup Gens(fs, N), Ds(sc, Depth(fs, N)))
    BY DEF Around, At
  <2>4. At(r, gs, Depth(fs, N), N) = S
    BY <1>10, <2>2, <2>3 DEF At
  <2>5. Vs(r, Len(sc)) = Vs(r, Depth(fs, N)) /\ Ds(r, Len(sc)) = Ds(r, Depth(fs, N))
    <3> DEFINE D == Len(sc)
    <3>1. D \in 1..Len(r) /\ D - 1 = Depth(fs, N) /\ r[D].vs = {} /\ r[D].defers = <<>>
      BY <1>1
    <3> HIDE DEF D
    <3>2. Vs(r, D) = Vs(r, D - 1) /\ Ds(r, D) = Ds(r, D - 1)
      BY <3>1, TopEmpty
    <3> QED
      BY <3>1, <3>2 DEF D
  <2>6. Here(r, gs) = State(Vs(r, Len(sc)) \cup Gens(gs, N + 1), Ds(r, Len(sc)))
    BY <1>1, <1>3, <1>10 DEF Here, Around, At
  <2> QED
    BY <1>10, <2>2, <2>3, <2>4, <2>5, <2>6
<1> HIDE DEF M, S
<1>12. TypedCode(e, c, Pend(gs), M, Here(r, gs))
  <2>1. TypedCode(e, c, Pend(fs) \ {M}, M, e[M])
    BY <1>2, <1>7, TypedMove
  <2> QED
    BY <1>7, <1>8, <1>11, <2>1
<1>13. ASSUME NEW i \in 1..N PROVE Expect(e, r, gs, i)
  <2>1. CASE i = N
    <3>1. \A l \in PendOf(gs[N]) : e[l] = Around(sc, fs, N)
      BY <1>1, <1>2, <1>6 DEF Expect
    <3>2. Around(r, gs, N) = Around(sc, fs, N)
      BY <1>10, <1>11 DEF Around, S
    <3> QED
      BY <1>3, <2>1, <3>1, <3>2 DEF Expect
  <2>2. CASE i # N
    <3>1. i \in 1..(Len(fs) - 1) /\ i \in 1..Len(fs)
      BY <1>1, <2>2
    <3>2. \A k \in 1..Depth(fs, Len(fs)) : r[k] = sc[k]
      BY <1>1
    <3>3. Expect(e, sc, fs, i)
      BY <1>2, <3>1
    <3>4. \A k \in 1..(Len(fs) - 1) : gs[k] = fs[k]
      BY <1>3
    <3> DEFINE L == Len(c)
    <3>5. FramesOK(fs, sc, n, L) /\ L \in Nat
      BY <1>2
    <3> HIDE DEF L
    <3> QED
      BY ONLY <3>1, <3>2, <3>3, <3>4, <3>5, ExpectBelow
  <2> QED
    BY <2>1, <2>2
<1>14. TargetsOK(c, gs)
  <2>1. \A i \in 1..N : i = N \/ gs[i] = fs[i]
    <3>1. \A i \in 1..N : i = N \/ i \in 1..(N - 1)
      BY <1>1
    <3> QED
      BY <1>3, <3>1
  <2> QED
    BY <1>2, <1>3, <2>1 DEF TargetsOK
<1> QED
  BY <1>1, <1>3, <1>12, <1>13, <1>14 DEF CodeOK

\* A pending block is filled, and branches to blocks that are known.
Fills(e, c, P, b, s, m, js, t, T, c2) ==
    /\ TypedCode(e, c, P, b, s) /\ IsClosed(c[b]) /\ m \in P
    /\ js \in Seq(Plain) /\ Leads(e, js, e[m], t)
    /\ \A l \in T : l \in 1..Len(c) /\ e[l] = t
    /\ c2 = Put(c, m, js \o <<Goto(T)>>)
Filled(c, T, c2) == Len(c2) = Len(c) /\ Targets(c2) = Targets(c) \cup T

LEMMA TypedFill ==
    ASSUME NEW e, NEW c, NEW P, NEW b, NEW s, NEW m, NEW js, NEW t, NEW T, NEW c2,
           Fills(e, c, P, b, s, m, js, t, T, c2)
    PROVE  /\ TypedCode(e, c2, P \ {m}, m, t) /\ IsClosed(c2[m]) /\ Filled(c, T, c2)
<1> DEFINE k == <<Goto(T)>>
           is == js \o k
<1>1. TypedCode(e, c, P, b, s) /\ IsClosed(c[b]) /\ m \in P
  BY DEF Fills
<1>2. js \in Seq(Plain) /\ Leads(e, js, e[m], t)
  BY DEF Fills
<1>3. \A l \in T : l \in 1..Len(c) /\ e[l] = t
  BY DEF Fills
<1>4. c2 = Put(c, m, is)
  BY DEF Fills
<1>5. c \in Codes /\ m \in 1..Len(c) /\ Len(c) \in Nat /\ DOMAIN e = 1..Len(c)
  BY <1>1, LenProperties DEF TypedCode, Codes
<1>6. js \in Seq(Instrs) /\ TargetsOf(js) = {}
  BY <1>2, TargetsPlain
<1>7. t \in States
  BY <1>2, <1>6, LeadsStates
<1>8. k \in Seq(Instrs) /\ TargetsOf(k) = T /\ IsClosed(k) /\ Leads(e, k, t, t)
  <2>1. T \in SUBSET Nat
    BY <1>3, <1>5
  <2>2. Goto(T) \in Instrs /\ Goto(T).op = "goto" /\ Goto(T).to = T
    BY <2>1, GotoIs
  <2>3. Effect(e, Goto(T), t, t)
    BY <1>3, <1>5, <2>2 DEF Effect
  <2>4. Leads(e, k, t, t)
    BY <1>7, <2>3, LeadsOne
  <2>5. TargetsOf(k) = T /\ IsClosed(k)
    BY <2>2, TargetsOne, ClosedOne
  <2> QED
    BY <2>2, <2>4, <2>5
<1> HIDE DEF k
<1>9. is \in Seq(Instrs) /\ Leads(e, is, e[m], t)
  BY <1>2, <1>6, <1>8, LeadsOn, Joined
<1>10. TargetsOf(is) = T /\ IsClosed(is)
  <2>1. TargetsOf(js \o k) = TargetsOf(js) \cup TargetsOf(k)
    BY <1>6, <1>8, TargetsJoined
  <2> DEFINE A == TargetsOf(js)
  <2>2. A = {} /\ TargetsOf(k) = T /\ TargetsOf(is) = A \cup TargetsOf(k)
    BY <1>6, <1>8, <2>1
  <2>3. IsClosed(is)
    BY <1>6, <1>8, ClosedBy
  <2> HIDE DEF A, is
  <2> QED
    BY <2>2, <2>3
<1> HIDE DEF is
<1>11. TypedCode(e, c, P \ {m}, m, e[m])
  BY <1>1, TypedMove
<1>12. TypedCode(e, c2, P \ {m}, m, t)
  BY <1>4, <1>9, <1>11, TypedAppend
<1>13. Len(c2) = Len(c) /\ c2[m] = c[m] \o is /\ Targets(c2) = Targets(c) \cup TargetsOf(is)
  <2>1. Len(Put(c, m, is)) = Len(c) /\ Put(c, m, is)[m] = c[m] \o is
    BY <1>5, <1>9, PutIs
  <2>2. Targets(Put(c, m, is)) = Targets(c) \cup TargetsOf(is)
    BY <1>5, <1>9, TargetsPut
  <2> QED
    BY <1>4, <2>1, <2>2
<1>14. IsClosed(c2[m])
  <2>1. c[m] \in Seq(Instrs)
    BY <1>5, ElementOfSeq DEF Codes
  <2> QED
    BY <1>9, <1>10, <1>13, <2>1, ClosedBy
<1> QED
  BY <1>10, <1>12, <1>13, <1>14 DEF Filled

\* The states around the end of the innermost loop.
LEMMA LoopTop ==
    ASSUME NEW sc, NEW fs, NEW n, NEW m, FramesOK(fs, sc, n, m), fs # <<>>,
           fs[Len(fs)].k = "loop", ScopesOK(sc)
    PROVE  LET D == Len(sc)
               g == Gens(fs, Len(fs) + 1)
               h == Gens(fs, Len(fs))
           IN  /\ D \in 1..D /\ D - 1 \in 1..D /\ (D - 1) - 1 = Depth(fs, Len(fs))
               /\ g \in SUBSET Names /\ h \in SUBSET Names
               /\ g = h \cup ({fs[Len(fs)].gen} \ {0}) /\ fs[Len(fs)].gen \notin h
               /\ \A d \in 0..D : g \cap Vs(sc, d) = {}
               /\ Ds(sc, D - 1) = Ds(sc, (D - 1) - 1)
               /\ Here(sc, fs) = State(Vs(sc, D) \cup g, Ds(sc, D))
               /\ Around(sc, fs, Len(fs) + 1) = Here(sc, fs)
               /\ Setup(sc, fs, Len(fs)) = State(Vs(sc, D - 1) \cup g, Ds(sc, D - 1))
               /\ Cleaned(sc, fs, Len(fs)) = State(Vs(sc, D) \cup g, Ds(sc, D - 1))
               /\ Around(sc, fs, Len(fs)) = State(Vs(sc, (D - 1) - 1) \cup h, Ds(sc, D - 1))
<1> DEFINE N == Len(fs)
           D == Len(sc)
           E == Depth(fs, N)
           g == Gens(fs, N + 1)
           h == Gens(fs, N)
<1>1. N \in Nat \ {0} /\ N \in 1..N /\ N \in 1..(N + 1) /\ N + 1 \in 1..(N + 1) /\ E \in Nat \ {0}
  BY TopFrame
<1>2. D = E + 2 /\ g = h \cup ({fs[N].gen} \ {0})
  BY TopFrame
<1>3. D \in 1..D /\ D - 1 \in 1..D /\ (D - 1) - 1 = E /\ E + 1 = D - 1 /\ E + 2 = D
  BY <1>1, <1>2
<1>4. g \in SUBSET Names /\ h \in SUBSET Names /\ \A d \in 0..D : g \cap Vs(sc, d) = {}
  <2> DEFINE K == N + 1
  <2>1. K \in 1..(Len(fs) + 1)
    BY <1>1
  <2> HIDE DEF K
  <2>2. Gens(fs, K) \in SUBSET Names /\ \A d \in 0..Len(sc) : Gens(fs, K) \cap Vs(sc, d) = {}
    BY <2>1, GensAre
  <2>3. h \in SUBSET Names
    BY <1>1, GensAre
  <2> QED
    BY <2>2, <2>3 DEF K
<1>5. fs[N].gen \notin h
  <2>1. \A j \in 1..(N - 1) : j \in 1..N /\ j # N
    BY <1>1
  <2>2. \A j \in 1..N : fs[j].gen = fs[N].gen /\ fs[j].gen # 0 => j = N
    BY <1>1 DEF FramesOK
  <2> QED
    BY <2>1, <2>2 DEF Gens
<1>6. Ds(sc, D - 1) = Ds(sc, E)
  <2>1. sc[E + 1].defers = <<>>
    BY <1>1 DEF FramesOK
  <2> DEFINE K == D - 1
  <2>2. K \in 1..Len(sc) /\ sc[K].defers = <<>> /\ K - 1 = E
    BY <1>3, <2>1
  <2> HIDE DEF K, E
  <2>3. Ds(sc, K) = Ds(sc, K - 1)
    BY <2>2, DsNone
  <2> QED
    BY <2>2, <2>3 DEF K
<1>7. Here(sc, fs) = State(Vs(sc, D) \cup g, Ds(sc, D))
  BY HereIs
<1>8. Around(sc, fs, N + 1) = Here(sc, fs)
  BY DEF Here
<1>9. Setup(sc, fs, N) = State(Vs(sc, D - 1) \cup g, Ds(sc, D - 1))
  BY <1>3 DEF Setup, At
<1>10. Cleaned(sc, fs, N) = State(Vs(sc, D) \cup g, Ds(sc, D - 1))
  BY <1>3, <1>6 DEF Cleaned
<1>11. Around(sc, fs, N) = State(Vs(sc, (D - 1) - 1) \cup h, Ds(sc, D - 1))
  BY <1>3, <1>6 DEF Around, At
<1> HIDE DEF g, h
<1> QED
  BY <1>2, <1>3, <1>4, <1>5, <1>6, <1>7, <1>8, <1>9, <1>10, <1>11 DEF g, h

LEMMA RelIs ==
    ASSUME NEW x \in Names
    PROVE  Rel(x) \in Plain /\ Rel(x).op = "rel" /\ Rel(x).x = x
<1>1. x \in 0..MaxNames /\ 0 \in 0..MaxNames
  BY ScopesAssumption DEF Names
<1> QED
  BY <1>1 DEF Rel, Ins, Plain, Instrs

\* What follows the innermost loop in its merge block.
LEMMA LoopReleased ==
    ASSUME NEW e, NEW fs, NEW sc, NEW n, NEW m, ScopesOK(sc), FramesOK(fs, sc, n, m),
           fs # <<>>, NEW f, f = fs[Len(fs)], f.k = "loop",
           NEW cs, cs = Callbacks(sc[Len(sc) - 1]),
           NEW ks, ks = IF f.gen = 0 THEN <<>> ELSE <<Rel(f.gen)>>
    PROVE  /\ cs \in Seq(Plain) /\ ks \in Seq(Plain)
           /\ \E t : Leads(e, cs, Setup(sc, fs, Len(fs)), t)
                     /\ Leads(e, ks, t, Around(sc, fs, Len(fs)))
<1> DEFINE N == Len(fs)
           D == Len(sc)
           C == D - 1
           g == Gens(fs, N + 1)
           h == Gens(fs, N)
           a == Ds(sc, C)
           S == Setup(sc, fs, N)
           R == Around(sc, fs, N)
           t == State(Vs(sc, C - 1) \cup g, a)
<1>1. /\ D \in 1..D /\ C \in 1..D /\ g \in SUBSET Names /\ h \in SUBSET Names
      /\ g = h \cup ({f.gen} \ {0}) /\ f.gen \notin h
      /\ \A d \in 0..D : g \cap Vs(sc, d) = {}
      /\ S = State(Vs(sc, C) \cup g, a)
      /\ R = State(Vs(sc, C - 1) \cup h, a)
  BY LoopTop
<1>2. C \in 0..D /\ C - 1 \in 0..D
  BY <1>1
<1>3. a \in SUBSET Names /\ Vs(sc, C - 1) \in SUBSET Names
  BY <1>2, VsType
<1>4. g \cap sc[C].vs = {}
  <2>1. sc[C].vs \subseteq Vs(sc, C)
    BY <1>1 DEF Vs
  <2> QED
    BY <1>1, <1>2, <2>1
<1>5. cs \in Seq(Plain) /\ Leads(e, cs, S, t)
  <2> HIDE DEF D, C, g, a, S
  <2>0. C \in 1..Len(sc) /\ cs = Callbacks(sc[C])
    BY <1>1 DEF D, C
  <2>1. /\ Callbacks(sc[C]) \in Seq(Plain)
        /\ Leads(e, Callbacks(sc[C]), State(Vs(sc, C) \cup g, a), State(Vs(sc, C - 1) \cup g, a))
    <3>1. ScopesOK(sc) /\ g \in SUBSET Names
      BY <1>1
    <3> QED
      BY ONLY <1>3, <1>4, <2>0, <3>1, CallbacksLead
  <2> QED
    BY <1>1, <2>0, <2>1
<1>6. t \in States /\ t.own = Vs(sc, C - 1) \cup g /\ t.arm = a
  <2> DEFINE o == Vs(sc, C - 1) \cup g
  <2>1. o \in SUBSET Names
    BY <1>1, <1>3
  <2> HIDE DEF o, a, g
  <2> QED
    BY <1>3, <2>1, StateType DEF o
<1>7. ks \in Seq(Plain) /\ Leads(e, ks, t, R)
  <2>1. CASE f.gen = 0
    <3>1. ks = <<>> /\ g = h
      BY <1>1, <2>1
    <3>2. t = R
      BY <1>1, <3>1
    <3> HIDE DEF t
    <3>3. Leads(e, <<>>, t, t)
      BY <1>6, LeadsNothing
    <3> QED
      BY <3>1, <3>2, <3>3
  <2>2. CASE f.gen # 0
    <3> DEFINE x == f.gen
    <3>1. x \in g /\ x \in Names /\ ks = <<Rel(x)>>
      BY <1>1, <2>2
    <3>2. x \notin Vs(sc, C - 1)
      BY <1>1, <1>2, <3>1
    <3>3. (Vs(sc, C - 1) \cup g) \ {x} = Vs(sc, C - 1) \cup h
      BY <1>1, <2>2, <3>1, <3>2
    <3>4. Rel(x) \in Plain /\ Rel(x).op = "rel" /\ Rel(x).x = x
      BY <3>1, RelIs
    <3>5. R = State(t.own \ {x}, t.arm) /\ x \in t.own
      BY <1>1, <1>6, <3>1, <3>3
    <3>6. R \in States
      <4>1. Vs(sc, C - 1) \cup h \in SUBSET Names
        BY <1>1, <1>3
      <4> HIDE DEF R, h, a
      <4> QED
        BY <1>1, <1>3, <4>1, StateType
    <3> HIDE DEF R, t, x
    <3>7. Effect(e, Rel(x), t, R)
      BY <3>4, <3>5 DEF Effect
    <3>8. Leads(e, <<Rel(x)>>, t, R)
      BY <1>6, <3>6, <3>7, LeadsOne
    <3>9. <<Rel(x)>> \in Seq(Plain)
      BY <3>4
    <3> QED
      BY <3>1, <3>8, <3>9
  <2> QED
    BY <2>1, <2>2
<1> HIDE DEF t, S, R
<1> QED
  BY <1>5, <1>7 DEF S, R

\* The code when the blocks incr and clean of the innermost loop are filled,
\* and what it is then.
Filling(c, b, f, s2) ==
    LET c1 == Put(c, b, <<Goto({f.incr})>>)
        c2 == Put(c1, f.incr, Deferments(s2) \o Callbacks(s2) \o <<Goto({f.test})>>)
    IN  Put(c2, f.clean, Callbacks(s2) \o <<Goto({f.merge})>>)

AtLoopEnd(e, c, fs, sc, b, n, f) ==
    /\ CodeOK(e, c, fs, sc, b) /\ ScopesOK(sc) /\ FramesOK(fs, sc, n, Len(c))
    /\ fs # <<>> /\ f = fs[Len(fs)] /\ f.k = "loop" /\ f.jumped

AtMerge(e, c, fs, sc, f, c3) ==
    /\ TypedCode(e, c3, (Pend(fs) \ {f.incr}) \ {f.clean}, f.clean, Setup(sc, fs, Len(fs)))
    /\ IsClosed(c3[f.clean]) /\ Len(c3) = Len(c)
    /\ Targets(c3) = Targets(c) \cup {f.incr, f.test, f.merge}

LEMMA LoopFilled ==
    ASSUME NEW e, NEW c, NEW fs, NEW sc, NEW b, NEW n, NEW f,
           AtLoopEnd(e, c, fs, sc, b, n, f)
    PROVE  AtMerge(e, c, fs, sc, f, Filling(c, b, f, sc[Len(sc)]))
<1> DEFINE s2 == sc[Len(sc)]
           c1 == Put(c, b, <<Goto({f.incr})>>)
           c2 == Put(c1, f.incr, Deferments(s2) \o Callbacks(s2) \o <<Goto({f.test})>>)
           c3 == Put(c2, f.clean, Callbacks(s2) \o <<Goto({f.merge})>>)
<1>a. CodeOK(e, c, fs, sc, b) /\ ScopesOK(sc) /\ FramesOK(fs, sc, n, Len(c))
  BY DEF AtLoopEnd
<1>b. fs # <<>> /\ f = fs[Len(fs)] /\ f.k = "loop" /\ f.jumped
  BY DEF AtLoopEnd
<1>c. c1 = Put(c, b, <<Goto({f.incr})>>) /\ s2 = sc[Len(sc)]
  OBVIOUS
<1>d. c2 = Put(c1, f.incr, Deferments(s2) \o Callbacks(s2) \o <<Goto({f.test})>>)
  OBVIOUS
<1>e. c3 = Put(c2, f.clean, Callbacks(s2) \o <<Goto({f.merge})>>)
  OBVIOUS
<1>f. Filling(c, b, f, sc[Len(sc)]) = c3
  BY DEF Filling
<1> HIDE DEF s2, c1, c2, c3
<1> USE <1>a, <1>b, <1>c, <1>d, <1>e
<1> DEFINE N == Len(fs)
           D == Len(sc)
           g == Gens(fs, N + 1)
           H == Here(sc, fs)
           S == Setup(sc, fs, N)
           P == Pend(fs)
           ds == Deferments(s2) \o Callbacks(s2)
           cs == Callbacks(s2)
<1>1. N \in 1..N /\ fs \in Seq(FrameRecs)
  BY TopFrame
<1>2. /\ Len(c) \in Nat /\ TypedCode(e, c, P, b, H)
      /\ TargetsOK(c, fs) /\ \A i \in 1..N : Expect(e, sc, fs, i)
  BY CodeFacts DEF CodeOK
<1>3. /\ D \in 1..D /\ D - 1 \in 1..D /\ g \in SUBSET Names
      /\ \A d \in 0..D : g \cap Vs(sc, d) = {}
      /\ H = State(Vs(sc, D) \cup g, Ds(sc, D))
      /\ Around(sc, fs, N + 1) = H
      /\ S = State(Vs(sc, D - 1) \cup g, Ds(sc, D - 1))
      /\ Cleaned(sc, fs, N) = State(Vs(sc, D) \cup g, Ds(sc, D - 1))
  BY LoopTop
<1>4. e[f.merge] = S /\ e[f.test] = S /\ e[f.incr] = H /\ e[f.clean] = Cleaned(sc, fs, N)
  <2>1. Expect(e, sc, fs, N)
    BY <1>1, <1>2
  <2> QED
    BY <1>3, <2>1 DEF Expect
<1>5. /\ f.merge \in 1..Len(c) /\ f.test \in 1..Len(c) /\ f.incr \in 1..Len(c)
      /\ f.incr \in PendOf(f) /\ f.clean \in PendOf(f) /\ f.clean # f.incr
  <2>1. Used(f) \subseteq 2..Len(c) /\ PendOf(f) = {f.incr, f.clean, f.merge}
    <3>1. /\ Used(fs[N]) \subseteq 2..Len(c)
          /\ fs[N].k = "loop" => PendOf(fs[N]) = {fs[N].incr, fs[N].clean, fs[N].merge}
      <4> DEFINE L == Len(c)
      <4>1. L \in Nat /\ FramesOK(fs, sc, n, L) /\ N \in 1..Len(fs)
        BY <1>1, <1>2
      <4> HIDE DEF L, N
      <4>2. /\ Used(fs[N]) \subseteq 2..L
            /\ fs[N].k = "loop" => PendOf(fs[N]) = {fs[N].incr, fs[N].clean, fs[N].merge}
        BY ONLY <4>1, FrameFacts
      <4> QED
        BY <4>2 DEF L
    <3> QED
      BY <3>1
  <2>2. f.test \in Nat /\ Blocks(f)
    BY <1>1, FrameType DEF FramesOK
  <2>3. f.clean # f.incr
    BY <2>2 DEF Blocks
  <2> QED
    BY <1>2, <2>1, <2>3 DEF Used
<1>6. f.incr \in P /\ f.clean \in P \ {f.incr}
  BY <1>1, <1>5 DEF Pend
<1>7. g \cap s2.vs = {} /\ D \in 0..D
  <2>1. D \in 0..D
    BY <1>3
  <2>2. s2.vs \subseteq Vs(sc, D)
    BY <1>3 DEF Vs
  <2> QED
    BY <1>3, <2>1, <2>2
<1>8. ds \in Seq(Plain) /\ Leads(e, ds, H, S)
  <2>1. D \in 1..Len(sc) /\ s2 = sc[D]
    BY <1>3
  <2> HIDE DEF D, g, S, H
  <2>2. /\ Deferments(sc[D]) \o Callbacks(sc[D]) \in Seq(Plain)
        /\ Leads(e, Deferments(sc[D]) \o Callbacks(sc[D]),
                    State(Vs(sc, D) \cup g, Ds(sc, D)),
                    State(Vs(sc, D - 1) \cup g, Ds(sc, D - 1)))
    BY <1>3, <1>7, <2>1, ScopeEnds
  <2> QED
    BY <1>3, <2>1, <2>2
<1>9. cs \in Seq(Plain) /\ Leads(e, cs, Cleaned(sc, fs, N), S)
  <2> DEFINE a == Ds(sc, D - 1)
  <2>1. D \in 1..Len(sc) /\ s2 = sc[D]
    BY <1>3
  <2>2. a \in SUBSET Names
    <3>1. D - 1 \in 0..Len(sc)
      BY <1>3
    <3> QED
      BY <3>1, VsType
  <2> HIDE DEF D, g, S, H, a
  <2>3. /\ Callbacks(sc[D]) \in Seq(Plain)
        /\ Leads(e, Callbacks(sc[D]), State(Vs(sc, D) \cup g, a), State(Vs(sc, D - 1) \cup g, a))
    BY <1>3, <1>7, <2>1, <2>2, CallbacksLead
  <2> QED
    BY <1>3, <2>1, <2>3 DEF a
<1>10. TypedCode(e, c1, P, b, H) /\ IsClosed(c1[b]) /\ Len(c1) = Len(c) /\ Targets(c1) = Targets(c) \cup {f.incr}
  <2> DEFINE k == <<Goto({f.incr})>>
  <2>1. Goto({f.incr}) \in Instrs /\ Goto({f.incr}).op = "goto" /\ Goto({f.incr}).to = {f.incr}
    <3>1. {f.incr} \in SUBSET Nat
      BY <1>2, <1>5
    <3> QED
      BY <3>1, GotoIs
  <2>2. H \in States /\ c \in Codes /\ b \in 1..Len(c) /\ c[b] \in Seq(Instrs) /\ DOMAIN e = 1..Len(c)
    BY CodeFacts
  <2> HIDE DEF H
  <2>3. Effect(e, Goto({f.incr}), H, H)
    BY <1>4, <1>5, <2>1, <2>2 DEF Effect
  <2>4. Leads(e, k, H, H)
    BY <2>2, <2>3, LeadsOne
  <2>5. k \in Seq(Instrs) /\ TargetsOf(k) = {f.incr} /\ IsClosed(k)
    <3> DEFINE ins == Goto({f.incr})
    <3>1. ins \in Instrs /\ ins.op = "goto" /\ ins.to = {f.incr}
      BY <2>1
    <3> HIDE DEF ins
    <3>2. TargetsOf(<<ins>>) = ins.to /\ IsClosed(<<ins>>)
      BY ONLY <3>1, TargetsOne, ClosedOne
    <3>3. <<ins>> \in Seq(Instrs)
      BY <3>1
    <3> QED
      BY <3>1, <3>2, <3>3 DEF ins
  <2> HIDE DEF k
  <2>6. c1 = Put(c, b, k)
    BY DEF k
  <2>7. TypedCode(e, Put(c, b, k), P, b, H)
    BY <1>2, <2>4, <2>5, TypedAppend
  <2>8. Len(Put(c, b, k)) = Len(c) /\ Put(c, b, k)[b] = c[b] \o k
    BY <2>2, <2>5, PutIs
  <2>9. Targets(Put(c, b, k)) = Targets(c) \cup TargetsOf(k)
    BY <2>2, <2>5, TargetsPut
  <2>10. IsClosed(c[b] \o k)
    BY <2>2, <2>5, ClosedBy
  <2> QED
    BY <2>5, <2>6, <2>7, <2>8, <2>9, <2>10
<1> HIDE DEF H, S, P, ds, cs
<1>11. TypedCode(e, c2, P \ {f.incr}, f.incr, S) /\ IsClosed(c2[f.incr]) /\ Filled(c1, {f.test}, c2)
  <2>1. Fills(e, c1, P, b, H, f.incr, ds, S, {f.test}, c2)
    <3>1. c2 = Put(c1, f.incr, ds \o <<Goto({f.test})>>)
      BY DEF ds
    <3>2. \A l \in {f.test} : l \in 1..Len(c1) /\ e[l] = S
      BY <1>4, <1>5, <1>10
    <3>3. Leads(e, ds, e[f.incr], S)
      BY <1>4, <1>8
    <3> QED
      BY <1>6, <1>8, <1>10, <3>1, <3>2, <3>3 DEF Fills
  <2> QED
    BY <2>1, TypedFill
<1>12. /\ TypedCode(e, c3, (P \ {f.incr}) \ {f.clean}, f.clean, S)
       /\ IsClosed(c3[f.clean]) /\ Filled(c2, {f.merge}, c3)
  <2>1. Fills(e, c2, P \ {f.incr}, f.incr, S, f.clean, cs, S, {f.merge}, c3)
    <3>1. c3 = Put(c2, f.clean, cs \o <<Goto({f.merge})>>)
      BY DEF cs
    <3>2. \A l \in {f.merge} : l \in 1..Len(c2) /\ e[l] = S
      BY <1>4, <1>5, <1>10, <1>11 DEF Filled
    <3>3. Leads(e, cs, e[f.clean], S)
      BY <1>4, <1>9
    <3> QED
      BY <1>6, <1>9, <1>11, <3>1, <3>2, <3>3 DEF Fills
  <2> QED
    BY <2>1, TypedFill
<1>13. Len(c3) = Len(c) /\ Targets(c3) = Targets(c) \cup {f.incr, f.test, f.merge}
  BY <1>10, <1>11, <1>12 DEF Filled
<1> QED
  BY <1>12, <1>13, <1>f DEF P, S, AtMerge

\* The end of a loop whose blocks incr and clean have been promised.
LEMMA LoopEnds ==
    ASSUME NEW e, NEW c, NEW fs, NEW sc, NEW b, NEW n, NEW f,
           AtLoopEnd(e, c, fs, sc, b, n, f),
           NEW c4, c4 = Put(Filling(c, b, f, sc[Len(sc)]), f.merge, Callbacks(sc[Len(sc) - 1])),
           NEW c5, c5 = IF f.gen = 0 THEN c4 ELSE Put(c4, f.merge, <<Rel(f.gen)>>),
           NEW r, Len(r) = Depth(fs, Len(fs)), \A k \in 1..Len(r) : r[k] = sc[k]
    PROVE  CodeOK(e, c5, Pop(fs), r, f.merge) /\ Len(c5) = Len(c)
<1> DEFINE N == Len(fs)
           S == Setup(sc, fs, N)
           R == Around(sc, fs, N)
           gs == Pop(fs)
           M == f.merge
           Q == (Pend(fs) \ {f.incr}) \ {f.clean}
           cs == Callbacks(sc[Len(sc) - 1])
           c3 == Filling(c, b, f, sc[Len(sc)])
           ks == IF f.gen = 0 THEN <<>> ELSE <<Rel(f.gen)>>
<1>a. CodeOK(e, c, fs, sc, b) /\ ScopesOK(sc) /\ FramesOK(fs, sc, n, Len(c))
  BY DEF AtLoopEnd
<1>b. fs # <<>> /\ f = fs[Len(fs)] /\ f.k = "loop" /\ f.jumped
  BY DEF AtLoopEnd
<1>c. c4 = Put(c3, f.merge, cs)
  OBVIOUS
<1>d. AtMerge(e, c, fs, sc, f, c3)
  BY LoopFilled
<1> HIDE DEF c3, cs
<1> USE <1>a, <1>b
<1>1. N \in Nat \ {0} /\ N \in 1..N /\ fs \in Seq(FrameRecs)
  BY TopFrame
<1>2. Len(gs) = N - 1 /\ \A k \in 1..(N - 1) : gs[k] = fs[k]
  BY <1>1, PopIs
<1>3. /\ Len(c) \in Nat /\ Pend(fs) \subseteq 1..Len(c)
      /\ TargetsOK(c, fs) /\ \A i \in 1..N : Expect(e, sc, fs, i)
  BY CodeFacts DEF CodeOK, TypedCode
<1>4. /\ TypedCode(e, c3, Q, f.clean, S) /\ IsClosed(c3[f.clean]) /\ Len(c3) = Len(c)
      /\ Targets(c3) = Targets(c) \cup {f.incr, f.test, f.merge}
  BY <1>d DEF AtMerge
<1>5. cs \in Seq(Plain) /\ ks \in Seq(Plain)
  BY LoopReleased DEF cs
<1>6. PICK t : Leads(e, cs, S, t) /\ Leads(e, ks, t, R)
  BY LoopReleased DEF cs
<1>7. e[M] = S
  BY <1>1, <1>3 DEF Expect
<1>8. /\ Used(f) \subseteq 2..Len(c) /\ PendOf(f) = {f.incr, f.clean, f.merge}
      /\ f.incr \in Nat /\ f.clean \in Nat /\ f.merge \in Nat /\ Blocks(f) /\ f.test \in Nat
  <2> DEFINE L == Len(c)
  <2>1. L \in Nat /\ FramesOK(fs, sc, n, L) /\ N \in 1..Len(fs)
    BY <1>1, <1>3
  <2> HIDE DEF L, N
  <2>2. /\ Used(fs[N]) \subseteq 2..L
        /\ fs[N].k = "loop" => PendOf(fs[N]) = {fs[N].incr, fs[N].clean, fs[N].merge}
    BY ONLY <2>1, FrameFacts
  <2>3. fs[N].incr \in Nat /\ fs[N].clean \in Nat /\ fs[N].merge \in Nat /\ fs[N].test \in Nat
    BY <1>1, <2>1, FrameType
  <2>4. Blocks(fs[N])
    BY <2>1 DEF FramesOK
  <2> QED
    BY <2>2, <2>3, <2>4 DEF L, N
<1>9. M # f.incr /\ M # f.clean
  BY <1>8 DEF Blocks
<1>10. M \in Q /\ Q \ {M} = Pend(gs)
  <2>1. M \in Pend(fs)
    BY <1>1, <1>8 DEF Pend
  <2>2. Pend(gs) = Pend(fs) \ PendOf(f)
    BY <1>3, PendPop
  <2> QED
    BY <1>8, <1>9, <2>1, <2>2
<1> HIDE DEF Q, S, R, gs, ks
<1>11. TypedCode(e, c3, Pend(gs), M, S)
  <2>1. TypedCode(e, c3, Q \ {M}, M, e[M])
    BY <1>4, <1>10, TypedMove
  <2> QED
    BY <1>7, <1>10, <2>1
<1>12. cs \in Seq(Instrs) /\ ks \in Seq(Instrs) /\ TargetsOf(cs) = {} /\ TargetsOf(ks) = {}
  BY <1>5, TargetsPlain
<1>13. TypedCode(e, c4, Pend(gs), M, t)
  <2>1. c4 = Put(c3, M, cs)
    BY <1>c
  <2> QED
    BY <1>6, <1>11, <1>12, <2>1, TypedAppend
<1>14. c3 \in Codes /\ M \in 1..Len(c3) /\ c4 \in Codes /\ M \in 1..Len(c4)
  BY <1>11, <1>13 DEF TypedCode
<1>15. Len(c4) = Len(c3) /\ Targets(c4) = Targets(c3)
  <2>1. c4 = Put(c3, M, cs)
    BY <1>c
  <2>2. Len(Put(c3, M, cs)) = Len(c3)
    BY ONLY <1>12, <1>14, PutIs
  <2>3. Targets(Put(c3, M, cs)) = Targets(c3) \cup TargetsOf(cs)
    BY ONLY <1>12, <1>14, TargetsPut
  <2> QED
    BY <1>12, <2>1, <2>2, <2>3
<1>16. TypedCode(e, c5, Pend(gs), M, R) /\ Len(c5) = Len(c4) /\ Targets(c5) = Targets(c4)
  <2>1. c5 = Put(c4, M, ks)
    <3>1. CASE f.gen = 0
      BY <1>14, <3>1, PutNothing DEF ks
    <3>2. CASE f.gen # 0
      BY <3>2 DEF ks
    <3> QED
      BY <3>1, <3>2
  <2>2. TypedCode(e, Put(c4, M, ks), Pend(gs), M, R)
    BY <1>6, <1>12, <1>13, TypedAppend
  <2>3. Len(Put(c4, M, ks)) = Len(c4)
    BY ONLY <1>12, <1>14, PutIs
  <2>4. Targets(Put(c4, M, ks)) = Targets(c4) \cup TargetsOf(ks)
    BY ONLY <1>12, <1>14, TargetsPut
  <2> QED
    BY <1>12, <2>1, <2>2, <2>3, <2>4
<1>17. Here(r, gs) = R
  BY HerePopped DEF gs, R
<1>18. ASSUME NEW i \in 1..Len(gs) PROVE Expect(e, r, gs, i)
  <2>1. i \in 1..(Len(fs) - 1) /\ i \in 1..Len(fs)
    BY <1>1, <1>2
  <2>2. \A k \in 1..Depth(fs, Len(fs)) : r[k] = sc[k]
    OBVIOUS
  <2>3. Expect(e, sc, fs, i)
    BY <1>3, <2>1
  <2>4. \A k \in 1..(Len(fs) - 1) : gs[k] = fs[k]
    BY <1>2
  <2> DEFINE L == Len(c)
  <2>5. FramesOK(fs, sc, n, L) /\ L \in Nat
    BY <1>3
  <2> HIDE DEF L
  <2> QED
    BY ONLY <2>1, <2>2, <2>3, <2>4, <2>5, ExpectBelow
<1>19. TargetsOK(c5, gs)
  <2>1. Targets(c5) = Targets(c) \cup {f.incr, f.test, f.merge} /\ Len(c5) = Len(c)
    BY <1>4, <1>15, <1>16
  <2>2. Targets(c) \subseteq 1..Len(c)
    BY <1>3 DEF TargetsOK
  <2>3. f.incr \in 1..Len(c) /\ f.test \in 1..Len(c) /\ f.merge \in 1..Len(c)
    <3>1. f.incr \in 2..Len(c) /\ f.test \in 2..Len(c) /\ f.merge \in 2..Len(c)
      BY <1>8 DEF Used
    <3> QED
      BY <1>3, <3>1
  <2>4. Targets(c5) \subseteq 1..Len(c5)
    <3>1. \A l \in Targets(c5) : l \in Targets(c) \/ l = f.incr \/ l = f.test \/ l = f.merge
      BY <2>1
    <3> QED
      BY <2>1, <2>2, <2>3, <3>1
  <2>5. ASSUME NEW i \in 1..Len(gs), gs[i].k = "loop", ~gs[i].jumped
        PROVE  gs[i].incr \notin Targets(c5) /\ gs[i].clean \notin Targets(c5)
    <3>1. i \in 1..Len(fs) /\ i # N /\ gs[i] = fs[i]
      BY <1>1, <1>2
    <3>2. fs[i].incr \notin Targets(c) /\ fs[i].clean \notin Targets(c)
      BY <1>3, <2>5, <3>1 DEF TargetsOK
    <3>3. Used(fs[i]) \cap Used(fs[N]) = {}
      <4> DEFINE L == Len(c)
      <4>1. FramesOK(fs, sc, n, L) /\ L \in Nat /\ N \in 1..Len(fs)
        BY <1>1, <1>3
      <4> HIDE DEF L, N
      <4> QED
        BY ONLY <3>1, <4>1, UsedApart
    <3>4. fs[i].incr \in Used(fs[i]) /\ fs[i].clean \in Used(fs[i])
      BY <2>5, <3>1 DEF Used
    <3>5. f.incr \in Used(fs[N]) /\ f.test \in Used(fs[N]) /\ f.merge \in Used(fs[N])
      BY DEF Used
    <3> QED
      BY <2>1, <3>1, <3>2, <3>3, <3>4, <3>5
  <2> QED
    BY <2>4, <2>5 DEF TargetsOK
<1>20. CodeOK(e, c5, gs, r, M)
  BY <1>16, <1>17, <1>18, <1>19 DEF CodeOK
<1> QED
  BY <1>4, <1>15, <1>16, <1>20 DEF gs

LEMMA StackNotEmpty ==
    ASSUME NEW sc, NEW fs, NEW n, NEW m, FramesOK(fs, sc, n, m), ScopesOK(sc)
    PROVE  Len(sc) \in Nat \ {0} /\ Len(sc) \in 1..Len(sc) /\ sc # <<>>
<1> DEFINE N == Len(fs)
<1>1. N + 1 \in Nat \ {0} /\ N \in Nat
  BY LenProperties DEF FramesOK
<1>2. Depth(fs, N + 1) \in Nat /\ Depth(fs, N + 1) >= N + 1
  <2> DEFINE K == N + 1
  <2>1. K \in Nat \ {0}
    BY <1>1
  <2> HIDE DEF K
  <2> QED
    BY <2>1, DepthNext DEF K
<1>3. Len(sc) = Depth(fs, N + 1)
  BY DEF FramesOK
<1>4. Len(sc) \in Nat \ {0}
  BY <1>1, <1>2, <1>3
<1> QED
  BY <1>4 DEF ScopesOK

\* A statement that adds to the scope on top, and what it leads to.
AtStatement(e, c, fs, sc, b, n, p) ==
    /\ CodeOK(e, c, fs, sc, b) /\ StackOK(sc, n, p) /\ FramesOK(fs, sc, n, Len(c))
    /\ ~(fs # <<>> /\ fs[Len(fs)].k = "loop" /\ fs[Len(fs)].jumped) /\ n < MaxNames
AfterStatement(e, c, fs, sc, b, n, p, r, c2) ==
    /\ CodeOK(e, c2, fs, r, b) /\ Len(c2) = Len(c)
    /\ StackOK(r, n + 1, p) /\ FramesOK(fs, r, n + 1, Len(c))
    /\ Len(r) = Len(sc) /\ \A d \in 1..Len(sc) : r[d].id = sc[d].id

\* A declaration.
LEMMA CodeDeclare ==
    ASSUME NEW e, NEW c, NEW fs, NEW sc, NEW b, NEW n \in Nat, NEW p,
           AtStatement(e, c, fs, sc, b, n, p),
           NEW r, r = [sc EXCEPT ![Len(sc)].vs = @ \cup {n + 1}],
           NEW c2, c2 = Put(c, b, <<Decl(n + 1)>>)
    PROVE  AfterStatement(e, c, fs, sc, b, n, p, r, c2)
<1> DEFINE x == n + 1
           D == Len(sc)
           N == Len(fs)
           G == Gens(fs, N + 1)
           H == Here(sc, fs)
           I == Here(r, fs)
<1>a. CodeOK(e, c, fs, sc, b) /\ StackOK(sc, n, p) /\ FramesOK(fs, sc, n, Len(c))
  BY DEF AtStatement
<1>b. ~(fs # <<>> /\ fs[Len(fs)].k = "loop" /\ fs[Len(fs)].jumped) /\ n < MaxNames
  BY DEF AtStatement
<1> USE <1>a, <1>b
<1>1. D \in Nat \ {0} /\ D \in 1..D /\ sc # <<>> /\ ScopesOK(sc)
  BY StackNotEmpty DEF StackOK
<1>2. /\ StackOK(r, x, p) /\ Len(r) = D
      /\ \A k \in 1..(D - 1) : r[k] = sc[k]
      /\ \A k \in 1..D : r[k].defers = sc[k].defers /\ r[k].id = sc[k].id
      /\ r[D].vs = sc[D].vs \cup {x}
  <2>1. StackOK(sc, n, p) /\ sc # <<>> /\ n < MaxNames /\ n \in Nat
    BY <1>1
  <2>2. LET q == [sc EXCEPT ![Len(sc)].vs = @ \cup {n + 1}]
        IN  /\ StackOK(q, n + 1, p) /\ Len(q) = Len(sc)
            /\ \A k \in 1..(Len(sc) - 1) : q[k] = sc[k]
            /\ \A k \in 1..Len(sc) : q[k].defers = sc[k].defers /\ q[k].id = sc[k].id
            /\ q[Len(sc)].vs = sc[Len(sc)].vs \cup {n + 1}
    BY ONLY <2>1, StackDeclare
  <2> QED
    BY <2>2
<1>3. FramesOK(fs, r, x, Len(c))
  <2>1. \A k \in 1..(Len(sc) - 1) : r[k].defers = sc[k].defers
    BY <1>2
  <2>2. \A k \in 1..Len(sc) : r[k].vs \subseteq sc[k].vs \cup {n + 1}
    <3>1. \A k \in 1..D : k = D \/ k \in 1..(D - 1)
      BY <1>1
    <3> QED
      BY <1>2, <3>1
  <2>3. FramesOK(fs, sc, n, Len(c)) /\ n \in Nat /\ Len(r) = Len(sc)
    BY <1>2
  <2> QED
    BY ONLY <2>1, <2>2, <2>3, FramesSame
<1>4. x \in Names /\ x \notin 1..n
  BY ScopesAssumption DEF Names
<1>5. x \notin Vs(sc, D)
  BY <1>4 DEF StackOK, Vs
<1>6. x \notin G
  <2>1. \A i \in 1..N : fs[i].gen <= n /\ fs[i].gen \in Nat
    BY FrameType DEF FramesOK
  <2>2. N \in Nat /\ (N + 1) - 1 = N
    BY LenProperties DEF FramesOK
  <2>3. \A i \in 1..N : fs[i].gen # x
    BY <2>1
  <2> QED
    BY <2>2, <2>3 DEF Gens
<1>7. Vs(r, D) = Vs(sc, D) \cup {x}
  <2>1. \A k \in 1..D : k = D \/ k \in 1..(D - 1)
    BY <1>1
  <2>2. \A k \in 1..D : k = D \/ r[k].vs = sc[k].vs
    BY <1>2, <2>1
  <2>3. r[D].vs = sc[D].vs \cup {x}
    BY <1>2
  <2> HIDE DEF D, x
  <2> QED
    BY ONLY <1>1, <2>2, <2>3 DEF Vs
<1>8. Ds(r, D) = Ds(sc, D)
  BY <1>2 DEF Ds
<1>9. H = State(Vs(sc, D) \cup G, Ds(sc, D))
  BY HereIs
<1>10. I = State(Vs(r, D) \cup G, Ds(r, D))
  BY <1>2, <1>3, HereIs
<1>11. H \in States /\ I \in States
  <2>1. Vs(sc, D) \in SUBSET Names /\ Ds(sc, D) \in SUBSET Names
    <3>1. D \in 0..D
      BY <1>1
    <3> QED
      BY <1>1, <3>1, VsType
  <2>2. G \in SUBSET Names
    <3> DEFINE K == N + 1
    <3>1. K \in 1..(Len(fs) + 1)
      BY LenProperties DEF FramesOK
    <3> HIDE DEF K
    <3>2. Gens(fs, K) \in SUBSET Names
      BY <3>1, GensAre
    <3> QED
      BY <3>2 DEF K
  <2>3. Vs(sc, D) \cup G \in SUBSET Names /\ Vs(r, D) \cup G \in SUBSET Names
    BY <1>4, <1>7, <2>1, <2>2
  <2> HIDE DEF H, I, G
  <2> QED
    BY <1>8, <1>9, <1>10, <2>1, <2>3, StateType
<1>12. Leads(e, <<Decl(x)>>, H, I)
  <2>1. H.own = Vs(sc, D) \cup G /\ H.arm = Ds(sc, D)
    BY <1>9 DEF State
  <2>2. I = State(H.own \cup {x}, H.arm) /\ x \in Names \ H.own
    <3>1. Vs(r, D) \cup G = (Vs(sc, D) \cup G) \cup {x}
      BY <1>7
    <3> QED
      BY <1>4, <1>5, <1>6, <1>8, <1>10, <2>1, <3>1
  <2>3. Decl(x) \in Plain /\ Decl(x).op = "decl" /\ Decl(x).x = x
    BY <1>4, DeclIs
  <2> HIDE DEF H, I, x
  <2>4. Effect(e, Decl(x), H, I)
    BY <2>2, <2>3 DEF Effect
  <2> QED
    BY <1>11, <2>4, LeadsOne
<1>13. <<Decl(x)>> \in Seq(Plain)
  BY <1>4, DeclIs
<1>14. CodeOK(e, Put(c, b, <<Decl(x)>>), fs, r, b) /\ Len(Put(c, b, <<Decl(x)>>)) = Len(c)
  <2> DEFINE is == <<Decl(x)>>
  <2>1. is \in Seq(Plain) /\ Leads(e, is, Here(sc, fs), Here(r, fs))
    BY <1>12, <1>13
  <2>2. \A k \in 1..(Len(sc) - 1) : r[k] = sc[k]
    BY <1>2
  <2>3. CodeOK(e, c, fs, sc, b) /\ FramesOK(fs, sc, n, Len(c))
    OBVIOUS
  <2>4. ~(fs # <<>> /\ fs[Len(fs)].k = "loop" /\ fs[Len(fs)].jumped)
    OBVIOUS
  <2> HIDE DEF is
  <2> QED
    <3>1. CodeOK(e, Put(c, b, is), fs, r, b) /\ Len(Put(c, b, is)) = Len(c)
      BY ONLY <2>1, <2>2, <2>3, <2>4, CodeTop
    <3> QED
      BY <3>1 DEF is
<1> QED
  BY <1>2, <1>3, <1>14 DEF AfterStatement
\* A deferment.
LEMMA CodeDefer ==
    ASSUME NEW e, NEW c, NEW fs, NEW sc, NEW b, NEW n \in Nat, NEW p,
           AtStatement(e, c, fs, sc, b, n, p),
           NEW v \in 0..MaxNames, InScope(sc, v), sc[Len(sc)].defers = <<>>,
           NEW r, r = [sc EXCEPT ![Len(sc)].defers = Append(@, [x |-> n + 1, v |-> v])],
           NEW c2, c2 = Put(c, b, <<Ins("arm", n + 1, 0)>>)
    PROVE  AfterStatement(e, c, fs, sc, b, n, p, r, c2)
<1> DEFINE x == n + 1
           D == Len(sc)
           N == Len(fs)
           G == Gens(fs, N + 1)
           H == Here(sc, fs)
           I == Here(r, fs)
           ins == Ins("arm", x, 0)
<1>a. CodeOK(e, c, fs, sc, b) /\ StackOK(sc, n, p) /\ FramesOK(fs, sc, n, Len(c))
  BY DEF AtStatement
<1>b. ~(fs # <<>> /\ fs[Len(fs)].k = "loop" /\ fs[Len(fs)].jumped) /\ n < MaxNames
  BY DEF AtStatement
<1> USE <1>a, <1>b
<1>1. D \in Nat \ {0} /\ D \in 1..D /\ sc # <<>> /\ ScopesOK(sc)
  BY StackNotEmpty DEF StackOK
<1>2. /\ StackOK(r, x, p) /\ Len(r) = D
      /\ \A k \in 1..(D - 1) : r[k] = sc[k]
      /\ \A k \in 1..D : r[k].vs = sc[k].vs /\ r[k].id = sc[k].id
      /\ r[D].defers = <<[x |-> n + 1, v |-> v]>>
  <2>1. StackOK(sc, n, p) /\ sc # <<>> /\ n < MaxNames /\ n \in Nat
    BY <1>1
  <2>2. v \in 0..MaxNames /\ InScope(sc, v)
    OBVIOUS
  <2>3. sc[Len(sc)].defers = <<>>
    OBVIOUS
  <2>4. LET q == [sc EXCEPT ![Len(sc)].defers = Append(@, [x |-> n + 1, v |-> v])]
        IN  /\ StackOK(q, n + 1, p) /\ Len(q) = Len(sc)
            /\ \A k \in 1..(Len(sc) - 1) : q[k] = sc[k]
            /\ \A k \in 1..Len(sc) : q[k].vs = sc[k].vs /\ q[k].id = sc[k].id
            /\ q[Len(sc)].defers = <<[x |-> n + 1, v |-> v]>>
    BY ONLY <2>1, <2>2, <2>3, StackDefer
  <2> QED
    BY <2>4
<1>3. FramesOK(fs, r, x, Len(c))
  <2>1. \A k \in 1..(Len(sc) - 1) : r[k].defers = sc[k].defers
    BY <1>2
  <2>2. \A k \in 1..Len(sc) : r[k].vs \subseteq sc[k].vs \cup {n + 1}
    BY <1>2
  <2>3. FramesOK(fs, sc, n, Len(c)) /\ n \in Nat /\ Len(r) = Len(sc)
    BY <1>2
  <2> QED
    BY ONLY <2>1, <2>2, <2>3, FramesSame
<1>4. x \in Names /\ x \in 0..MaxNames /\ 0 \in 0..MaxNames
  BY ScopesAssumption DEF Names
<1>5. Ds(r, D) = Ds(sc, D) \cup {x} /\ x \notin Ds(sc, D)
  <2>1. ScopesOK(r) /\ D \in 1..Len(r) /\ r[D].defers # <<>> /\ r[D].defers[1].x = x
    BY <1>1, <1>2 DEF StackOK
  <2> HIDE DEF D, x
  <2>2. Ds(r, D) = Ds(r, D - 1) \cup {r[D].defers[1].x} /\ r[D].defers[1].x \notin Ds(r, D - 1)
    BY <2>1, DsOne
  <2>3. Ds(r, D - 1) = Ds(sc, D - 1)
    <3> DEFINE K == D - 1
    <3>1. \A k \in 1..K : r[k].vs = sc[k].vs /\ r[k].defers = sc[k].defers
      BY <1>2 DEF D
    <3>2. K \in Nat
      BY <1>1 DEF D
    <3> HIDE DEF K
    <3>3. Ds(r, K) = Ds(sc, K)
      BY ONLY <3>1, <3>2, ScopesSame
    <3> QED
      BY <3>3 DEF K
  <2>4. Ds(sc, D) = Ds(sc, D - 1)
    BY <1>1, DsNone DEF D
  <2> QED
    BY <2>1, <2>2, <2>3, <2>4
<1>6. Vs(r, D) = Vs(sc, D)
  BY <1>2 DEF Vs
<1>7. H = State(Vs(sc, D) \cup G, Ds(sc, D))
  BY HereIs
<1>8. I = State(Vs(r, D) \cup G, Ds(r, D))
  BY <1>2, <1>3, HereIs
<1>9. H \in States /\ I \in States
  <2>1. Vs(sc, D) \in SUBSET Names /\ Ds(sc, D) \in SUBSET Names
    <3>1. D \in 0..D
      BY <1>1
    <3> QED
      BY <1>1, <3>1, VsType
  <2>2. G \in SUBSET Names
    <3> DEFINE K == N + 1
    <3>1. K \in 1..(Len(fs) + 1)
      BY LenProperties DEF FramesOK
    <3> HIDE DEF K
    <3>2. Gens(fs, K) \in SUBSET Names
      BY <3>1, GensAre
    <3> QED
      BY <3>2 DEF K
  <2>3. Vs(sc, D) \cup G \in SUBSET Names /\ Ds(r, D) \in SUBSET Names
    BY <1>4, <1>5, <2>1, <2>2
  <2> HIDE DEF H, I, G
  <2> QED
    BY <1>6, <1>7, <1>8, <2>1, <2>3, StateType
<1>10. ins \in Plain /\ ins.op = "arm" /\ ins.x = x
  BY <1>4 DEF Ins, Plain, Instrs
<1>11. Leads(e, <<ins>>, H, I)
  <2>1. H.own = Vs(sc, D) \cup G /\ H.arm = Ds(sc, D)
    BY <1>7 DEF State
  <2>2. I = State(H.own, H.arm \cup {x}) /\ x \in Names \ H.arm
    BY <1>4, <1>5, <1>6, <1>8, <2>1
  <2> HIDE DEF H, I, x, ins
  <2>3. Effect(e, ins, H, I)
    BY <1>10, <2>2 DEF Effect
  <2> QED
    BY <1>9, <2>3, LeadsOne
<1>12. CodeOK(e, Put(c, b, <<ins>>), fs, r, b) /\ Len(Put(c, b, <<ins>>)) = Len(c)
  <2> DEFINE is == <<ins>>
  <2>0. is \in Seq(Plain)
    <3> HIDE DEF ins
    <3> QED
      BY <1>10
  <2>1. Leads(e, is, Here(sc, fs), Here(r, fs))
    BY <1>11
  <2>2. \A k \in 1..(Len(sc) - 1) : r[k] = sc[k]
    BY <1>2
  <2>3. CodeOK(e, c, fs, sc, b) /\ FramesOK(fs, sc, n, Len(c))
    OBVIOUS
  <2>4. ~(fs # <<>> /\ fs[Len(fs)].k = "loop" /\ fs[Len(fs)].jumped)
    OBVIOUS
  <2> HIDE DEF is
  <2>5. CodeOK(e, Put(c, b, is), fs, r, b) /\ Len(Put(c, b, is)) = Len(c)
    BY ONLY <2>0, <2>1, <2>2, <2>3, <2>4, CodeTop
  <2> QED
    BY <2>5 DEF is
<1> QED
  BY <1>2, <1>3, <1>12 DEF AfterStatement

-----------------------------------------------------------------------------
(* The actions of the compiler.                                             *)

LEMMA CompiledFacts ==
    ASSUME Compiled
    PROVE  /\ code \in Codes /\ Len(code) \in Nat \ {0} /\ cur \in 1..Len(code)
           /\ names \in Nat /\ names <= MaxNames /\ MaxNames \in Nat
           /\ MaxStmts \in Nat /\ ended \in BOOLEAN
           /\ stmts \in Nat /\ pushed \in Nat /\ temps = {}
           /\ ScopesOK(scopes) /\ StackOK(scopes, names, pushed)
           /\ FramesOK(frames, scopes, names, Len(code))
           /\ JumpsOK(jumps, frames, scopes, pushed)
           /\ scopes # <<>> /\ Len(scopes) \in Nat \ {0}
<1>1. PICK e : CodeOK(e, code, frames, scopes, cur)
  BY DEF Compiled, CodeInv
<1>2. code \in Codes /\ Len(code) \in Nat \ {0} /\ cur \in 1..Len(code)
  BY <1>1, CodeFacts
<1>3. StackOK(scopes, names, pushed) /\ FramesOK(frames, scopes, names, Len(code))
  BY DEF Compiled, StackInv, FramesInv
<1>4. ScopesOK(scopes)
  BY <1>3 DEF StackOK
<1>5. scopes # <<>> /\ Len(scopes) \in Nat \ {0}
  BY <1>3, <1>4, StackNotEmpty
<1>6. MaxNames \in Nat /\ MaxStmts \in Nat
  BY ScopesAssumption
<1>7. names \in 0..MaxNames /\ stmts \in 0..MaxStmts /\ pushed \in Nat /\ temps = {}
  BY DEF Compiled, CountInv
<1>8. JumpsOK(jumps, frames, scopes, pushed) /\ ended \in BOOLEAN
  BY DEF Compiled, JumpsInv, EndedInv
<1> QED
  BY <1>2, <1>3, <1>4, <1>5, <1>6, <1>7, <1>8

\* No temporary is pending while the tests call nothing.
LEMMA NoTemps ==
    ASSUME temps = {}
    PROVE  /\ \A c \in Codes : \A b \in 1..Len(c) : Flush(c, b) = c
           /\ \A ds \in Seq(Instrs) : Emitted(ds) = ds /\ (FlushedBy(ds) => temps' = {})
<1>1. Rels(temps) = <<>>
  BY RelsNothing
<1>2. ASSUME NEW c \in Codes, NEW b \in 1..Len(c) PROVE Flush(c, b) = c
  BY <1>1, PutNothing DEF Flush
<1>3. ASSUME NEW ds \in Seq(Instrs) PROVE Emitted(ds) = ds
  <2>1. ds \o <<>> = ds
    OBVIOUS
  <2> QED
    BY <1>1, <2>1 DEF Emitted
<1>4. ASSUME NEW ds \in Seq(Instrs), FlushedBy(ds) PROVE temps' = {}
  BY <1>4 DEF FlushedBy
<1> QED
  BY <1>2, <1>3, <1>4

\* The innermost loop has not been left, under the discipline, where a
\* variable is declared.
LEMMA NotLate ==
    ASSUME Disciplined, Compiled, LateInLoop => "declareAfter" \in Idioms
    PROVE  ~(frames # <<>> /\ frames[Len(frames)].k = "loop" /\ frames[Len(frames)].jumped)
<1>1. ~LateInLoop
  BY DEF Disciplined
<1> QED
  BY <1>1 DEF LateInLoop, AtLoopBody, Top

LEMMA DeclareStep ==
    ASSUME Disciplined, Compiled, Declare
    PROVE  Compiled'
<1> DEFINE is == <<Decl(names + 1)>>
           r == [scopes EXCEPT ![Len(scopes)].vs = @ \cup {names + 1}]
           c == Put(code, cur, is)
<1>1. /\ Compiling /\ names < MaxNames
      /\ LateInLoop => "declareAfter" \in Idioms
      /\ scopes' = r /\ code' = Flush(c, cur) /\ names' = names + 1
      /\ stmts' = stmts + 1 /\ temps' = {}
      /\ UNCHANGED <<phase, pushed, jumps, frames, ended, cur, rvars>>
  BY DEF Declare
<1>2. /\ code \in Codes /\ cur \in 1..Len(code) /\ names \in Nat /\ temps = {}
      /\ names <= MaxNames /\ MaxNames \in Nat
      /\ MaxStmts \in Nat /\ stmts \in Nat /\ pushed \in Nat /\ ended \in BOOLEAN
      /\ StackOK(scopes, names, pushed) /\ FramesOK(frames, scopes, names, Len(code))
      /\ JumpsOK(jumps, frames, scopes, pushed) /\ frames \in Seq(FrameRecs)
  BY CompiledFacts DEF FramesOK
<1>3. ~(frames # <<>> /\ frames[Len(frames)].k = "loop" /\ frames[Len(frames)].jumped)
  BY <1>1, NotLate
<1>4. PICK e : CodeOK(e, code, frames, scopes, cur)
  BY DEF Compiled, CodeInv
<1>5. /\ CodeOK(e, c, frames, r, cur) /\ Len(c) = Len(code)
      /\ StackOK(r, names + 1, pushed) /\ FramesOK(frames, r, names + 1, Len(code))
      /\ Len(r) = Len(scopes) /\ \A d \in 1..Len(scopes) : r[d].id = scopes[d].id
  <2> HIDE DEF r, c
  <2>1. r = [scopes EXCEPT ![Len(scopes)].vs = @ \cup {names + 1}]
    BY DEF r
  <2>2. c = Put(code, cur, is)
    BY DEF c
  <2>3. AtStatement(e, code, frames, scopes, cur, names, pushed) /\ names \in Nat
    BY <1>1, <1>2, <1>3, <1>4 DEF AtStatement
  <2>4. AfterStatement(e, code, frames, scopes, cur, names, pushed, r, c)
    BY ONLY <2>1, <2>2, <2>3, CodeDeclare
  <2> QED
    BY <2>4 DEF AfterStatement
<1>6. JumpsOK(jumps, frames, r, pushed)
  <2> HIDE DEF r
  <2> QED
    BY ONLY <1>2, <1>5, JumpsLike
<1>7. c \in Codes /\ cur \in 1..Len(c)
  BY <1>5, CodeFacts
<1> HIDE DEF r, c
<1>8. code' = c
  BY <1>1, <1>2, <1>7, NoTemps
<1>9. CountInv'
  BY <1>1, <1>2 DEF CountInv, Compiling
<1>10. StackInv' /\ FramesInv' /\ JumpsInv'
  BY <1>1, <1>5, <1>6, <1>8 DEF StackInv, FramesInv, JumpsInv
<1>11. EndedInv'
  BY <1>1, <1>2 DEF EndedInv, Compiling
<1>12. CodeInv'
  BY <1>1, <1>5, <1>8 DEF CodeInv
<1> QED
  BY <1>1, <1>9, <1>10, <1>11, <1>12 DEF Compiled, rvars

LEMMA DeferStep ==
    ASSUME Disciplined, Compiled, NEW v \in 0..MaxNames, Defer(v)
    PROVE  Compiled'
<1> DEFINE is == <<Ins("arm", names + 1, 0)>>
           r == [scopes EXCEPT ![Len(scopes)].defers = Append(@, [x |-> names + 1, v |-> v])]
           c == Put(code, cur, is)
<1>1. /\ Compiling /\ names < MaxNames
      /\ LateInLoop => "declareAfter" \in Idioms
      /\ scopes' = r /\ code' = Flush(c, cur) /\ names' = names + 1
      /\ stmts' = stmts + 1 /\ temps' = {}
      /\ UNCHANGED <<phase, pushed, jumps, frames, ended, cur, rvars>>
  BY DEF Defer
<1>2. /\ code \in Codes /\ cur \in 1..Len(code) /\ names \in Nat /\ temps = {}
      /\ names <= MaxNames /\ MaxNames \in Nat
      /\ MaxStmts \in Nat /\ stmts \in Nat /\ pushed \in Nat /\ ended \in BOOLEAN
      /\ StackOK(scopes, names, pushed) /\ FramesOK(frames, scopes, names, Len(code))
      /\ JumpsOK(jumps, frames, scopes, pushed) /\ frames \in Seq(FrameRecs)
  BY CompiledFacts DEF FramesOK
<1>3. ~(frames # <<>> /\ frames[Len(frames)].k = "loop" /\ frames[Len(frames)].jumped)
  BY <1>1, NotLate
<1>4. PICK e : CodeOK(e, code, frames, scopes, cur)
  BY DEF Compiled, CodeInv
<1>5. InScope(scopes, v) /\ scopes[Len(scopes)].defers = <<>>
  BY DEF Defer, InScope, Top
<1>6. /\ CodeOK(e, c, frames, r, cur) /\ Len(c) = Len(code)
      /\ StackOK(r, names + 1, pushed) /\ FramesOK(frames, r, names + 1, Len(code))
      /\ Len(r) = Len(scopes) /\ \A d \in 1..Len(scopes) : r[d].id = scopes[d].id
  <2> HIDE DEF r, c
  <2>1. r = [scopes EXCEPT ![Len(scopes)].defers = Append(@, [x |-> names + 1, v |-> v])]
    BY DEF r
  <2>2. c = Put(code, cur, is)
    BY DEF c
  <2>3. AtStatement(e, code, frames, scopes, cur, names, pushed) /\ names \in Nat
    BY <1>1, <1>2, <1>3, <1>4 DEF AtStatement
  <2>4. v \in 0..MaxNames
    OBVIOUS
  <2>5. AfterStatement(e, code, frames, scopes, cur, names, pushed, r, c)
    BY ONLY <1>5, <2>1, <2>2, <2>3, <2>4, CodeDefer
  <2> QED
    BY <2>5 DEF AfterStatement
<1>7. JumpsOK(jumps, frames, r, pushed)
  <2> HIDE DEF r
  <2> QED
    BY ONLY <1>2, <1>6, JumpsLike
<1>8. c \in Codes /\ cur \in 1..Len(c)
  BY <1>6, CodeFacts
<1> HIDE DEF r, c
<1>9. code' = c
  BY <1>1, <1>2, <1>8, NoTemps
<1>10. CountInv'
  BY <1>1, <1>2 DEF CountInv, Compiling
<1>11. StackInv' /\ FramesInv' /\ JumpsInv'
  BY <1>1, <1>6, <1>7, <1>9 DEF StackInv, FramesInv, JumpsInv
<1>12. EndedInv'
  BY <1>1, <1>2 DEF EndedInv, Compiling
<1>13. CodeInv'
  BY <1>1, <1>6, <1>9 DEF CodeInv
<1> QED
  BY <1>1, <1>10, <1>11, <1>12, <1>13 DEF Compiled, rvars

\* The code of an if or a switch: q new blocks, the frame f, a branch to T,
\* and an empty scope on top.
Branches(e, c, fs, sc, b, n, q, f, T, r, c2) ==
    /\ CodeOK(e, c, fs, sc, b) /\ FramesOK(fs, sc, n, Len(c)) /\ q >= 2
    /\ f \in FrameRecs /\ f.k # "loop" /\ f.gen = 0
    /\ f.merge = Len(c) + q /\ Low(f) = Len(c) + 2
    /\ T \subseteq (Len(c) + 1)..(Len(c) + q)
    /\ Len(r) = Len(sc) + 1 /\ \A k \in 1..Len(sc) : r[k] = sc[k]
    /\ r[Len(sc) + 1].vs = {} /\ r[Len(sc) + 1].defers = <<>> /\ ScopesOK(r)
    /\ c2 = Put(c \o [i \in 1..q |-> <<>>], b, <<Goto(T)>>)

LEMMA CodeOpen ==
    ASSUME NEW e, NEW c, NEW fs, NEW sc, NEW b, NEW n, NEW q \in Nat, NEW f, NEW T, NEW r, NEW c2,
           Branches(e, c, fs, sc, b, n, q, f, T, r, c2)
    PROVE  /\ Len(c2) = Len(c) + q
           /\ \E d : CodeOK(d, c2, Append(fs, f), r, Len(c) + 1)
<1> DEFINE gs == Append(fs, f)
           N == Len(fs)
           S == Here(sc, fs)
           d == [k \in 1..(Len(c) + q) |-> IF k \in 1..Len(c) THEN e[k] ELSE S]
           P == Pend(fs) \cup ((Len(c) + 1)..(Len(c) + q))
           m == Len(c) + 1
<1>a. CodeOK(e, c, fs, sc, b) /\ FramesOK(fs, sc, n, Len(c)) /\ q >= 2
  BY DEF Branches
<1>b. /\ f \in FrameRecs /\ f.k # "loop" /\ f.gen = 0
      /\ f.merge = Len(c) + q /\ Low(f) = Len(c) + 2
  BY DEF Branches
<1>c. T \subseteq (Len(c) + 1)..(Len(c) + q)
  BY DEF Branches
<1>d. Len(r) = Len(sc) + 1 /\ \A k \in 1..Len(sc) : r[k] = sc[k]
  BY DEF Branches
<1>e. r[Len(sc) + 1].vs = {} /\ r[Len(sc) + 1].defers = <<>> /\ ScopesOK(r)
  BY DEF Branches
<1>f. c2 = Put(c \o [i \in 1..q |-> <<>>], b, <<Goto(T)>>)
  BY DEF Branches
<1> USE <1>a, <1>b, <1>c, <1>d, <1>e
<1>1. fs \in Seq(FrameRecs) /\ N \in Nat
  BY LenProperties DEF FramesOK
<1>2. /\ gs \in Seq(FrameRecs) /\ Len(gs) = N + 1 /\ gs[N + 1] = f
      /\ \A k \in 1..N : gs[k] = fs[k]
  BY <1>1, AppendIs
<1>3. Pend(gs) = Pend(fs) \cup PendOf(f)
  BY <1>1, PendPush
<1>4. /\ c \in Codes /\ Len(c) \in Nat \ {0} /\ S \in States /\ TypedCode(e, c, Pend(fs), b, S)
      /\ TargetsOK(c, fs) /\ \A i \in 1..N : Expect(e, sc, fs, i)
  BY CodeFacts DEF CodeOK
<1> HIDE DEF gs, S
<1>5. /\ TypedCode(d, c2, P, b, S) /\ IsClosed(c2[b]) /\ Len(c2) = Len(c) + q
      /\ Targets(c2) = Targets(c) \cup T
  <2> DEFINE js == <<>>
  <2>1. js \in Seq(Plain) /\ js \o <<Goto(T)>> = <<Goto(T)>>
    OBVIOUS
  <2>2. Leads(e, js, S, S)
    BY <1>4, LeadsNothing
  <2> HIDE DEF js
  <2>3. /\ TypedCode(d, c2, P, b, S) /\ IsClosed(c2[b]) /\ Len(c2) = Len(c) + q
        /\ Targets(c2) = Targets(c) \cup T
    <3>1. TypedCode(e, c, Pend(fs), b, S)
      BY <1>4
    <3>2. js \in Seq(Plain)
      BY <2>1
    <3>3. d \in [1..(Len(c) + q) -> States] /\ \A l \in 1..Len(c) : d[l] = e[l]
      <4>1. \A l \in 1..Len(c) : l \in 1..(Len(c) + q) /\ e[l] \in States
        BY <1>4 DEF TypedCode
      <4> QED
        BY <1>4, <4>1
    <3>4. \A l \in T : d[l] = S
      <4>1. \A l \in T : l \in 1..(Len(c) + q) /\ l \notin 1..Len(c)
        BY <1>4
      <4> QED
        BY <4>1
    <3>5. c2 = Put(c \o [i \in 1..q |-> <<>>], b, js \o <<Goto(T)>>)
      BY <2>1, <1>f
    <3>6. q \in Nat /\ T \subseteq (Len(c) + 1)..(Len(c) + q)
      OBVIOUS
    <3> HIDE DEF d, S, P
    <3>7. Forks(e, c, Pend(fs), b, S, q, js, S, T, d, c2)
      BY <2>2, <3>1, <3>2, <3>3, <3>4, <3>5, <3>6 DEF Forks
    <3>8. TypedCode(d, c2, Pend(fs) \cup ((Len(c) + 1)..(Len(c) + q)), b, S)
      BY <3>7, TypedBranch
    <3>9. IsClosed(c2[b]) /\ Forked(c, q, T, c2)
      BY <3>7, TypedBranch
    <3> QED
      BY <3>8, <3>9 DEF P, Forked
  <2> QED
    BY <2>3
<1>6. m \in P /\ \A k \in 1..Len(c) : k \in 1..(Len(c) + q)
  BY <1>4
<1>7. d[m] = S
  BY <1>4
<1>8. TypedCode(d, c2, P \ {m}, m, S)
  <2> HIDE DEF d, P, m
  <2>1. TypedCode(d, c2, P \ {m}, m, d[m])
    BY <1>5, <1>6, TypedMove
  <2> QED
    BY <1>7, <2>1
<1>9. PendOf(f) = (Len(c) + 2)..(Len(c) + q)
  BY DEF PendOf, First
<1>10. P \ {m} = Pend(gs)
  <2>1. Pend(fs) \subseteq 1..Len(c)
    BY <1>4 DEF TypedCode
  <2>2. (Len(c) + 1)..(Len(c) + q) = {m} \cup PendOf(f) /\ m \notin PendOf(f) /\ m \notin 1..Len(c)
    BY <1>4, <1>9
  <2> HIDE DEF m
  <2> QED
    BY <1>3, <2>1, <2>2
<1>11. /\ Around(r, gs, N + 1) = S /\ Gens(gs, N + 2) = Gens(fs, N + 1)
       /\ Vs(r, Len(sc)) = Vs(sc, Len(sc)) /\ Ds(r, Len(sc)) = Ds(sc, Len(sc))
       /\ Depth(gs, N + 2) = Len(sc) + 1 /\ Len(sc) \in Nat
  <2>1. /\ Around(r, gs, N + 1) = S
        /\ Gens(gs, N + 2) = Gens(fs, N + 1) \cup ({f.gen} \ {0})
        /\ Vs(r, Len(sc)) = Vs(sc, Len(sc)) /\ Ds(r, Len(sc)) = Ds(sc, Len(sc))
        /\ Depth(gs, N + 2) = Len(sc) + (IF f.k = "loop" THEN 2 ELSE 1) /\ Len(sc) \in Nat
    BY <1>2, HerePushed DEF S
  <2> QED
    BY <2>1
<1>12. Here(r, gs) = S
  <2>1. Len(sc) + 1 \in 1..Len(r) /\ (Len(sc) + 1) - 1 = Len(sc)
    BY <1>11
  <2>2. Vs(r, Len(sc) + 1) = Vs(sc, Len(sc))
    <3>1. Vs(r, Len(sc) + 1) = Vs(r, (Len(sc) + 1) - 1) \cup r[Len(sc) + 1].vs
      <4> DEFINE D == Len(sc) + 1
      <4>1. D \in 1..Len(r)
        BY <2>1
      <4> HIDE DEF D
      <4>2. Vs(r, D) = Vs(r, D - 1) \cup r[D].vs
        BY <4>1, VsStep
      <4> QED
        BY <4>2 DEF D
    <3> DEFINE A == Vs(sc, Len(sc))
               B == Vs(r, Len(sc) + 1)
               C == r[Len(sc) + 1].vs
    <3>2. B = A \cup C /\ C = {}
      BY <1>11, <2>1, <3>1
    <3> HIDE DEF A, B, C
    <3>3. B = A
      BY <3>2
    <3> QED
      BY <3>3 DEF A, B
  <2>3. Ds(r, Len(sc) + 1) = Ds(sc, Len(sc))
    BY <1>11, <2>1, DsNone
  <2>4. S = State(Vs(sc, Len(sc)) \cup Gens(fs, N + 1), Ds(sc, Len(sc)))
    BY HereIs DEF S
  <2>5. Len(gs) + 1 = N + 2
    BY <1>1, <1>2
  <2> QED
    BY <1>11, <2>2, <2>3, <2>4, <2>5 DEF Here, Around, At
<1>13. ASSUME NEW i \in 1..(N + 1) PROVE Expect(d, r, gs, i)
  <2>1. CASE i = N + 1
    <3>1. \A l \in PendOf(f) : d[l] = S
      BY <1>4, <1>9
    <3> QED
      BY <1>2, <1>11, <2>1, <3>1 DEF Expect
  <2>2. CASE i # N + 1
    <3>1. i \in 1..Len(fs)
      BY <1>1, <2>2
    <3>2. \A k \in 1..Len(c) : d[k] = e[k]
      BY <1>6
    <3> HIDE DEF d
    <3> DEFINE L == Len(c)
    <3>3. FramesOK(fs, sc, n, L) /\ L \in Nat /\ \A k \in 1..L : d[k] = e[k]
      BY <1>4, <3>2
    <3>4. (\A k \in 1..Len(sc) : r[k] = sc[k]) /\ \A k \in 1..Len(fs) : gs[k] = fs[k]
      BY <1>2
    <3>5. Expect(e, sc, fs, i)
      BY <1>4, <3>1
    <3> HIDE DEF L
    <3> QED
      BY ONLY <3>1, <3>3, <3>4, <3>5, ExpectGrown
  <2> QED
    BY <2>1, <2>2
<1>14. TargetsOK(c2, gs)
  <2>1. Targets(c2) \subseteq 1..Len(c2)
    <3>1. Targets(c) \subseteq 1..Len(c)
      BY <1>4 DEF TargetsOK
    <3>2. T \subseteq 1..(Len(c) + q)
      BY <1>4
    <3> QED
      BY <1>5, <1>6, <3>1, <3>2
  <2>2. ASSUME NEW i \in 1..(N + 1), gs[i].k = "loop", ~gs[i].jumped
        PROVE  gs[i].incr \notin Targets(c2) /\ gs[i].clean \notin Targets(c2)
    <3>1. i \in 1..Len(fs) /\ gs[i] = fs[i]
      BY <1>1, <1>2, <2>2
    <3>2. fs[i].incr \notin Targets(c) /\ fs[i].clean \notin Targets(c)
      BY <1>4, <2>2, <3>1 DEF TargetsOK
    <3>3. fs[i].incr \in 2..Len(c) /\ fs[i].clean \in 2..Len(c)
      <4>1. Used(fs[i]) \subseteq 2..Len(c)
        BY <1>4, <3>1, FrameFacts
      <4> QED
        BY <2>2, <3>1, <4>1 DEF Used
    <3>4. \A l \in 2..Len(c) : l \notin T
      BY <1>4
    <3> QED
      BY <1>5, <3>1, <3>2, <3>3, <3>4
  <2> QED
    BY <1>2, <2>1, <2>2 DEF TargetsOK
<1> HIDE DEF d, P, m
<1>15. CodeOK(d, c2, gs, r, m)
  BY <1>2, <1>8, <1>10, <1>12, <1>13, <1>14 DEF CodeOK
<1> QED
  BY <1>5, <1>15 DEF Forked, gs, m

\* An if or a switch that adds q blocks and the frame f, and branches to T;
\* jr is what the jumps mean inside.
Opens(q, f, T, jr) ==
    /\ q \in Nat /\ q >= 2
    /\ f \in FrameRecs /\ f.k # "loop" /\ f.gen = 0 /\ f.old = jumps /\ Blocks(f)
    /\ f.merge = Len(code) + q /\ Low(f) = Len(code) + 2
    /\ T \subseteq (Len(code) + 1)..(Len(code) + q)
    /\ jr \in JumpRecs /\ jr.entry = jumps.entry /\ jr.exit = jumps.exit
    /\ IF f.k = "case" THEN jr.next = Low(f) /\ jr.case = pushed + 1
       ELSE jr.next = jumps.next /\ jr.case = jumps.case

Opened(f, jr, r, c2) ==
    /\ StackOK(r, names, pushed + 1)
    /\ FramesOK(Append(frames, f), r, names, Len(c2))
    /\ JumpsOK(jr, Append(frames, f), r, pushed + 1)
    /\ \E e : CodeOK(e, c2, Append(frames, f), r, Len(code) + 1)

LEMMA Opening ==
    ASSUME Compiled, NEW q, NEW f, NEW T, NEW jr, Opens(q, f, T, jr)
    PROVE  Opened(f, jr, Append(scopes, Scope(pushed + 1, {})), Put(Fresh(q), cur, <<Goto(T)>>))
<1> DEFINE s == Scope(pushed + 1, {})
           r == Append(scopes, s)
           gs == Append(frames, f)
           L == Len(code)
           D == Len(scopes)
           c2 == Put(Fresh(q), cur, <<Goto(T)>>)
<1>1. /\ code \in Codes /\ cur \in 1..L /\ names \in Nat /\ names <= MaxNames /\ MaxNames \in Nat
      /\ L \in Nat \ {0} /\ pushed \in Nat /\ D \in Nat \ {0}
      /\ StackOK(scopes, names, pushed) /\ FramesOK(frames, scopes, names, L)
      /\ JumpsOK(jumps, frames, scopes, pushed) /\ frames \in Seq(FrameRecs)
      /\ ScopesOK(scopes)
  BY CompiledFacts DEF FramesOK
<1>2. /\ q \in Nat /\ q >= 2 /\ f \in FrameRecs /\ f.k # "loop" /\ f.gen = 0 /\ f.old = jumps
      /\ f.merge = L + q /\ Low(f) = L + 2 /\ Blocks(f) /\ T \subseteq (L + 1)..(L + q)
  BY DEF Opens
<1>3. /\ jr \in JumpRecs /\ jr.entry = jumps.entry /\ jr.exit = jumps.exit
      /\ IF f.k = "case" THEN jr.next = Low(f) /\ jr.case = pushed + 1
         ELSE jr.next = jumps.next /\ jr.case = jumps.case
  BY DEF Opens
<1>4. s \in ScopeRecs /\ s.id = pushed + 1 /\ s.vs = {} /\ s.defers = <<>>
  <2>1. pushed + 1 \in Nat /\ {} \in SUBSET Names
    BY <1>1
  <2> QED
    BY <2>1, ScopeIs
<1>5. /\ Len(r) = D + 1 /\ r[D + 1] = s /\ \A k \in 1..D : r[k] = scopes[k]
  <2> HIDE DEF s
  <2>1. scopes \in Seq(ScopeRecs)
    BY <1>1 DEF ScopesOK
  <2> QED
    BY <1>4, <2>1, AppendIs
<1>6. StackOK(r, names, pushed + 1)
  <2>1. {} \subseteq (names + 1)..names /\ names <= names
    BY <1>1
  <2> QED
    BY <1>1, <2>1, StackPush
<1>7. ScopesOK(r)
  BY <1>6 DEF StackOK
<1> HIDE DEF r, s
<1>8. FramesOK(gs, r, names, L + q)
  <2> DEFINE Q == L + q
             l == names
             M == L
             fs == frames
             sc == scopes
  <2>1. fs = frames /\ FramesOK(fs, sc, l, M) /\ l \in Nat /\ M \in Nat \ {0} /\ Q \in Nat /\ l <= l
    BY <1>1, <1>2
  <2>2. \A d \in 1..Len(sc) : sc[d].vs \subseteq 1..l
    BY <1>1 DEF StackOK
  <2>3. f \in FrameRecs /\ Blocks(f) /\ Low(f) > M /\ f.merge <= Q /\ M <= Q
    BY <1>1, <1>2
  <2>4. Len(r) = Len(sc) + (IF f.k = "loop" THEN 2 ELSE 1)
    BY <1>2, <1>5
  <2>5. \A k \in 1..Len(sc) : r[k] = sc[k]
    BY <1>5
  <2>6. \A k \in (Len(sc) + 1)..Len(r) : r[k].vs \subseteq (l + 1)..l /\ f.gen \notin r[k].vs
    <3>1. \A k \in (D + 1)..(D + 1) : k = D + 1
      BY <1>1
    <3> QED
      BY <1>4, <1>5, <3>1
  <2>7. f.k # "loop" /\ f.gen = 0 /\ f.gen \in {0} \cup (l + 1)..l
    BY <1>2
  <2> HIDE DEF Q, l, M, fs, sc
  <2>8. FramesOK(Append(fs, f), r, l, Q)
    BY ONLY <2>1, <2>2, <2>3, <2>4, <2>5, <2>6, <2>7, FramesPush
  <2> QED
    BY <2>1, <2>8 DEF Q, l
<1>9. JumpsOK(jr, gs, r, pushed + 1)
  <2> DEFINE M == L
             fs == frames
             sc == scopes
             p == pushed
             P == pushed + 1
             jm == jumps
             n == names
  <2>1. /\ fs = frames /\ FramesOK(fs, sc, n, M) /\ JumpsOK(jm, fs, sc, p)
        /\ p \in Nat /\ P \in Nat /\ p < P /\ P = p + 1
    BY <1>1
  <2>2. (\A d \in 1..Len(sc) : sc[d].id <= p) /\ \A d \in 1..Len(sc) : sc[d].id \in Nat
    <3>1. \A d \in 1..Len(scopes) : scopes[d].id \in Nat
      BY <1>1, ScopeType
    <3> QED
      BY <1>1, <3>1 DEF StackOK
  <2>3. f \in FrameRecs /\ f.old = jm /\ f.k # "loop" /\ jr \in JumpRecs
    BY <1>2, <1>3
  <2>4. jr.entry = jm.entry /\ jr.exit = jm.exit
    BY <1>3
  <2>5. IF f.k = "case" THEN jr.next = Low(f) /\ jr.case = p + 1
        ELSE jr.next = jm.next /\ jr.case = jm.case
    BY <1>3
  <2>6. Len(r) \in Nat /\ Len(r) = Len(sc) + 1 /\ \A k \in 1..Len(sc) : r[k] = sc[k]
    BY <1>1, <1>5
  <2>7. \A k \in (Len(sc) + 1)..Len(r) : r[k].id \in Nat /\ r[k].id > p
    <3>1. \A k \in (D + 1)..(D + 1) : k = D + 1
      BY <1>1
    <3> QED
      BY <1>1, <1>4, <1>5, <3>1
  <2> HIDE DEF M, fs, sc, p, P, jm, n
  <2>8. JumpsOK(jr, Append(fs, f), r, P)
    BY ONLY <2>1, <2>2, <2>3, <2>4, <2>5, <2>6, <2>7, JumpsPush
  <2> QED
    BY <2>1, <2>8 DEF P
<1>10. Len(c2) = L + q /\ \E e : CodeOK(e, c2, gs, r, L + 1)
  <2>1. PICK e : CodeOK(e, code, frames, scopes, cur)
    BY DEF Compiled, CodeInv
  <2>2. c2 = Put(code \o [i \in 1..q |-> <<>>], cur, <<Goto(T)>>)
    BY DEF Fresh
  <2> HIDE DEF c2
  <2>3. Branches(e, code, frames, scopes, cur, names, q, f, T, r, c2)
    <3>1. CodeOK(e, code, frames, scopes, cur) /\ FramesOK(frames, scopes, names, Len(code)) /\ q >= 2
      BY <1>1, <1>2, <2>1
    <3>2. /\ f \in FrameRecs /\ f.k # "loop" /\ f.gen = 0
          /\ f.merge = Len(code) + q /\ Low(f) = Len(code) + 2
      BY <1>2
    <3>3. T \subseteq (Len(code) + 1)..(Len(code) + q)
      BY <1>2
    <3>4. Len(r) = Len(scopes) + 1 /\ \A k \in 1..Len(scopes) : r[k] = scopes[k]
      BY <1>5
    <3>5. /\ r[Len(scopes) + 1].vs = {} /\ r[Len(scopes) + 1].defers = <<>> /\ ScopesOK(r)
      BY <1>4, <1>5, <1>7
    <3> QED
      BY ONLY <2>2, <3>1, <3>2, <3>3, <3>4, <3>5 DEF Branches
  <2>4. q \in Nat
    BY <1>2
  <2> QED
    BY ONLY <2>3, <2>4, CodeOpen
<1> HIDE DEF c2
<1>11. FramesOK(gs, r, names, Len(c2))
  BY <1>8, <1>10
<1> QED
  BY <1>6, <1>9, <1>10, <1>11 DEF Opened, c2, r, s

\* What a statement's frame is when it opens.
FrameOf(f, k, merge, rest) ==
    /\ f \in FrameRecs /\ f.k = k /\ f.merge = merge /\ f.rest = rest
    /\ f.old = jumps /\ f.jumped = FALSE /\ f.gen = 0

LEMMA FrameIs ==
    ASSUME NEW k \in {"if", "case", "loop"}, NEW merge \in Nat, NEW rest \in Seq(Nat),
           jumps \in JumpRecs
    PROVE  FrameOf(Frame(k, merge, rest), k, merge, rest)
<1>1. MaxNames \in Nat /\ NoBlock \in Nat
  BY ScopesAssumption DEF NoBlock
<1> QED
  BY <1>1 DEF Frame, FrameRecs, FrameOf

\* What an if or a switch does to the rest of the state.
LEMMA OpenedStep ==
    ASSUME Compiled, NEW f, NEW jr, NEW r, NEW c2, Opened(f, jr, r, c2),
           Compiling, stmts' = stmts + 1, names' = names, pushed' = pushed + 1,
           scopes' = r, jumps' = jr, frames' = Append(frames, f), ended' = ended, temps' = {},
           code' = c2, cur' = Len(code) + 1, UNCHANGED rvars
    PROVE  Compiled'
<1>1. /\ names \in Nat /\ names <= MaxNames /\ MaxNames \in Nat
      /\ MaxStmts \in Nat /\ stmts \in Nat /\ pushed \in Nat /\ ended \in BOOLEAN
  BY CompiledFacts
<1>2. CountInv'
  BY <1>1 DEF CountInv, Compiling
<1>3. StackInv' /\ FramesInv' /\ JumpsInv'
  BY DEF Opened, StackInv, FramesInv, JumpsInv
<1>4. EndedInv'
  BY <1>1 DEF EndedInv, Compiling
<1>5. CodeInv'
  BY DEF Opened, CodeInv
<1> QED
  BY <1>2, <1>3, <1>4, <1>5 DEF Compiled, rvars

LEMMA NoCall ==
    ASSUME Disciplined, temps = {}, NEW call \in BOOLEAN, Test(call)
    PROVE  ~call /\ temps' = {} /\ \A is \in Seq(Instrs) : TestCode(call) \o is = is
<1>1. ~call
  BY DEF Test, Disciplined
<1>2. temps' = {}
  BY <1>1 DEF Test
<1>3. TestCode(call) = <<>>
  BY <1>1 DEF TestCode
<1> QED
  BY <1>1, <1>2, <1>3

LEMMA OpenIfStep ==
    ASSUME Disciplined, Compiled, NEW hasElse \in BOOLEAN, NEW call \in BOOLEAN,
           OpenIf(hasElse, call)
    PROVE  Compiled'
<1> DEFINE q == IF hasElse THEN 3 ELSE 2
           L == Len(code)
           merge == L + q
           other == IF hasElse THEN L + 2 ELSE merge
           rest == IF hasElse THEN <<other>> ELSE <<>>
           T == {L + 1, other}
           f == Frame("if", merge, rest)
           r == Append(scopes, Scope(pushed + 1, {}))
           c2 == Put(Fresh(q), cur, <<Goto(T)>>)
<1>1. /\ L \in Nat \ {0} /\ pushed \in Nat /\ temps = {} /\ code \in Codes
  BY CompiledFacts
<1>2. jumps \in JumpRecs
  BY CompiledFacts DEF JumpsOK
<1>3. q \in Nat /\ q >= 2 /\ merge \in Nat /\ other \in Nat /\ other = L + 2
  BY <1>1
<1>4. /\ f \in FrameRecs /\ f.k = "if" /\ f.merge = merge /\ f.rest = rest
      /\ f.old = jumps /\ f.jumped = FALSE /\ f.gen = 0
  <2>1. rest \in Seq(Nat)
    BY <1>3
  <2> DEFINE k == "if"
  <2>2. k \in {"if", "case", "loop"} /\ f = Frame(k, merge, rest)
    OBVIOUS
  <2>3. merge \in Nat
    BY <1>3
  <2> HIDE DEF rest, merge, k, f
  <2>4. k \in {"if", "case", "loop"}
    BY <2>2
  <2>5. FrameOf(Frame(k, merge, rest), k, merge, rest)
    BY ONLY <1>2, <2>1, <2>3, <2>4, FrameIs
  <2> QED
    BY <2>2, <2>5 DEF k, FrameOf
<1>5. Low(f) = L + 2 /\ Blocks(f)
  <2>1. CASE hasElse
    <3>1. Len(rest) = 1 /\ rest[1] = L + 2 /\ merge = L + 3
      BY <1>3, <2>1
    <3>2. \A j \in 1..1 : j = 1
      OBVIOUS
    <3>3. f.k # "loop"
      BY <1>4
    <3>4. f.merge = L + 3 /\ Len(f.rest) = 1 /\ f.rest[1] = L + 2
      BY <1>4, <3>1
    <3>5. Low(f) = f.merge - Len(f.rest)
      BY <3>3 DEF Low
    <3>6. Blocks(f)
      <4>1. \A j \in 1..Len(f.rest) : f.rest[j] = f.merge - Len(f.rest) + j - 1
        <5> HIDE DEF f, L
        <5> QED
          BY <1>1, <3>2, <3>4
      <4> HIDE DEF f
      <4> QED
        BY ONLY <3>3, <4>1 DEF Blocks
    <3> HIDE DEF f, L
    <3> QED
      BY ONLY <1>1, <3>4, <3>5, <3>6
  <2>2. CASE ~hasElse
    <3>1. Len(rest) = 0 /\ merge = L + 2
      BY <2>2
    <3>2. \A j \in 1..0 : FALSE
      OBVIOUS
    <3> QED
      BY <1>1, <1>4, <3>1, <3>2 DEF Low, Blocks
  <2> QED
    BY <2>1, <2>2
<1>6. T \subseteq (L + 1)..(L + q)
  BY <1>1, <1>3
<1>7. Opened(f, jumps, r, c2)
  <2>1. f.k # "loop" /\ f.k # "case"
    BY <1>4
  <2>2. f.merge = L + q
    BY <1>4
  <2> HIDE DEF f, T, q
  <2>3. Opens(q, f, T, jumps)
    BY <1>2, <1>3, <1>4, <1>5, <1>6, <2>1, <2>2 DEF Opens
  <2> QED
    BY <2>3, Opening
<1>8. /\ Compiling /\ stmts' = stmts + 1 /\ temps' = {} /\ names' = names
      /\ cur' = L + 1 /\ scopes' = r /\ pushed' = pushed + 1
      /\ UNCHANGED <<phase, jumps, ended, rvars>>
  <2>1. Test(call)
    BY DEF OpenIf
  <2>2. ~call /\ temps' = {}
    BY <1>1, <2>1, NoCall
  <2>3. names' = names
    BY <2>2, CompiledFacts DEF OpenIf
  <2> QED
    BY <2>2, <2>3 DEF OpenIf, Push, NewBlock
<1>9. frames' = Append(frames, f) /\ code' = c2
  <2> DEFINE k == <<Goto(T)>>
  <2>1. T \in SUBSET Nat
    BY <1>1, <1>3
  <2>2. k \in Seq(Instrs)
    BY <2>1, GotoIs
  <2>3. Test(call)
    BY DEF OpenIf
  <2>4. TestCode(call) \o k = k
    <3> HIDE DEF k
    <3> QED
      BY <1>1, <2>2, <2>3, NoCall
  <2>5. code' = Put(Fresh(q), cur, TestCode(call) \o k)
    BY DEF OpenIf, NewBlock
  <2>6. frames' = Append(frames, f)
    BY DEF OpenIf, NewBlock
  <2> QED
    BY <2>4, <2>5, <2>6
<1> QED
  BY <1>7, <1>8, <1>9, OpenedStep DEF rvars

LEMMA FreshIs ==
    ASSUME code \in Codes, NEW q \in Nat
    PROVE  /\ Fresh(q) \in Codes /\ Len(Fresh(q)) = Len(code) + q
           /\ \A k \in 1..Len(code) : k \in 1..Len(Fresh(q))
<1>1. Len(code) \in Nat
  BY DEF Codes
<1>2. Fresh(q) \in Codes /\ Len(Fresh(q)) = Len(code) + q
  BY GrowIs DEF Fresh
<1> QED
  BY <1>1, <1>2

\* The blocks of the cases of a switch.
CasesFrom(cases, L, n) == cases = [i \in 1..n |-> L + i]
CasesList(cases, L, n) ==
    /\ cases \in Seq(Nat) /\ Tail(cases) \in Seq(Nat) /\ Len(Tail(cases)) = n - 1
    /\ \A j \in 1..(n - 1) : Tail(cases)[j] = L + j + 1
    /\ ToSet(cases) = (L + 1)..(L + n) /\ cases[1] = L + 1
    /\ (IF n = 1 THEN L + n + 1 ELSE cases[2]) = L + 2

LEMMA CasesAre ==
    ASSUME NEW L \in Nat, NEW n \in Nat \ {0}, NEW cases, CasesFrom(cases, L, n)
    PROVE  CasesList(cases, L, n)
<1> USE DEF CasesFrom
<1>1. cases \in [1..n -> Nat]
  OBVIOUS
<1>2. cases \in Seq(Nat) /\ Len(cases) = n /\ DOMAIN cases = 1..n
  BY <1>1
<1>3. cases # <<>>
  BY <1>2
<1>4. Tail(cases) \in Seq(Nat) /\ Len(Tail(cases)) = n - 1
  BY <1>2, <1>3
<1>5. \A j \in 1..(n - 1) : Tail(cases)[j] = cases[j + 1]
  BY <1>2, <1>3
<1>6. \A j \in 1..(n - 1) : j + 1 \in 1..n
  OBVIOUS
<1>7. ToSet(cases) = (L + 1)..(L + n)
  <2>1. ASSUME NEW l \in ToSet(cases) PROVE l \in (L + 1)..(L + n)
    BY <1>2 DEF ToSet
  <2>2. ASSUME NEW l \in (L + 1)..(L + n) PROVE l \in ToSet(cases)
    <3>1. l - L \in 1..n /\ l = L + (l - L)
      OBVIOUS
    <3>2. cases[l - L] = L + (l - L)
      BY <3>1
    <3> QED
      BY <1>2, <3>1, <3>2 DEF ToSet
  <2> QED
    BY <2>1, <2>2
<1>8. cases[1] = L + 1
  OBVIOUS
<1>9. (IF n = 1 THEN L + n + 1 ELSE cases[2]) = L + 2
  OBVIOUS
<1>10. \A j \in 1..(n - 1) : Tail(cases)[j] = L + j + 1
  BY <1>5, <1>6
<1> HIDE DEF CasesFrom
<1> QED
  BY ONLY <1>2, <1>4, <1>10, <1>7, <1>8, <1>9 DEF CasesList

LEMMA OpenSwitchStep ==
    ASSUME Disciplined, Compiled, NEW n \in 1..MaxCases, NEW hasDefault \in BOOLEAN,
           OpenSwitch(n, hasDefault)
    PROVE  Compiled'
<1> DEFINE L == Len(code)
           cases == [i \in 1..n |-> NewBlock(i)]
           merge == NewBlock(n + 1)
           rest == Tail(cases)
           T == ToSet(cases) \cup (IF hasDefault THEN {} ELSE {merge})
           f == Frame("case", merge, rest)
           jr == [jumps EXCEPT !.case = pushed + 1, !.next = IF n = 1 THEN merge ELSE cases[2]]
           r == Append(scopes, Scope(pushed + 1, {}))
           q == n + 1
           c2 == Put(Fresh(q), cur, <<Goto(T)>>)
<1>1. /\ L \in Nat \ {0} /\ pushed \in Nat /\ temps = {} /\ code \in Codes
      /\ cur \in 1..L
  BY CompiledFacts
<1>2. jumps \in JumpRecs
  BY CompiledFacts DEF JumpsOK
<1>0. merge = L + n + 1
  BY <1>1, ScopesAssumption DEF NewBlock
<1>3. MaxCases \in Nat /\ n \in Nat \ {0} /\ q \in Nat /\ q >= 2 /\ merge \in Nat /\ merge = L + q
  BY <1>0, <1>1, ScopesAssumption
<1>4. /\ cases \in Seq(Nat) /\ rest \in Seq(Nat) /\ Len(rest) = n - 1
      /\ \A j \in 1..(n - 1) : rest[j] = L + j + 1
      /\ ToSet(cases) = (L + 1)..(L + n) /\ cases[1] = L + 1
      /\ (IF n = 1 THEN merge ELSE cases[2]) = L + 2
  <2> DEFINE K == L
  <2>1. K \in Nat /\ n \in Nat \ {0} /\ CasesFrom(cases, K, n)
    BY <1>1, <1>3 DEF NewBlock, CasesFrom
  <2> HIDE DEF cases, K
  <2>2. CasesList(cases, K, n)
    BY ONLY <2>1, CasesAre
  <2> QED
    BY <1>0, <2>2 DEF K, CasesList
<1>5. FrameOf(f, "case", merge, rest)
  <2> DEFINE k == "case"
  <2>1. k \in {"if", "case", "loop"}
    OBVIOUS
  <2> HIDE DEF k, merge, rest
  <2>2. FrameOf(Frame(k, merge, rest), k, merge, rest)
    BY ONLY <1>2, <1>3, <1>4, <2>1, FrameIs
  <2> QED
    BY <2>2 DEF k
<1>6. Low(f) = L + 2 /\ Blocks(f)
  <2>1. f.k # "loop" /\ f.merge = merge /\ f.rest = rest
    BY <1>5 DEF FrameOf
  <2>2. Low(f) = merge - (n - 1)
    BY <1>4, <2>1 DEF Low
  <2>3. \A j \in 1..(n - 1) : rest[j] = merge - (n - 1) + j - 1
    <3> HIDE DEF L, merge, rest
    <3> QED
      BY ONLY <1>0, <1>1, <1>3, <1>4
  <2>4. Blocks(f)
    BY <1>4, <2>1, <2>3 DEF Blocks
  <2> QED
    BY <1>1, <1>3, <2>2, <2>4
<1>7. T \subseteq (L + 1)..(L + q)
  BY <1>1, <1>3, <1>4
<1>8. /\ jr \in JumpRecs /\ jr.entry = jumps.entry /\ jr.exit = jumps.exit
      /\ jr.next = L + 2 /\ jr.case = pushed + 1
  <2> DEFINE x == IF n = 1 THEN merge ELSE cases[2]
  <2>1. x = L + 2 /\ L + 2 \in Nat /\ pushed + 1 \in Nat
    BY <1>1, <1>4
  <2>2. jr = [jumps EXCEPT !.case = pushed + 1, !.next = x]
    OBVIOUS
  <2> HIDE DEF x, jr
  <2>3. /\ jr \in JumpRecs /\ jr.entry = jumps.entry /\ jr.exit = jumps.exit
        /\ jr.next = x /\ jr.case = pushed + 1
    BY ONLY <1>2, <2>1, <2>2 DEF JumpRecs
  <2> QED
    BY <2>1, <2>3
<1>9. Opened(f, jr, r, c2)
  <2>1. /\ f \in FrameRecs /\ f.k # "loop" /\ f.k = "case" /\ f.gen = 0 /\ f.old = jumps
        /\ f.merge = L + q
    BY <1>3, <1>5 DEF FrameOf
  <2> HIDE DEF f, T, q, jr
  <2>2. Opens(q, f, T, jr)
    BY <1>3, <1>6, <1>7, <1>8, <2>1 DEF Opens
  <2> QED
    BY <2>2, Opening
<1>10. /\ Compiling /\ stmts' = stmts + 1 /\ temps' = {} /\ names' = names
       /\ cur' = L + 1 /\ scopes' = r /\ pushed' = pushed + 1 /\ jumps' = jr
       /\ frames' = Append(frames, f) /\ UNCHANGED <<phase, ended, rvars>>
  <2>2. cur' = cases[1]
    BY DEF OpenSwitch
  <2>3. frames' = Append(frames, f)
    BY DEF OpenSwitch
  <2>4. jumps' = jr
    BY DEF OpenSwitch
  <2>5. Compiling /\ stmts' = stmts + 1 /\ temps' = {} /\ UNCHANGED <<phase, names, ended, rvars>>
    BY DEF OpenSwitch
  <2>6. scopes' = r /\ pushed' = pushed + 1
    BY DEF OpenSwitch, Push
  <2> QED
    BY <1>4, <2>2, <2>3, <2>4, <2>5, <2>6
<1>11. code' = c2
  <2>1. Flush(Fresh(q), cur) = Fresh(q)
    <3>1. Fresh(q) \in Codes /\ cur \in 1..Len(Fresh(q))
      BY <1>1, <1>3, FreshIs
    <3> QED
      BY <1>1, <3>1, NoTemps
  <2>3. code' = Put(Flush(Fresh(q), cur), cur, <<Goto(T)>>)
    BY DEF OpenSwitch
  <2> QED
    BY <2>1, <2>3
<1> HIDE DEF f, T, q, jr, r, c2
<1> QED
  BY <1>9, <1>10, <1>11, OpenedStep

\* The code of a loop, with its setup js before the test: c1 when the setup
\* is emitted, c2 when the test is.
LoopOpens(e, c, fs, sc, b, n, f, r, js, c1, c2) ==
    /\ CodeOK(e, c, fs, sc, b) /\ FramesOK(fs, sc, n, Len(c))
    /\ f \in FrameRecs /\ f.k = "loop" /\ ~f.jumped /\ f.test = Len(c) + 1
    /\ f.incr = Len(c) + 3 /\ f.clean = Len(c) + 4 /\ f.merge = Len(c) + 5
    /\ Len(r) = Len(sc) + 2 /\ ScopesOK(r)
    /\ \A k \in 1..Len(sc) : r[k] = sc[k]
    /\ r[Len(sc) + 2].vs = {} /\ r[Len(sc) + 2].defers = <<>>
    /\ js \in Seq(Plain) /\ Leads(e, js, Here(sc, fs), Setup(r, Append(fs, f), Len(fs) + 1))
    /\ c1 = Put(c \o [i \in 1..5 |-> <<>>], b, js \o <<Goto({Len(c) + 1})>>)
    /\ c2 = Put(c1, Len(c) + 1, <<Goto({Len(c) + 2, Len(c) + 5})>>)

LEMMA CodeOpenLoop ==
    ASSUME NEW e, NEW c, NEW fs, NEW sc, NEW b, NEW n, NEW f, NEW r, NEW js, NEW c1, NEW c2,
           LoopOpens(e, c, fs, sc, b, n, f, r, js, c1, c2)
    PROVE  /\ Len(c2) = Len(c) + 5
           /\ \E d : CodeOK(d, c2, Append(fs, f), r, Len(c) + 2)
<1> SUFFICES ASSUME CodeOK(e, c, fs, sc, b), FramesOK(fs, sc, n, Len(c)),
                    f \in FrameRecs, f.k = "loop", ~f.jumped, f.test = Len(c) + 1,
                    f.incr = Len(c) + 3, f.clean = Len(c) + 4, f.merge = Len(c) + 5,
                    Len(r) = Len(sc) + 2, \A k \in 1..Len(sc) : r[k] = sc[k], ScopesOK(r),
                    r[Len(sc) + 2].vs = {}, r[Len(sc) + 2].defers = <<>>, js \in Seq(Plain),
                    Leads(e, js, Here(sc, fs), Setup(r, Append(fs, f), Len(fs) + 1)),
                    c1 = Put(c \o [i \in 1..5 |-> <<>>], b, js \o <<Goto({Len(c) + 1})>>),
                    c2 = Put(c1, Len(c) + 1, <<Goto({Len(c) + 2, Len(c) + 5})>>)
             PROVE  /\ Len(c2) = Len(c) + 5
                    /\ \E d : CodeOK(d, c2, Append(fs, f), r, Len(c) + 2)
  BY Zenon DEF LoopOpens
<1> DEFINE gs == Append(fs, f)
           N == Len(fs)
           L == Len(c)
           H == Here(sc, fs)
           S == Setup(r, gs, N + 1)
           T == {L + 1}
           d == [k \in 1..(L + 5) |-> IF k \in 1..L THEN e[k] ELSE S]
           P == Pend(fs) \cup ((L + 1)..(L + 5))
           k2 == <<Goto({L + 2, L + 5})>>
<1>1. fs \in Seq(FrameRecs) /\ N \in Nat
  BY LenProperties DEF FramesOK
<1>2. /\ gs \in Seq(FrameRecs) /\ Len(gs) = N + 1 /\ gs[N + 1] = f
      /\ \A k \in 1..N : gs[k] = fs[k]
  BY <1>1, AppendIs
<1>3. Pend(gs) = Pend(fs) \cup PendOf(f)
  BY <1>1, PendPush
<1>4. /\ c \in Codes /\ L \in Nat \ {0} /\ TypedCode(e, c, Pend(fs), b, H)
      /\ TargetsOK(c, fs) /\ \A i \in 1..N : Expect(e, sc, fs, i)
  BY CodeFacts DEF CodeOK
<1>5. S \in States
  <2>1. js \in Seq(Instrs)
    BY TargetsPlain
  <2> QED
    BY <2>1, LeadsStates
<1>6. T \subseteq (L + 1)..(L + 5) /\ \A l \in T : l \notin 1..L
  BY <1>4
<1>7. \A l \in 1..L : l \in 1..(L + 5) /\ e[l] \in States
  BY <1>4 DEF TypedCode
<1>8. d \in [1..(L + 5) -> States] /\ \A l \in 1..L : d[l] = e[l]
  BY <1>5, <1>7
<1>9. \A l \in (L + 1)..(L + 5) : d[l] = S
  <2>1. \A l \in (L + 1)..(L + 5) : l \in 1..(L + 5) /\ l \notin 1..L
    BY <1>4
  <2> QED
    BY <2>1
<1>10. TypedCode(d, c1, P, b, S) /\ IsClosed(c1[b]) /\ Forked(c, 5, T, c1)
  <2>1. \A l \in T : d[l] = S
    BY <1>6, <1>9
  <2> DEFINE q == 5
  <2>2. q \in Nat
    OBVIOUS
  <2>3. Forks(e, c, Pend(fs), b, H, 5, js, S, T, d, c1)
    <3>1. d \in [1..(Len(c) + 5) -> States] /\ \A l \in 1..Len(c) : d[l] = e[l]
      BY <1>8
    <3>2. T \subseteq (Len(c) + 1)..(Len(c) + 5)
      BY <1>6
    <3>3. c1 = Put(c \o [i \in 1..5 |-> <<>>], b, js \o <<Goto(T)>>)
      OBVIOUS
    <3>4. Leads(e, js, H, S) /\ 5 \in Nat
      OBVIOUS
    <3>5. TypedCode(e, c, Pend(fs), b, H)
      BY <1>4
    <3> HIDE DEF d, T, S, H
    <3> QED
      BY <2>1, <3>1, <3>2, <3>3, <3>4, <3>5 DEF Forks
  <2>4. Forks(e, c, Pend(fs), b, H, q, js, S, T, d, c1)
    BY <2>3
  <2> HIDE DEF q, d, T, S, H
  <2>5. TypedCode(d, c1, Pend(fs) \cup ((Len(c) + 1)..(Len(c) + q)), b, S)
    BY <2>2, <2>4, TypedBranch
  <2>6. IsClosed(c1[b]) /\ Forked(c, q, T, c1)
    BY <2>2, <2>4, TypedBranch
  <2> QED
    BY <2>5, <2>6 DEF q
<1>11. L + 1 \in P /\ L + 2 \in P \ {L + 1}
  BY <1>4
<1>12. TypedCode(d, c1, P \ {L + 1}, L + 1, S)
  <2> DEFINE m == L + 1
  <2>1. m \in P /\ d[m] = S
    BY <1>4, <1>9, <1>11
  <2> HIDE DEF m, d, P, S
  <2>2. TypedCode(d, c1, P \ {m}, m, d[m])
    BY <1>10, <2>1, TypedMove
  <2> QED
    BY <2>1, <2>2 DEF m
<1>13. k2 \in Seq(Instrs) /\ TargetsOf(k2) = {L + 2, L + 5} /\ IsClosed(k2) /\ Leads(d, k2, S, S)
  <2> DEFINE U == {L + 2, L + 5}
  <2>1. U \in SUBSET Nat
    BY <1>4
  <2>2. \A l \in U : l \in DOMAIN d /\ d[l] = S
    <3>1. \A l \in U : l \in (L + 1)..(L + 5) /\ l \in 1..(L + 5)
      BY <1>4
    <3>2. DOMAIN d = 1..(L + 5)
      OBVIOUS
    <3> QED
      BY <1>9, <3>1, <3>2
  <2> HIDE DEF U
  <2>3. Goto(U) \in Instrs /\ Goto(U).op = "goto" /\ Goto(U).to = U
    BY <2>1, GotoIs
  <2> HIDE DEF d, S
  <2>4. Effect(d, Goto(U), S, S)
    BY <2>2, <2>3 DEF Effect
  <2>5. Leads(d, <<Goto(U)>>, S, S)
    BY <1>5, <2>4, LeadsOne
  <2>6. TargetsOf(<<Goto(U)>>) = U /\ IsClosed(<<Goto(U)>>)
    BY <2>3, TargetsOne, ClosedOne
  <2>7. <<Goto(U)>> \in Seq(Instrs)
    BY <2>3
  <2> QED
    BY <2>5, <2>6, <2>7 DEF U
<1> HIDE DEF k2, d, S, P, gs
<1>14. TypedCode(d, c2, P \ {L + 1}, L + 1, S)
  <2>1. c2 = Put(c1, L + 1, k2)
    BY DEF k2
  <2> QED
    BY <1>12, <1>13, <2>1, TypedAppend
<1>15. c1 \in Codes /\ Len(c1) = L + 5 /\ L + 1 \in 1..Len(c1) /\ c1[L + 1] \in Seq(Instrs)
  <2>1. c1 \in Codes /\ L + 1 \in 1..Len(c1)
    BY <1>12 DEF TypedCode
  <2>2. c1[L + 1] \in Seq(Instrs)
    BY <2>1, ElementOfSeq DEF Codes
  <2> QED
    BY <1>10, <2>1, <2>2 DEF Forked
<1>16. /\ Len(c2) = L + 5 /\ Targets(c2) = Targets(c) \cup {L + 1, L + 2, L + 5}
       /\ IsClosed(c2[L + 1])
  <2> DEFINE m == L + 1
  <2>1. c2 = Put(c1, m, k2)
    BY DEF k2
  <2>2. m \in 1..Len(c1) /\ c1[m] \in Seq(Instrs)
    BY <1>15
  <2> HIDE DEF m
  <2>3. Len(c2) = Len(c1) /\ c2[m] = c1[m] \o k2
    <3>1. Len(Put(c1, m, k2)) = Len(c1) /\ Put(c1, m, k2)[m] = c1[m] \o k2
      BY <1>13, <1>15, <2>2, PutIs
    <3> QED
      BY <2>1, <3>1
  <2>4. Targets(c2) = Targets(c1) \cup TargetsOf(k2)
    BY <1>13, <1>15, <2>1, <2>2, TargetsPut
  <2>5. Targets(c1) = Targets(c) \cup {L + 1}
    BY <1>10 DEF Forked
  <2>6. Targets(c2) = Targets(c) \cup {L + 1, L + 2, L + 5}
    BY <1>13, <2>4, <2>5
  <2>7. IsClosed(c2[m])
    BY <1>13, <2>2, <2>3, ClosedBy
  <2> QED
    BY <1>15, <2>3, <2>6, <2>7 DEF m
<1>18. TypedCode(d, c2, (P \ {L + 1}) \ {L + 2}, L + 2, S)
  <2> DEFINE m == L + 2
             l == L + 1
             Q == P \ {l}
  <2>1. m \in Q /\ d[m] = S
    BY <1>4, <1>9, <1>11
  <2> HIDE DEF m, l, Q
  <2>2. TypedCode(d, c2, Q, l, S) /\ IsClosed(c2[l])
    BY <1>14, <1>16 DEF Q, l
  <2>3. TypedCode(d, c2, Q \ {m}, m, d[m])
    BY <2>1, <2>2, TypedMove
  <2> QED
    BY <2>1, <2>3 DEF m, l, Q
<1>19. (P \ {L + 1}) \ {L + 2} = Pend(gs)
  <2>1. Pend(fs) \subseteq 1..L
    BY <1>4 DEF TypedCode
  <2>2. PendOf(f) = (L + 3)..(L + 5)
    BY DEF PendOf, First
  <2>3. (L + 1)..(L + 5) = {L + 1, L + 2} \cup ((L + 3)..(L + 5))
    <3>1. \A x \in (L + 1)..(L + 5) : x = L + 1 \/ x = L + 2 \/ x \in (L + 3)..(L + 5)
      <4> DEFINE l == L
      <4>1. l \in Nat
        BY <1>4
      <4> HIDE DEF l
      <4>2. \A x \in (l + 1)..(l + 5) : x = l + 1 \/ x = l + 2 \/ x \in (l + 3)..(l + 5)
        BY ONLY <4>1
      <4> QED
        BY <4>2 DEF l
    <3>2. \A x \in (L + 3)..(L + 5) : x \in (L + 1)..(L + 5)
      BY <1>4
    <3>3. L + 1 \in (L + 1)..(L + 5) /\ L + 2 \in (L + 1)..(L + 5)
      BY <1>4
    <3> QED
      BY <3>1, <3>2, <3>3
  <2>4. /\ \A l \in (L + 3)..(L + 5) : l # L + 1 /\ l # L + 2
        /\ \A l \in 1..L : l # L + 1 /\ l # L + 2
    BY <1>4
  <2> QED
    BY <1>3, <2>1, <2>2, <2>3, <2>4 DEF P
<1>20. /\ Depth(gs, N + 1) = Len(sc) /\ Depth(gs, N + 2) = Len(sc) + 2 /\ Len(sc) \in Nat
  <2>1. /\ Depth(gs, N + 2) = Len(sc) + (IF f.k = "loop" THEN 2 ELSE 1)
        /\ Len(sc) \in Nat /\ Depth(gs, N + 1) = Len(sc)
    <3>1. Len(gs) = Len(fs) + 1 /\ gs[Len(fs) + 1] = f
      BY <1>2
    <3>2. \A k \in 1..Len(fs) : gs[k] = fs[k]
      BY <1>2
    <3>3. FramesOK(fs, sc, n, L) /\ \A k \in 1..Len(sc) : r[k] = sc[k]
      OBVIOUS
    <3> QED
      BY ONLY <3>1, <3>2, <3>3, HerePushed
  <2> QED
    BY <2>1
<1>21. Here(r, gs) = S
  <2> DEFINE D == Len(sc) + 2
  <2>1. D \in 1..Len(r) /\ D - 1 = Len(sc) + 1 /\ r[D].vs = {} /\ r[D].defers = <<>>
    BY <1>20
  <2>2. Vs(r, D) = Vs(r, D - 1) /\ Ds(r, D) = Ds(r, D - 1)
    <3> HIDE DEF D
    <3> QED
      BY <2>1, TopEmpty
  <2>3. Len(gs) + 1 = N + 2 /\ (N + 1) + 1 = N + 2
    BY <1>1, <1>2
  <2> QED
    BY <1>20, <2>1, <2>2, <2>3 DEF Here, Around, At, Setup, S
<1>22. ASSUME NEW i \in 1..(N + 1) PROVE Expect(d, r, gs, i)
  <2>1. CASE i = N + 1
    <3>1. d[f.merge] = S /\ d[f.test] = S
      BY <1>4, <1>9
    <3> QED
      BY <1>2, <2>1, <3>1 DEF Expect, S
  <2>2. CASE i # N + 1
    <3>1. i \in 1..Len(fs)
      BY <1>1, <2>2
    <3> QED
      <4>1. \A k \in 1..Len(c) : d[k] = e[k]
        BY <1>8
      <4>2. Expect(e, sc, fs, i) /\ Len(c) \in Nat
        BY <1>4, <3>1
      <4>3. FramesOK(fs, sc, n, L) /\ \A k \in 1..Len(sc) : r[k] = sc[k]
        OBVIOUS
      <4>4. \A k \in 1..Len(fs) : gs[k] = fs[k]
        BY <1>2
      <4> DEFINE M == Len(c)
      <4>5. FramesOK(fs, sc, n, M) /\ M \in Nat /\ \A k \in 1..M : d[k] = e[k]
        BY <4>1, <4>2, <4>3
      <4>6. Expect(e, sc, fs, i) /\ \A k \in 1..Len(sc) : r[k] = sc[k]
        BY <4>2, <4>3
      <4> HIDE DEF M, gs, d
      <4> QED
        BY ONLY <3>1, <4>4, <4>5, <4>6, ExpectGrown
  <2> QED
    BY <2>1, <2>2
<1>23. TargetsOK(c2, gs)
  <2>0. Targets(c) \subseteq 1..L
    BY <1>4 DEF TargetsOK
  <2>1. Targets(c2) \subseteq 1..Len(c2)
    <3>1. \A l \in 1..L : l \in 1..(L + 5)
      BY <1>4
    <3>2. L + 1 \in 1..(L + 5) /\ L + 2 \in 1..(L + 5) /\ L + 5 \in 1..(L + 5)
      BY <1>4
    <3> QED
      BY <1>16, <2>0, <3>1, <3>2
  <2>2. ASSUME NEW i \in 1..(N + 1), gs[i].k = "loop", ~gs[i].jumped
        PROVE  gs[i].incr \notin Targets(c2) /\ gs[i].clean \notin Targets(c2)
    <3>1. CASE i = N + 1
      <4>1. \A l \in {L + 3, L + 4} : l \notin 1..L /\ l \notin {L + 1, L + 2, L + 5}
        BY <1>4
      <4> QED
        BY <1>2, <1>16, <2>0, <3>1, <4>1
    <3>2. CASE i # N + 1
      <4>1. i \in 1..Len(fs) /\ gs[i] = fs[i]
        BY <1>1, <1>2, <3>2
      <4>2. fs[i].incr \notin Targets(c) /\ fs[i].clean \notin Targets(c)
        BY <1>4, <2>2, <4>1 DEF TargetsOK
      <4>3. fs[i].incr \in 2..L /\ fs[i].clean \in 2..L
        <5>1. Used(fs[i]) \subseteq 2..L
          BY <1>4, <4>1, FrameFacts
        <5> QED
          BY <2>2, <4>1, <5>1 DEF Used
      <4>4. \A l \in 2..L : l \notin {L + 1, L + 2, L + 5}
        BY <1>4
      <4> QED
        BY <1>16, <4>1, <4>2, <4>3, <4>4
    <3> QED
      BY <3>1, <3>2
  <2> QED
    BY <1>2, <2>1, <2>2 DEF TargetsOK
<1>24. CodeOK(d, c2, gs, r, L + 2)
  BY <1>2, <1>18, <1>19, <1>21, <1>22, <1>23 DEF CodeOK
<1> QED
  BY <1>16, <1>24 DEF gs

\* The setup of a while loop, of a for loop and of a range loop: the code js,
\* the variables vs of its scope and its generator g.
SetupIs(js, vs, g, x) ==
    \/ js = <<>> /\ vs = {} /\ g = 0
    \/ js = <<Decl(x)>> /\ vs = {x} /\ g = 0
    \/ js = <<Decl(x)>> /\ vs = {} /\ g = x
SetsUp(fs, sc, n, p, m, f, js, r) ==
    /\ StackOK(sc, n, p) /\ FramesOK(fs, sc, n, m) /\ n \in Nat
    /\ f \in FrameRecs /\ f.k = "loop"
    /\ SetupIs(js, r[Len(sc) + 1].vs, f.gen, n + 1) /\ (js # <<>> => n < MaxNames)
    /\ Len(r) = Len(sc) + 2 /\ ScopesOK(r) /\ r[Len(sc) + 1].defers = <<>>
    /\ \A k \in 1..Len(sc) : r[k] = sc[k]

\* A name that is not used yet is held by nobody.
LEMMA NameFresh ==
    ASSUME NEW sc, NEW fs, NEW n \in Nat, NEW p, NEW m, StackOK(sc, n, p), FramesOK(fs, sc, n, m)
    PROVE  n + 1 \notin Vs(sc, Len(sc)) \cup Gens(fs, Len(fs) + 1)
<1>1. Len(sc) \in Nat
  BY ScopesLen DEF StackOK
<1>2. Vs(sc, Len(sc)) \subseteq 1..n
  <2>1. \A d \in 1..Len(sc) : sc[d].vs \subseteq 1..n
    BY DEF StackOK
  <2> QED
    BY <2>1 DEF Vs
<1>3. \A g \in Gens(fs, Len(fs) + 1) : g <= n
  <2>1. fs \in Seq(FrameRecs) /\ \A i \in 1..Len(fs) : fs[i].gen <= n
    BY DEF FramesOK
  <2>2. Len(fs) \in Nat /\ (Len(fs) + 1) - 1 = Len(fs)
    BY <2>1
  <2> QED
    BY <2>1, <2>2 DEF Gens
<1> QED
  BY <1>2, <1>3

LEMMA LoopSetup ==
    ASSUME NEW e, NEW fs, NEW sc, NEW n, NEW p, NEW m, NEW f, NEW js, NEW r,
           SetsUp(fs, sc, n, p, m, f, js, r)
    PROVE  js \in Seq(Plain) /\ Leads(e, js, Here(sc, fs), Setup(r, Append(fs, f), Len(fs) + 1))
<1> DEFINE D == Len(sc)
           N == Len(fs)
           x == n + 1
           gs == Append(fs, f)
           o == Vs(sc, D) \cup Gens(fs, N + 1)
           a == Ds(sc, D)
           g == {f.gen} \ {0}
           vs == r[D + 1].vs
<1>1. /\ ScopesOK(sc) /\ ScopesOK(r) /\ D \in Nat /\ Len(r) = D + 2 /\ n \in Nat
      /\ FramesOK(fs, sc, n, m) /\ MaxNames \in Nat /\ D + 1 \in 1..Len(r)
      /\ fs \in Seq(FrameRecs) /\ N \in Nat /\ f \in FrameRecs /\ f.k = "loop"
  <2>1. ScopesOK(sc) /\ ScopesOK(r) /\ FramesOK(fs, sc, n, m) /\ Len(r) = D + 2 /\ n \in Nat
        /\ f \in FrameRecs /\ f.k = "loop"
    BY DEF SetsUp, StackOK
  <2>2. D \in Nat
    BY <2>1, ScopesLen
  <2>3. fs \in Seq(FrameRecs)
    BY <2>1 DEF FramesOK
  <2> QED
    BY <2>1, <2>2, <2>3, ScopesAssumption
<1>2. /\ Len(gs) = N + 1 /\ gs[N + 1] = f /\ \A k \in 1..N : gs[k] = fs[k]
  BY <1>1, AppendIs
<1>3. /\ Depth(gs, N + 1) = D /\ Gens(gs, N + 2) = Gens(fs, N + 1) \cup g
      /\ Vs(r, D) = Vs(sc, D) /\ Ds(r, D) = Ds(sc, D)
  <2>1. \A k \in 1..Len(sc) : r[k] = sc[k]
    BY DEF SetsUp
  <2> HIDE DEF gs
  <2> QED
    BY ONLY <1>1, <1>2, <2>1, HerePushed DEF N, D, g
<1>4. Vs(r, D + 1) = Vs(sc, D) \cup vs /\ Ds(r, D + 1) = a
  <2>1. r[D + 1].defers = <<>> /\ (D + 1) - 1 = D
    BY <1>1 DEF SetsUp
  <2>2. Vs(r, D + 1) = Vs(r, (D + 1) - 1) \cup r[D + 1].vs
    BY <1>1, VsStep
  <2>3. Ds(r, D + 1) = Ds(r, (D + 1) - 1)
    BY <1>1, <2>1, DsNone
  <2> QED
    BY <1>3, <2>1, <2>2, <2>3
<1>5. Setup(r, gs, N + 1) = State(o \cup vs \cup g, a)
  <2>1. (N + 1) + 1 = N + 2
    BY <1>1
  <2>2. Setup(r, gs, N + 1) = State(Vs(r, D + 1) \cup Gens(gs, N + 2), Ds(r, D + 1))
    BY <1>3, <2>1 DEF Setup, At
  <2>3. Vs(r, D + 1) \cup Gens(gs, N + 2) = o \cup vs \cup g
    BY <1>3, <1>4
  <2> QED
    BY <1>4, <2>2, <2>3
<1>6. Here(sc, fs) = State(o, a)
  BY <1>1, HereIs
<1>7. o \in SUBSET Names /\ a \in SUBSET Names
  <2>1. D \in 0..Len(sc) /\ N + 1 \in 1..(Len(fs) + 1)
    BY <1>1
  <2> QED
    BY <1>1, <2>1, AtType
<1>8. x \notin o
  BY <1>1, NameFresh DEF SetsUp
<1>9. SetupIs(js, vs, f.gen, x) /\ (js # <<>> => n < MaxNames)
  BY DEF SetsUp
<1>10. CASE js = <<>> /\ vs = {} /\ f.gen = 0
  <2>1. o \cup vs \cup g = o
    BY <1>10
  <2>2. State(o, a) \in States
    BY <1>7, StateType
  <2>3. Leads(e, js, State(o, a), State(o, a)) /\ js \in Seq(Plain)
    BY <1>10, <2>2, LeadsNothing
  <2> QED
    BY <1>5, <1>6, <2>1, <2>3
<1>11. CASE js = <<Decl(x)>> /\ o \cup vs \cup g = o \cup {x}
  <2>1. x \in Names
    BY <1>1, <1>9, <1>11 DEF Names
  <2>2. Decl(x) \in Plain /\ Decl(x).op = "decl" /\ Decl(x).x = x
    BY <2>1, DeclIs
  <2>3. State(o, a) \in States /\ State(o \cup {x}, a) \in States
    BY <1>7, <2>1, StateType
  <2>4. State(o, a).own = o /\ State(o, a).arm = a
    BY <1>7, StateType
  <2> DEFINE s == State(o, a)
             t == State(o \cup {x}, a)
             i == Decl(x)
  <2>5. Effect(e, i, s, t)
    <3>1. i.x \in Names \ s.own /\ t = State(s.own \cup {i.x}, s.arm)
      BY <1>8, <2>1, <2>2, <2>4
    <3> HIDE DEF i, s, t
    <3>2. i.op = "decl"
      BY <2>2 DEF i
    <3> QED
      BY ONLY <3>1, <3>2 DEF Effect
  <2>6. Leads(e, <<i>>, s, t) /\ <<i>> \in Seq(Plain)
    <3>1. i \in Plain /\ s \in States /\ t \in States
      BY <2>2, <2>3
    <3> HIDE DEF i, s, t
    <3> QED
      BY ONLY <2>5, <3>1, LeadsOne, PlainOne
  <2> QED
    BY <1>5, <1>6, <1>11, <2>6
<1>12. \/ js = <<>> /\ vs = {} /\ f.gen = 0
       \/ js = <<Decl(x)>> /\ o \cup vs \cup g = o \cup {x}
  <2>1. CASE js = <<Decl(x)>> /\ vs = {x} /\ f.gen = 0
    BY <2>1
  <2>2. CASE js = <<Decl(x)>> /\ vs = {} /\ f.gen = x
    <3>1. g = {x}
      BY <1>1, <2>2
    <3> QED
      BY <2>2, <3>1
  <2> HIDE DEF o, vs, g, x
  <2> QED
    BY <1>9, <2>1, <2>2 DEF SetupIs
<1> QED
  BY <1>10, <1>11, <1>12

\* Two scopes are pushed.
PushesTwo(sc, n, p, l, vs, r) ==
    /\ StackOK(sc, n, p) /\ n <= l /\ l <= MaxNames /\ vs \subseteq (n + 1)..l
    /\ r = sc \o <<Scope(p + 1, vs), Scope(p + 2, {})>>
PushedTwo(sc, p, l, vs, r) ==
    /\ StackOK(r, l, p + 2) /\ Len(r) = Len(sc) + 2 /\ Len(sc) \in Nat
    /\ \A k \in 1..Len(sc) : r[k] = sc[k]
    /\ r[Len(sc) + 1] = Scope(p + 1, vs) /\ r[Len(sc) + 2] = Scope(p + 2, {})

LEMMA PushTwo ==
    ASSUME NEW sc, NEW n \in Nat, NEW p \in Nat, NEW l \in Nat, NEW vs, NEW r,
           PushesTwo(sc, n, p, l, vs, r)
    PROVE  PushedTwo(sc, p, l, vs, r)
<1> DEFINE a == Scope(p + 1, vs)
           b == Scope(p + 2, {})
           D == Len(sc)
<1>0. /\ StackOK(sc, n, p) /\ n <= l /\ l <= MaxNames /\ vs \subseteq (n + 1)..l
      /\ r = sc \o <<a, b>>
  BY DEF PushesTwo
<1>1. MaxNames \in Nat /\ vs \in SUBSET Names
  BY <1>0, ScopesAssumption DEF Names
<1>2. a \in ScopeRecs /\ b \in ScopeRecs
  BY <1>1, ScopeIs
<1>3. sc \in Seq(ScopeRecs) /\ D \in Nat
  BY <1>0 DEF StackOK, ScopesOK
<1>4. /\ r = Append(Append(sc, a), b) /\ Len(r) = D + 2
      /\ (\A k \in 1..D : r[k] = sc[k]) /\ r[D + 1] = a /\ r[D + 2] = b
  <2> HIDE DEF a, b
  <2> QED
    BY ONLY <1>0, <1>2, <1>3 DEF D
<1>5. StackOK(Append(sc, a), l, p + 1)
  BY <1>0, StackPush
<1>6. StackOK(Append(Append(sc, a), b), l, (p + 1) + 1)
  <2> DEFINE s == Append(sc, a)
             q == p + 1
  <2>1. q \in Nat /\ {} \subseteq (l + 1)..l /\ q + 1 = p + 2 /\ l <= l
    OBVIOUS
  <2>2. StackOK(s, l, q)
    BY <1>5
  <2> HIDE DEF s, q
  <2>3. StackOK(Append(s, Scope(q + 1, {})), l, q + 1)
    BY <1>0, <2>1, <2>2, StackPush
  <2> QED
    BY <2>1, <2>3 DEF s, q
<1>7. StackOK(r, l, p + 2)
  <2>1. (p + 1) + 1 = p + 2
    OBVIOUS
  <2> HIDE DEF a, b
  <2> QED
    BY ONLY <1>4, <1>6, <2>1
<1> QED
  BY <1>3, <1>4, <1>7 DEF PushedTwo

LEMMA OpenLoopStep ==
    ASSUME Disciplined, Compiled, NEW k \in {"while", "for", "range"}, NEW call \in BOOLEAN,
           OpenLoop(k, call)
    PROVE  Compiled'
<1> DEFINE L == Len(code)
           D == Len(scopes)
           n == names
           p == pushed
           x == n + 1
           vs == IF k = "for" THEN {x} ELSE {}
           g == IF k = "range" THEN x ELSE 0
           l == IF k # "while" THEN x ELSE n
           js == IF k = "while" THEN <<>> ELSE <<Decl(x)>>
           r == scopes \o <<Scope(p + 1, vs), Scope(p + 2, {})>>
           f == [Frame("loop", NewBlock(5), <<>>) EXCEPT
                    !.incr = NewBlock(3), !.clean = NewBlock(4), !.test = NewBlock(1),
                    !.gen = g, !.body = D + 2]
           gs == Append(frames, f)
           jr == [jumps EXCEPT !.entry = NewBlock(3), !.exit = NewBlock(4), !.loop = p + 1]
           c1 == Put(Fresh(5), cur, js \o <<Goto({NewBlock(1)})>>)
           c2 == Put(c1, NewBlock(1), <<Goto({NewBlock(2), NewBlock(5)})>>)
<1>1. /\ code \in Codes /\ L \in Nat \ {0} /\ n \in Nat /\ n <= MaxNames /\ MaxNames \in Nat
      /\ p \in Nat /\ temps = {} /\ StackOK(scopes, n, p) /\ FramesOK(frames, scopes, n, L)
      /\ JumpsOK(jumps, frames, scopes, p) /\ jumps \in JumpRecs /\ D \in Nat
      /\ frames \in Seq(FrameRecs) /\ Len(frames) \in Nat
  <2>1. /\ FramesOK(frames, scopes, n, L) /\ JumpsOK(jumps, frames, scopes, p)
        /\ code \in Codes /\ L \in Nat \ {0} /\ n \in Nat /\ n <= MaxNames /\ MaxNames \in Nat
        /\ p \in Nat /\ temps = {} /\ StackOK(scopes, n, p) /\ D \in Nat
    BY CompiledFacts
  <2> QED
    BY <2>1 DEF FramesOK, JumpsOK
<1>2. Test(call) /\ Compiling /\ (k # "while" => n < MaxNames)
  BY DEF OpenLoop
<1>3. ~call /\ temps' = {} /\ \A is \in Seq(Instrs) : TestCode(call) \o is = is
  BY <1>1, <1>2, NoCall
<1>4. NewBlock(1) = L + 1 /\ NewBlock(2) = L + 2 /\ NewBlock(3) = L + 3
      /\ NewBlock(4) = L + 4 /\ NewBlock(5) = L + 5
  BY DEF NewBlock
<1>5. /\ l \in Nat /\ n <= l /\ l <= MaxNames /\ vs \subseteq (n + 1)..l
      /\ g \in {0} \cup (n + 1)..l /\ g \notin vs /\ g \in 0..MaxNames
      /\ SetupIs(js, vs, g, x) /\ (js # <<>> => n < MaxNames)
  <2>1. CASE k = "while"
    BY <1>1, <2>1 DEF SetupIs
  <2>2. CASE k = "for"
    BY <1>1, <1>2, <2>2 DEF SetupIs
  <2>3. CASE k = "range"
    BY <1>1, <1>2, <2>3 DEF SetupIs
  <2> QED
    BY <2>1, <2>2, <2>3
<1>6. /\ StackOK(r, l, p + 2) /\ Len(r) = D + 2 /\ ScopesOK(r)
      /\ \A i \in 1..D : r[i] = scopes[i]
      /\ r[D + 1] = Scope(p + 1, vs) /\ r[D + 2] = Scope(p + 2, {})
  <2> HIDE DEF l, vs
  <2>1. PushesTwo(scopes, n, p, l, vs, r)
    BY <1>1, <1>5 DEF PushesTwo
  <2> HIDE DEF n, p, r
  <2>2. PushedTwo(scopes, p, l, vs, r)
    BY ONLY <1>1, <1>5, <2>1, PushTwo
  <2> QED
    BY <2>2 DEF StackOK, PushedTwo
<1>7. /\ f \in FrameRecs /\ f.k = "loop" /\ f.merge = L + 5 /\ f.old = jumps
      /\ ~f.jumped /\ f.incr = L + 3 /\ f.clean = L + 4 /\ f.test = L + 1
      /\ f.gen = g /\ f.body = D + 2
  <2> DEFINE kk == "loop"
             h == Frame(kk, NewBlock(5), <<>>)
  <2>1. FrameOf(h, kk, NewBlock(5), <<>>)
    <3>1. kk \in {"if", "case", "loop"} /\ NewBlock(5) \in Nat /\ <<>> \in Seq(Nat)
      BY <1>1, <1>4
    <3> HIDE DEF kk
    <3> QED
      BY <1>1, <3>1, FrameIs
  <2> DEFINE B3 == L + 3
             B4 == L + 4
             B1 == L + 1
             E == D + 2
  <2>2. f = [h EXCEPT !.incr = B3, !.clean = B4, !.test = B1, !.gen = g, !.body = E]
    BY <1>4
  <2> HIDE DEF h, f, g
  <2>3. /\ h \in FrameRecs /\ h.k = "loop" /\ h.merge = L + 5 /\ h.old = jumps
        /\ h.jumped = FALSE
    BY <1>4, <2>1 DEF FrameOf
  <2>4. B3 \in Nat /\ B4 \in Nat /\ B1 \in Nat /\ E \in Nat /\ g \in 0..MaxNames
    BY <1>1, <1>5
  <2> HIDE DEF B3, B4, B1, E, L, D
  <2>5. f \in FrameRecs
    BY ONLY <2>2, <2>3, <2>4 DEF FrameRecs
  <2>6. /\ f.k = h.k /\ f.merge = h.merge /\ f.old = h.old /\ f.jumped = h.jumped
        /\ f.incr = B3 /\ f.clean = B4 /\ f.test = B1 /\ f.gen = g /\ f.body = E
    BY ONLY <2>2, <2>3 DEF FrameRecs
  <2> QED
    BY <2>3, <2>5, <2>6 DEF B3, B4, B1, E
<1>8. Low(f) = L + 1 /\ Blocks(f)
  <2> HIDE DEF f
  <2> QED
    BY <1>1, <1>7 DEF Low, Blocks
<1>9. FramesOK(gs, r, l, L + 5)
  <2> DEFINE sc == scopes
             fs == frames
             q == L + 5
  <2>1. \A d \in 1..Len(sc) : sc[d].vs \subseteq 1..n
    BY <1>1 DEF StackOK
  <2>2. \A i \in (D + 1)..Len(r) : r[i].vs \subseteq (n + 1)..l /\ f.gen \notin r[i].vs
    <3>1. \A i \in (D + 1)..Len(r) : i = D + 1 \/ i = D + 2
      BY <1>1, <1>6
    <3>2. r[D + 1].vs = vs /\ r[D + 2].vs = {}
      BY <1>6 DEF Scope
    <3> HIDE DEF r, vs, l, f, g
    <3> QED
      BY <1>5, <1>7, <3>1, <3>2
  <2>3. r[D + 1].defers = <<>>
    BY <1>6 DEF Scope
  <2>4. /\ Low(f) > L /\ f.merge <= q /\ L <= q /\ q \in Nat
        /\ f.gen \in {0} \cup (n + 1)..l
        /\ f.k = "loop" /\ f.body = Len(sc) + 2 /\ f \in FrameRecs /\ Blocks(f)
    <3> HIDE DEF f, l
    <3> QED
      BY <1>1, <1>5, <1>7, <1>8
  <2>5. n \in Nat /\ l \in Nat /\ n <= l /\ L \in Nat \ {0} /\ FramesOK(fs, sc, n, L)
    BY <1>1, <1>5
  <2>6. Len(r) = Len(sc) + 2 /\ \A i \in 1..Len(sc) : r[i] = sc[i]
    BY <1>6
  <2> HIDE DEF f, r, l, q, n, L, vs, fs, sc
  <2>7. FramesOK(Append(fs, f), r, l, q)
    <3>1. \A i \in (Len(sc) + 1)..Len(r) : r[i].vs \subseteq (n + 1)..l /\ f.gen \notin r[i].vs
      BY <2>2 DEF sc
    <3>2. r[Len(sc) + 1].defers = <<>>
      BY <2>3 DEF sc
    <3> QED
      BY ONLY <2>1, <2>4, <2>5, <2>6, <3>1, <3>2, FramesPush
  <2> QED
    BY <2>7 DEF q, fs
<1>10. JumpsOK(jr, gs, r, p + 2)
  <2> DEFINE sc == scopes
             fs == frames
             q == p + 2
             jm == jumps
  <2>1. /\ jr \in JumpRecs /\ jr.entry = L + 3 /\ jr.exit = L + 4
        /\ jr.next = jm.next /\ jr.case = jm.case
    <3> DEFINE B3 == L + 3
               B4 == L + 4
               P == p + 1
    <3>1. jr = [jumps EXCEPT !.entry = B3, !.exit = B4, !.loop = P]
      BY <1>4
    <3>2. B3 \in Nat /\ B4 \in Nat /\ P \in Nat /\ jumps \in JumpRecs
      BY <1>1
    <3> HIDE DEF B3, B4, P, jr
    <3>3. /\ jr \in JumpRecs /\ jr.entry = B3 /\ jr.exit = B4
          /\ jr.next = jumps.next /\ jr.case = jumps.case
      BY ONLY <3>1, <3>2 DEF JumpRecs
    <3> QED
      BY <3>3 DEF B3, B4
  <2>2. /\ \A d \in 1..Len(sc) : sc[d].id <= p
        /\ \A d \in 1..Len(sc) : sc[d].id \in Nat
    <3>1. \A d \in 1..Len(scopes) : scopes[d].id \in Nat
      BY <1>1, ScopeType DEF StackOK
    <3> QED
      BY <1>1, <3>1 DEF StackOK
  <2>3. \A i \in (Len(sc) + 1)..Len(r) : r[i].id \in Nat /\ r[i].id > p
    <3>1. \A i \in (D + 1)..Len(r) : i = D + 1 \/ i = D + 2
      BY <1>1, <1>6
    <3>2. r[D + 1].id = p + 1 /\ r[D + 2].id = p + 2
      BY <1>6 DEF Scope
    <3> HIDE DEF r
    <3> QED
      BY <1>1, <3>1, <3>2
  <2>4. /\ f \in FrameRecs /\ f.old = jm /\ f.k = "loop"
        /\ jr.entry = f.incr /\ jr.exit = f.clean
    BY <1>7, <2>1
  <2>5. p \in Nat /\ q \in Nat /\ p < q /\ Len(r) \in Nat /\ FramesOK(fs, sc, n, L)
        /\ JumpsOK(jm, fs, sc, p)
    BY <1>1, <1>6
  <2>6. \A i \in 1..Len(sc) : r[i] = sc[i]
    BY <1>6
  <2> HIDE DEF f, r, n, L, fs, sc, q, jm, jr, p
  <2>7. JumpsOK(jr, Append(fs, f), r, q)
    <3>1. IF f.k = "loop" THEN jr.entry = f.incr /\ jr.exit = f.clean
          ELSE jr.entry = jm.entry /\ jr.exit = jm.exit
      BY <2>4
    <3>2. IF f.k = "case" THEN jr.next = Low(f) /\ jr.case = p + 1
          ELSE jr.next = jm.next /\ jr.case = jm.case
      BY <2>1, <2>4
    <3>3. f.k = "case" => Len(r) = Len(sc) + 1
      BY <2>4
    <3>4. f \in FrameRecs /\ f.old = jm /\ jr \in JumpRecs
      BY <2>1, <2>4
    <3> QED
      BY ONLY <2>2, <2>3, <2>5, <2>6, <3>1, <3>2, <3>3, <3>4, JumpsPush
  <2> QED
    BY <2>7 DEF q, fs, p
<1>11. Len(c2) = L + 5 /\ \E e : CodeOK(e, c2, gs, r, L + 2)
  <2>1. PICK e : CodeOK(e, code, frames, scopes, cur)
    BY DEF Compiled, CodeInv
  <2>2. /\ c1 = Put(code \o [i \in 1..5 |-> <<>>], cur, js \o <<Goto({L + 1})>>)
        /\ c2 = Put(c1, L + 1, <<Goto({L + 2, L + 5})>>)
    BY <1>4 DEF Fresh
  <2>3. /\ r[D + 1].vs = vs /\ r[D + 1].defers = <<>>
        /\ r[D + 2].vs = {} /\ r[D + 2].defers = <<>>
    BY <1>6 DEF Scope
  <2>4. SetsUp(frames, scopes, n, p, L, f, js, r)
    <3> HIDE DEF f, js, r, vs, g, n, p, L
    <3> QED
      BY <1>1, <1>5, <1>6, <1>7, <2>3 DEF SetsUp, x
  <2> HIDE DEF f, js, r, c1, c2, vs, g
  <2>5. js \in Seq(Plain) /\ Leads(e, js, Here(scopes, frames), Setup(r, gs, Len(frames) + 1))
    BY ONLY <2>4, LoopSetup DEF gs
  <2>6. LoopOpens(e, code, frames, scopes, cur, n, f, r, js, c1, c2)
    BY <1>1, <1>6, <1>7, <2>1, <2>2, <2>3, <2>5 DEF LoopOpens
  <2> QED
    BY ONLY <2>6, CodeOpenLoop DEF gs, L
<1>12. /\ stmts' = stmts + 1 /\ names' = l /\ pushed' = p + 2 /\ scopes' = r /\ jumps' = jr
       /\ frames' = gs /\ cur' = L + 2 /\ UNCHANGED <<phase, ended, rvars>>
  <2>1. names' = l
    BY <1>3 DEF OpenLoop
  <2>2. scopes' = r /\ pushed' = p + 2 /\ stmts' = stmts + 1 /\ UNCHANGED <<phase, ended, rvars>>
    BY DEF OpenLoop
  <2>3. jumps' = jr /\ frames' = gs /\ cur' = L + 2
    BY <1>4 DEF OpenLoop
  <2> QED
    BY <2>1, <2>2, <2>3
<1>13. code' = c2
  <2>1. code' = Put(c1, NewBlock(1), TestCode(call) \o <<Goto({NewBlock(2), NewBlock(5)})>>)
    BY DEF OpenLoop
  <2> DEFINE B == {NewBlock(2), NewBlock(5)}
             is == <<Goto(B)>>
  <2>2. is \in Seq(Instrs)
    <3>1. B \in SUBSET Nat
      BY <1>1, <1>4
    <3> QED
      BY <3>1, GotoIs
  <2>3. code' = Put(c1, NewBlock(1), TestCode(call) \o is)
    BY <2>1
  <2> HIDE DEF is, c1
  <2>4. TestCode(call) \o is = is
    BY <1>3, <2>2
  <2> QED
    BY <2>3, <2>4 DEF is
<1> HIDE DEF f, r, l, c1, c2, jr, gs, js
<1>14. Compiled'
  <2>1. MaxStmts \in Nat /\ stmts \in Nat /\ ended \in BOOLEAN
    BY CompiledFacts
  <2>2. CountInv'
    BY <1>1, <1>2, <1>3, <1>5, <1>12, <2>1 DEF CountInv, Compiling
  <2>3. StackInv'
    BY <1>6, <1>12 DEF StackInv
  <2>4. FramesInv'
    BY <1>9, <1>11, <1>12, <1>13 DEF FramesInv
  <2>5. JumpsInv'
    BY <1>10, <1>12 DEF JumpsInv
  <2>6. EndedInv'
    BY <1>2, <1>12, <2>1 DEF EndedInv, Compiling
  <2>7. CodeInv'
    BY <1>11, <1>12, <1>13 DEF CodeInv
  <2> QED
    BY <1>12, <2>2, <2>3, <2>4, <2>5, <2>6, <2>7 DEF Compiled, rvars
<1> QED
  BY <1>14

\* The end of a block of an if or a switch, and the code it emits.
AtBlockEnd(e, c, fs, sc, b, n, is) ==
    /\ CodeOK(e, c, fs, sc, b) /\ ScopesOK(sc) /\ FramesOK(fs, sc, n, Len(c))
    /\ fs # <<>> /\ fs[Len(fs)].k # "loop"
    /\ is = Deferments(Top(sc)) \o Callbacks(Top(sc)) \o <<Goto({Top(fs).merge})>>

LEMMA CodeBlockEnd ==
    ASSUME NEW e, NEW c, NEW fs, NEW sc, NEW b, NEW n, NEW is,
           AtBlockEnd(e, c, fs, sc, b, n, is)
    PROVE  /\ CodeOK(e, Put(c, b, is), fs, sc, b) /\ IsClosed(Put(c, b, is)[b])
           /\ Len(Put(c, b, is)) = Len(c)
<1> SUFFICES ASSUME CodeOK(e, c, fs, sc, b), ScopesOK(sc), FramesOK(fs, sc, n, Len(c)),
                    fs # <<>>, fs[Len(fs)].k # "loop",
                    is = Deferments(Top(sc)) \o Callbacks(Top(sc)) \o <<Goto({Top(fs).merge})>>
             PROVE  /\ CodeOK(e, Put(c, b, is), fs, sc, b) /\ IsClosed(Put(c, b, is)[b])
                    /\ Len(Put(c, b, is)) = Len(c)
  BY Zenon DEF AtBlockEnd
<1> DEFINE N == Len(fs)
           M == Top(fs).merge
           D == Len(sc)
           js == Deferments(sc[D]) \o Callbacks(sc[D])
           g == Gens(fs, N)
           ins == Goto({M})
           t == Around(sc, fs, N)
<1>1. N \in 1..N /\ Top(fs) = fs[N] /\ fs \in Seq(FrameRecs)
  BY TopFrame
<1>2. /\ D \in 1..D /\ g \in SUBSET Names
      /\ \A d \in 0..D : g \cap Vs(sc, d) = {}
      /\ Here(sc, fs) = State(Vs(sc, D) \cup g, Ds(sc, D))
      /\ t = State(Vs(sc, D - 1) \cup g, Ds(sc, D - 1))
  BY AroundTop
<1>3. g \cap sc[D].vs = {}
  <2>1. D \in 0..D
    BY <1>2
  <2>2. sc[D].vs \subseteq Vs(sc, D)
    BY <1>2 DEF Vs
  <2> QED
    BY <1>2, <2>1, <2>2
<1>4. js \in Seq(Plain) /\ Leads(e, js, Here(sc, fs), t)
  <2>1. D \in 1..Len(sc)
    BY <1>2
  <2> HIDE DEF D, g, t
  <2>2. /\ Deferments(sc[D]) \o Callbacks(sc[D]) \in Seq(Plain)
        /\ Leads(e, Deferments(sc[D]) \o Callbacks(sc[D]),
                    State(Vs(sc, D) \cup g, Ds(sc, D)),
                    State(Vs(sc, D - 1) \cup g, Ds(sc, D - 1)))
    BY <1>2, <1>3, <2>1, ScopeEnds
  <2> QED
    BY <1>2, <2>2
<1>5. Len(c) \in Nat
  BY CodeFacts
<1>6. M \in 1..Len(c) /\ M \in PendOf(fs[N])
  <2>1. fs[N].merge \in 1..Len(c) /\ fs[N].merge \in PendOf(fs[N])
    BY <1>1, <1>5, FrameFacts
  <2> QED
    BY <1>1, <2>1
<1>7. Expect(e, sc, fs, N)
  BY <1>1 DEF CodeOK
<1>8. e[M] = t
  BY <1>6, <1>7 DEF Expect
<1>9. ins \in Instrs /\ ins.op = "goto" /\ ins.to = {M}
  <2>1. {M} \in SUBSET Nat
    BY <1>5, <1>6
  <2> QED
    BY <2>1, GotoIs
<1>10. ASSUME NEW i \in 1..N, fs[i].k = "loop"
       PROVE  fs[i].incr # M /\ fs[i].clean # M
  <2>1. Used(fs[i]) \cap Used(fs[N]) = {}
    BY <1>1, <1>5, <1>10, UsedApart
  <2>2. PendOf(fs[N]) \subseteq Used(fs[N])
    BY <1>1, <1>5, FrameFacts
  <2> QED
    BY <1>6, <1>10, <2>1, <2>2 DEF Used
<1>11. is = js \o <<ins>>
  BY DEF Top
<1> HIDE DEF js, ins, t, M
<1>12. \A i \in 1..N : fs[i].k = "loop" /\ ~fs[i].jumped =>
              fs[i].incr \notin ins.to /\ fs[i].clean \notin ins.to
  BY <1>9, <1>10
<1>13. ins.op = "goto" /\ \A l \in ins.to : l \in 1..Len(c) /\ e[l] = t
  BY <1>6, <1>8, <1>9
<1>14. /\ CodeOK(e, Put(c, b, js \o <<ins>>), fs, sc, b)
       /\ IsClosed(Put(c, b, js \o <<ins>>)[b])
       /\ Len(Put(c, b, js \o <<ins>>)) = Len(c)
  <2>1. CodeOK(e, c, fs, sc, b)
    OBVIOUS
  <2>2. \A i \in 1..Len(fs) : fs[i].k = "loop" /\ ~fs[i].jumped =>
              fs[i].incr \notin ins.to /\ fs[i].clean \notin ins.to
    BY <1>12
  <2>3. ins.op \in {"goto", "ret"}
    BY <1>9
  <2>4. js \in Seq(Plain) /\ ins \in Instrs
    BY <1>4, <1>9
  <2> QED
    BY ONLY <1>4, <1>13, <2>1, <2>2, <2>3, <2>4, CodeLeave
<1> QED
  BY <1>11, <1>14

\* The end of a block of an if or a switch.
LEMMA BlockEnds ==
    ASSUME Compiled, frames # <<>>, Top(frames).k # "loop"
    PROVE  \E e : /\ CodeOK(e, BlockEnd, frames, scopes, cur)
                  /\ IsClosed(BlockEnd[cur]) /\ Len(BlockEnd) = Len(code)
<1>1. PICK e : CodeOK(e, code, frames, scopes, cur)
  BY DEF Compiled, CodeInv
<1>2. CASE ended
  <2>1. IsClosed(code[cur])
    BY <1>2 DEF Compiled, EndedInv
  <2>2. BlockEnd = code
    BY <1>2 DEF BlockEnd
  <2> QED
    BY <1>1, <2>1, <2>2
<1>3. CASE ~ended
  <2> DEFINE ds == Deferments(Top(scopes))
             is == ds \o Callbacks(Top(scopes)) \o <<Goto({Top(frames).merge})>>
  <2>1. /\ FramesOK(frames, scopes, names, Len(code)) /\ ScopesOK(scopes) /\ temps = {}
        /\ Len(scopes) \in 1..Len(scopes)
    BY CompiledFacts
  <2>2. Top(frames) = frames[Len(frames)]
    BY DEF Top
  <2>3. ds \in Seq(Instrs)
    <3>1. Deferments(scopes[Len(scopes)]) \in Seq(Plain)
      BY <2>1, DefermentsAre
    <3> QED
      BY <3>1, TargetsPlain DEF Top
  <2>4. BlockEnd = Put(code, cur, is)
    <3>1. Emitted(ds) = ds
      BY <2>1, <2>3, NoTemps
    <3> QED
      BY <1>3, <3>1 DEF BlockEnd
  <2> DEFINE c == Put(code, cur, is)
  <2>5. CodeOK(e, c, frames, scopes, cur) /\ IsClosed(c[cur]) /\ Len(c) = Len(code)
    <3>1. is = Deferments(Top(scopes)) \o Callbacks(Top(scopes)) \o <<Goto({Top(frames).merge})>>
      OBVIOUS
    <3>2. frames # <<>> /\ frames[Len(frames)].k # "loop"
      BY <2>2
    <3> HIDE DEF is
    <3> QED
      <4>1. AtBlockEnd(e, code, frames, scopes, cur, names, is)
        BY ONLY <1>1, <2>1, <3>1, <3>2 DEF AtBlockEnd
      <4> QED
        BY ONLY <4>1, CodeBlockEnd
  <2> QED
    BY <2>4, <2>5
<1> QED
  BY <1>2, <1>3

\* The scope of the next block is in the place of the last one's.
LEMMA ReplaceTop ==
    ASSUME NEW sc, NEW n \in Nat, NEW p \in Nat, StackOK(sc, n, p), sc # <<>>, n <= MaxNames
    PROVE  LET r == Append(Pop(sc), Scope(p + 1, {}))
           IN  /\ StackOK(r, n, p + 1) /\ Len(r) = Len(sc)
               /\ \A k \in 1..(Len(sc) - 1) : r[k] = sc[k]
               /\ r[Len(sc)] = Scope(p + 1, {})
<1> DEFINE s == Pop(sc)
           a == Scope(p + 1, {})
           r == Append(s, a)
<1>1. StackOK(s, n, p)
  BY StackPop
<1>2. StackOK(r, n, p + 1)
  <2>1. {} \subseteq (n + 1)..n /\ n <= n
    OBVIOUS
  <2> HIDE DEF s
  <2> QED
    BY <1>1, <2>1, StackPush
<1>3. sc \in Seq(ScopeRecs)
  BY DEF StackOK, ScopesOK
<1>4. /\ s \in Seq(ScopeRecs) /\ Len(s) = Len(sc) - 1 /\ Len(sc) \in Nat \ {0}
      /\ \A k \in 1..(Len(sc) - 1) : s[k] = sc[k]
  BY <1>3, PopIs
<1>5. a \in ScopeRecs
  BY ScopeIs
<1> HIDE DEF s, a
<1>6. /\ Len(r) = Len(s) + 1 /\ r[Len(s) + 1] = a /\ \A k \in 1..Len(s) : r[k] = s[k]
  BY <1>4, <1>5, AppendIs
<1>7. /\ Len(r) = Len(sc) /\ r[Len(sc)] = a
      /\ \A k \in 1..(Len(sc) - 1) : r[k] = sc[k]
  BY <1>4, <1>6
<1> QED
  BY <1>2, <1>7 DEF s, a

LEMMA NextBlockStep ==
    ASSUME Disciplined, Compiled, NextBlock
    PROVE  Compiled'
<1> DEFINE L == Len(code)
           N == Len(frames)
           D == Len(scopes)
           p == pushed
           f == Top(frames)
           c == BlockEnd
           r == Append(Pop(scopes), Scope(p + 1, {}))
           gs == [frames EXCEPT ![N].rest = Tail(@)]
           jr == IF f.k = "if" THEN jumps
                 ELSE [jumps EXCEPT !.case = p + 1, !.next = Head(Tail(f.rest) \o <<f.merge>>)]
<1>1. /\ phase = "compile" /\ frames # <<>> /\ f.k \in {"if", "case"} /\ f.rest # <<>>
      /\ f = frames[N] /\ f.k # "loop"
  BY DEF NextBlock, AtBlock, Top
<1>2. /\ L \in Nat \ {0} /\ names \in Nat /\ names <= MaxNames /\ temps = {}
      /\ p \in Nat /\ StackOK(scopes, names, p) /\ FramesOK(frames, scopes, names, L)
      /\ JumpsOK(jumps, frames, scopes, p) /\ D \in Nat \ {0} /\ scopes # <<>>
      /\ ScopesOK(scopes)
  BY CompiledFacts
<1>3. PICK e : CodeOK(e, c, frames, scopes, cur) /\ IsClosed(c[cur]) /\ Len(c) = L
  BY <1>1, BlockEnds
<1>4. /\ StackOK(r, names, p + 1) /\ Len(r) = D /\ ScopesOK(r)
      /\ \A k \in 1..(D - 1) : r[k] = scopes[k]
      /\ r[D].id = p + 1 /\ r[D].vs = {} /\ r[D].defers = <<>>
  <2>1. LET s == Append(Pop(scopes), Scope(pushed + 1, {}))
        IN  /\ StackOK(s, names, pushed + 1) /\ Len(s) = Len(scopes)
            /\ \A k \in 1..(Len(scopes) - 1) : s[k] = scopes[k]
            /\ s[Len(scopes)] = Scope(pushed + 1, {})
    BY <1>2, ReplaceTop
  <2> QED
    BY <2>1 DEF StackOK, Scope
<1>5. LET ff == frames[Len(frames)]
          hs == [frames EXCEPT ![Len(frames)].rest = Tail(@)]
      IN  /\ hs \in Seq(FrameRecs) /\ Len(hs) = Len(frames)
          /\ \A i \in 1..(Len(frames) - 1) : hs[i] = frames[i]
          /\ \A i \in 1..Len(frames) :
                /\ hs[i].k = frames[i].k /\ hs[i].gen = frames[i].gen /\ hs[i].old = frames[i].old
                /\ hs[i].merge = frames[i].merge /\ hs[i].body = frames[i].body
                /\ hs[i].incr = frames[i].incr /\ hs[i].clean = frames[i].clean
                /\ hs[i].jumped = frames[i].jumped
                /\ Blocks(hs[i]) /\ Low(frames[i]) <= Low(hs[i])
          /\ Head(ff.rest) = Low(ff) /\ Low(hs[Len(frames)]) = Low(ff) + 1 /\ Low(ff) < ff.merge
          /\ Head(Tail(ff.rest) \o <<ff.merge>>) = Low(hs[Len(frames)])
  <2> DEFINE M == L
             fs == frames
  <2>1. FramesOK(fs, scopes, names, M) /\ M \in Nat /\ fs # <<>>
    BY <1>1, <1>2
  <2>2. fs[Len(fs)].k # "loop" /\ fs[Len(fs)].rest # <<>>
    BY <1>1
  <2> HIDE DEF M, fs
  <2>3. LET ff == fs[Len(fs)]
            hs == [fs EXCEPT ![Len(fs)].rest = Tail(@)]
        IN  /\ hs \in Seq(FrameRecs) /\ Len(hs) = Len(fs)
            /\ \A i \in 1..(Len(fs) - 1) : hs[i] = fs[i]
            /\ \A i \in 1..Len(fs) :
                  /\ hs[i].k = fs[i].k /\ hs[i].gen = fs[i].gen /\ hs[i].old = fs[i].old
                  /\ hs[i].merge = fs[i].merge /\ hs[i].body = fs[i].body
                  /\ hs[i].incr = fs[i].incr /\ hs[i].clean = fs[i].clean
                  /\ hs[i].jumped = fs[i].jumped
                  /\ Blocks(hs[i]) /\ Low(fs[i]) <= Low(hs[i])
            /\ Head(ff.rest) = Low(ff) /\ Low(hs[Len(fs)]) = Low(ff) + 1 /\ Low(ff) < ff.merge
            /\ Head(Tail(ff.rest) \o <<ff.merge>>) = Low(hs[Len(fs)])
    BY ONLY <2>1, <2>2, NextFrame
  <2> QED
    BY <2>3 DEF fs
<1>6. /\ gs \in Seq(FrameRecs) /\ Len(gs) = N /\ \A i \in 1..(N - 1) : gs[i] = frames[i]
      /\ \A i \in 1..N :
            /\ gs[i].k = frames[i].k /\ gs[i].gen = frames[i].gen /\ gs[i].old = frames[i].old
            /\ gs[i].merge = frames[i].merge /\ gs[i].body = frames[i].body
            /\ Blocks(gs[i]) /\ Low(frames[i]) <= Low(gs[i])
      /\ Head(Tail(f.rest) \o <<f.merge>>) = Low(gs[N])
  BY ONLY <1>1, <1>5
<1>7. CodeOK(e, c, gs, r, Head(f.rest))
  <2>1. gs = [frames EXCEPT ![Len(frames)].rest = Tail(@)]
    OBVIOUS
  <2> HIDE DEF gs, r, c
  <2>2. CodeOK(e, c, gs, r, Head(Top(frames).rest))
    BY <1>1, <1>2, <1>3, <1>4, <2>1, CodeNext
  <2> QED
    BY <2>2
<1>8. FramesOK(gs, r, names, L)
  <2>1. /\ \A k \in 1..(D - 1) : r[k].defers = scopes[k].defers
        /\ \A k \in 1..D : r[k].vs \subseteq scopes[k].vs
    <3>1. \A k \in 1..D : k \in 1..(D - 1) \/ k = D
      BY <1>2
    <3> HIDE DEF r
    <3> QED
      BY <1>4, <3>1
  <2> DEFINE M == L
  <2>2. M \in Nat /\ FramesOK(frames, scopes, names, M)
    BY <1>2
  <2> HIDE DEF gs, r, M
  <2>3. FramesOK(gs, r, names, M)
    BY ONLY <1>4, <1>6, <2>1, <2>2, FramesLike DEF D, N
  <2> QED
    BY <2>3 DEF M
<1>9. /\ jr \in JumpRecs /\ jr.entry = jumps.entry /\ jr.exit = jumps.exit
      /\ IF frames[N].k = "case" THEN jr.next = Low(gs[N]) /\ jr.case = p + 1
         ELSE jr.next = jumps.next /\ jr.case = jumps.case
  <2>1. jumps \in JumpRecs
    BY <1>2 DEF JumpsOK
  <2>2. CASE f.k = "if"
    BY <1>1, <2>1, <2>2
  <2>3. CASE f.k = "case"
    <3> DEFINE x == Low(gs[N])
               P == p + 1
    <3>1. x \in Nat
      <4>1. N \in 1..Len(gs) /\ Blocks(gs[N])
        BY <1>1, <1>2, <1>6, TopFrame
      <4>2. gs[N] \in FrameRecs
        BY <1>6, <4>1
      <4>3. 1 < Low(frames[N]) /\ Low(frames[N]) <= Low(gs[N]) /\ Low(frames[N]) \in Nat
        BY <1>1, <1>2, <1>6, <4>1, FrameFacts
      <4>4. gs[N].merge \in Nat /\ Len(gs[N].rest) \in Nat /\ gs[N].test \in Nat
        BY <4>1, <1>6, FrameType
      <4>5. Low(gs[N]) \in Int
        <5> HIDE DEF gs
        <5> QED
          BY <4>4 DEF Low
      <4> QED
        BY <4>3, <4>5
    <3>2. jr = [jumps EXCEPT !.case = P, !.next = x]
      BY <1>6, <2>3
    <3>3. P \in Nat
      BY <1>2
    <3> HIDE DEF x, P, jr
    <3>4. /\ jr \in JumpRecs /\ jr.entry = jumps.entry /\ jr.exit = jumps.exit
          /\ jr.next = x /\ jr.case = P
      BY ONLY <2>1, <3>1, <3>2, <3>3 DEF JumpRecs
    <3> QED
      BY <1>1, <2>3, <3>4 DEF x, P
  <2> QED
    BY <1>1, <2>2, <2>3
<1>10. JumpsOK(jr, gs, r, p + 1)
  <2>1. \A d \in 1..D : scopes[d].id \in Nat /\ scopes[d].id <= p
    <3>1. \A d \in 1..Len(scopes) : scopes[d].id \in Nat
      BY <1>2, ScopeType
    <3> QED
      BY <1>2, <3>1 DEF StackOK
  <2>2. gs[N].k = frames[N].k /\ gs[N].old = frames[N].old
    <3>1. N \in 1..N
      BY <1>1, <1>2, TopFrame
    <3> QED
      BY <1>6, <3>1
  <2> DEFINE fs == frames
             sc == scopes
             jm == jumps
             P == p
  <2>3. /\ FramesOK(fs, sc, names, L) /\ fs # <<>> /\ fs[Len(fs)].k # "loop"
        /\ P \in Nat /\ JumpsOK(jm, fs, sc, P)
    BY <1>1, <1>2
  <2>4. \A d \in 1..Len(sc) : sc[d].id \in Nat /\ sc[d].id <= P
    BY <2>1
  <2>5. /\ Len(gs) = Len(fs) /\ \A k \in 1..(Len(fs) - 1) : gs[k] = fs[k]
    BY <1>6
  <2>6. gs[Len(fs)].k = fs[Len(fs)].k /\ gs[Len(fs)].old = fs[Len(fs)].old
    BY <2>2
  <2>7. /\ jr \in JumpRecs /\ jr.entry = jm.entry /\ jr.exit = jm.exit
    BY <1>9
  <2>8. IF fs[Len(fs)].k = "case" THEN jr.next = Low(gs[Len(fs)]) /\ jr.case = P + 1
        ELSE jr.next = jm.next /\ jr.case = jm.case
    BY <1>9
  <2>9. /\ Len(r) = Len(sc) /\ (\A k \in 1..(Len(sc) - 1) : r[k] = sc[k]) /\ r[Len(sc)].id = P + 1
    BY <1>4
  <2> HIDE DEF gs, r, jr, fs, sc, jm, P, L
  <2>10. JumpsOK(jr, gs, r, P + 1)
    BY ONLY <2>3, <2>4, <2>5, <2>6, <2>7, <2>8, <2>9, JumpsNext
  <2> QED
    BY <2>10 DEF P
<1>11. /\ code' = c /\ scopes' = r /\ pushed' = p + 1 /\ cur' = Head(f.rest) /\ frames' = gs
       /\ jumps' = jr /\ ended' = FALSE /\ UNCHANGED <<phase, stmts, names, rvars>>
  BY DEF NextBlock
<1>12. temps' = {}
  <2>1. Deferments(Top(scopes)) \in Seq(Instrs)
    <3>1. Len(scopes) \in 1..Len(scopes)
      BY <1>2
    <3>2. Deferments(scopes[Len(scopes)]) \in Seq(Plain)
      BY <1>2, <3>1, DefermentsAre
    <3> QED
      BY <3>2, TargetsPlain DEF Top
  <2> QED
    BY <1>2, <2>1, NoTemps DEF NextBlock
<1> HIDE DEF gs, r, jr, c
<1>13. Compiled'
  <2>1. CountInv'
    BY <1>2, <1>11, <1>12 DEF CountInv, Compiled
  <2>2. StackInv' /\ FramesInv' /\ JumpsInv'
    BY <1>3, <1>4, <1>8, <1>10, <1>11 DEF StackInv, FramesInv, JumpsInv
  <2>3. EndedInv'
    BY <1>11 DEF EndedInv
  <2>4. CodeInv'
    BY <1>7, <1>11 DEF CodeInv
  <2> QED
    BY <1>11, <2>1, <2>2, <2>3, <2>4 DEF Compiled, rvars
<1> QED
  BY <1>13

\* The innermost statement is left: its scopes are popped.
LEMMA Popped ==
    ASSUME NEW sc, NEW fs, NEW n, NEW m, FramesOK(fs, sc, n, m), fs # <<>>, ScopesOK(sc)
    PROVE  LET r == IF fs[Len(fs)].k = "loop" THEN Pop(Pop(sc)) ELSE Pop(sc)
           IN  /\ Len(r) = Depth(fs, Len(fs)) /\ \A k \in 1..Len(r) : r[k] = sc[k]
               /\ \A p : StackOK(sc, n, p) => StackOK(r, n, p)
<1> DEFINE D == Len(sc)
           N == Len(fs)
<1>1. sc \in Seq(ScopeRecs) /\ sc # <<>> /\ D \in Nat \ {0}
  BY StackNotEmpty DEF ScopesOK
<1>2. Depth(fs, N) \in Nat \ {0} /\ D = Depth(fs, N) + (IF fs[N].k = "loop" THEN 2 ELSE 1)
  BY TopFrame
<1>3. /\ Pop(sc) \in Seq(ScopeRecs) /\ Len(Pop(sc)) = D - 1
      /\ \A k \in 1..(D - 1) : Pop(sc)[k] = sc[k]
  BY <1>1, PopIs
<1>4. \A p : StackOK(sc, n, p) => StackOK(Pop(sc), n, p)
  BY <1>1, StackPop
<1>5. CASE fs[N].k # "loop"
  BY <1>2, <1>3, <1>4, <1>5
<1>6. CASE fs[N].k = "loop"
  <2> DEFINE s == Pop(sc)
  <2>1. s \in Seq(ScopeRecs) /\ s # <<>> /\ Len(s) = D - 1 /\ D >= 3
    BY <1>2, <1>3, <1>6
  <2>2. \A p : StackOK(s, n, p) => StackOK(Pop(s), n, p)
    <3> HIDE DEF s
    <3> QED
      BY <2>1, StackPop
  <2>3. Len(Pop(s)) = Len(s) - 1 /\ \A k \in 1..(Len(s) - 1) : Pop(s)[k] = s[k]
    <3> HIDE DEF s
    <3> QED
      BY <2>1, PopIs
  <2>4. Len(Pop(s)) = D - 2 /\ \A k \in 1..(D - 2) : Pop(s)[k] = sc[k]
    <3>1. \A k \in 1..(D - 1) : s[k] = sc[k]
      BY <1>3
    <3> HIDE DEF s, D
    <3> QED
      BY <1>1, <2>1, <2>3, <3>1
  <2>5. \A p : StackOK(sc, n, p) => StackOK(Pop(s), n, p)
    BY <1>4, <2>2
  <2> QED
    BY <1>2, <1>6, <2>4, <2>5
<1> QED
  BY <1>5, <1>6

LEMMA EndStatementStep ==
    ASSUME Disciplined, Compiled, EndStatement
    PROVE  Compiled'
<1> DEFINE L == Len(code)
           N == Len(frames)
           f == Top(frames)
           c == BlockEnd
           r == Pop(scopes)
           gs == Pop(frames)
           jr == IF f.k = "if" THEN jumps ELSE [jumps EXCEPT !.next = f.old.next]
<1>1. /\ phase = "compile" /\ frames # <<>> /\ f.k \in {"if", "case"} /\ f.rest = <<>>
      /\ f = frames[N] /\ f.k # "loop"
  BY DEF EndStatement, AtBlock, Top
<1>2. /\ L \in Nat \ {0} /\ names \in Nat /\ temps = {} /\ pushed \in Nat
      /\ StackOK(scopes, names, pushed) /\ FramesOK(frames, scopes, names, L)
      /\ JumpsOK(jumps, frames, scopes, pushed) /\ ScopesOK(scopes) /\ jumps \in JumpRecs
  <2>1. /\ L \in Nat \ {0} /\ names \in Nat /\ temps = {} /\ pushed \in Nat
        /\ StackOK(scopes, names, pushed) /\ FramesOK(frames, scopes, names, L)
        /\ JumpsOK(jumps, frames, scopes, pushed) /\ ScopesOK(scopes)
    BY CompiledFacts
  <2> QED
    BY <2>1 DEF JumpsOK
<1>3. PICK e : CodeOK(e, c, frames, scopes, cur) /\ IsClosed(c[cur]) /\ Len(c) = L
  BY <1>1, BlockEnds
<1>4. /\ Len(r) = Depth(frames, N) /\ \A k \in 1..Len(r) : r[k] = scopes[k]
      /\ StackOK(r, names, pushed)
  <2>1. LET s == IF frames[Len(frames)].k = "loop" THEN Pop(Pop(scopes)) ELSE Pop(scopes)
        IN  /\ Len(s) = Depth(frames, Len(frames)) /\ \A k \in 1..Len(s) : s[k] = scopes[k]
            /\ \A p : StackOK(scopes, names, p) => StackOK(s, names, p)
    BY <1>1, <1>2, Popped
  <2> QED
    BY <1>1, <1>2, <2>1
<1>5. N \in 1..N /\ frames \in Seq(FrameRecs) /\ f.old \in JumpRecs /\ f.merge \in 1..Len(c)
  <2>1. N \in 1..N /\ frames \in Seq(FrameRecs)
    BY <1>1, <1>2, TopFrame
  <2>2. f.old \in JumpRecs
    BY <1>1, <2>1, FrameType
  <2>3. f.merge \in 1..L
    <3> DEFINE M == L
    <3>1. M \in Nat /\ FramesOK(frames, scopes, names, M)
      BY <1>2
    <3> HIDE DEF M
    <3>2. frames[N].merge \in 1..M
      BY <2>1, <3>1, FrameFacts
    <3> QED
      BY <1>1, <3>2 DEF M
  <2> QED
    BY <1>3, <2>1, <2>2, <2>3
<1>6. CodeOK(e, c, gs, r, f.merge)
  <2>1. frames[Len(frames)].k # "loop" /\ frames[Len(frames)].rest = <<>> /\ frames # <<>>
    BY <1>1
  <2>2. FramesOK(frames, scopes, names, Len(c))
    BY <1>2, <1>3
  <2> HIDE DEF r, c
  <2> QED
    BY ONLY <1>3, <1>4, <2>1, <2>2, CodePop DEF gs, f, N
<1>7. FramesOK(gs, r, names, L)
  <2> HIDE DEF r, L
  <2> QED
    BY ONLY <1>1, <1>2, <1>4, FramesPop DEF gs, N
<1>8. /\ jr \in JumpRecs /\ jr.case = jumps.case
      /\ jr.entry = jumps.entry /\ jr.exit = jumps.exit
      /\ jr.next = IF frames[N].k = "case" THEN frames[N].old.next ELSE jumps.next
  <2>1. CASE f.k = "if"
    BY <1>1, <1>2, <2>1
  <2>2. CASE f.k = "case"
    <3> DEFINE x == f.old.next
    <3>1. x \in Nat
      BY <1>5 DEF JumpRecs
    <3>2. jr = [jumps EXCEPT !.next = x]
      BY <2>2
    <3> HIDE DEF x, jr
    <3>3. /\ jr \in JumpRecs /\ jr.case = jumps.case
          /\ jr.entry = jumps.entry /\ jr.exit = jumps.exit /\ jr.next = x
      BY ONLY <1>2, <3>1, <3>2 DEF JumpRecs
    <3> QED
      BY <1>1, <2>2, <3>3 DEF x
  <2> QED
    BY <1>1, <2>1, <2>2
<1>9. JumpsOK(jr, gs, r, pushed)
  <2> DEFINE fs == frames
             sc == scopes
             jm == jumps
             p == pushed
  <2>1. FramesOK(fs, sc, names, L) /\ fs # <<>> /\ JumpsOK(jm, fs, sc, p)
    BY <1>1, <1>2
  <2>2. Len(r) = Depth(fs, Len(fs)) /\ \A k \in 1..Len(r) : r[k] = sc[k]
    BY <1>4
  <2>3. jr \in JumpRecs /\ jr.case = jm.case
    BY <1>8
  <2>4. IF fs[Len(fs)].k = "loop"
        THEN jr.entry = fs[Len(fs)].old.entry /\ jr.exit = fs[Len(fs)].old.exit
        ELSE jr.entry = jm.entry /\ jr.exit = jm.exit
    BY <1>1, <1>8
  <2>5. jr.next = IF fs[Len(fs)].k = "case" THEN fs[Len(fs)].old.next ELSE jm.next
    BY <1>8
  <2> HIDE DEF r, jr, fs, sc, jm, p, L
  <2>6. JumpsOK(jr, Pop(fs), r, p)
    BY ONLY <2>1, <2>2, <2>3, <2>4, <2>5, JumpsPop
  <2> QED
    BY <2>6 DEF fs, p
<1>10. code' = c
  <2>1. c \in Codes
    BY <1>3, CodeFacts
  <2>2. Flush(c, f.merge) = c
    <3> HIDE DEF c
    <3> QED
      BY <1>2, <1>5, <2>1, NoTemps
  <2> QED
    BY <2>2 DEF EndStatement
<1>11. /\ scopes' = r /\ cur' = f.merge /\ frames' = gs /\ jumps' = jr
       /\ ended' = FALSE /\ temps' = {} /\ UNCHANGED <<phase, stmts, names, pushed, rvars>>
  BY DEF EndStatement
<1> HIDE DEF gs, r, jr, c
<1>12. Compiled'
  <2>1. CountInv'
    BY <1>11 DEF CountInv, Compiled
  <2>2. StackInv' /\ FramesInv' /\ JumpsInv'
    BY <1>3, <1>4, <1>7, <1>9, <1>10, <1>11 DEF StackInv, FramesInv, JumpsInv
  <2>3. EndedInv'
    BY <1>11 DEF EndedInv
  <2>4. CodeInv'
    BY <1>6, <1>10, <1>11 DEF CodeInv
  <2> QED
    BY <1>11, <2>1, <2>2, <2>3, <2>4 DEF Compiled, rvars
<1> QED
  BY <1>12

\* The frames gs are fs with loop i marked as left.
Marked(gs, fs, i) ==
    /\ gs \in Seq(FrameRecs) /\ Len(gs) = Len(fs)
    /\ \A j \in 1..Len(fs) : j # i => gs[j] = fs[j]
    /\ gs[i].jumped = TRUE
    /\ \A j \in 1..Len(fs) :
          /\ gs[j].k = fs[j].k /\ gs[j].gen = fs[j].gen /\ gs[j].old = fs[j].old
          /\ gs[j].merge = fs[j].merge /\ gs[j].body = fs[j].body
          /\ gs[j].incr = fs[j].incr /\ gs[j].clean = fs[j].clean
          /\ gs[j].test = fs[j].test /\ gs[j].rest = fs[j].rest
          /\ Low(gs[j]) = Low(fs[j]) /\ PendOf(gs[j]) = PendOf(fs[j])
          /\ Blocks(gs[j]) = Blocks(fs[j])
Settled(gs, i) ==
    /\ Marked(gs, frames, i)
    /\ FramesOK(gs, scopes, names, Len(code))
    /\ \A l \in 1..(Len(frames) + 1) : Depth(gs, l) = Depth(frames, l)
    /\ JumpsOK(jumps, gs, scopes, pushed)
    /\ \E e : CodeOK(e, code, gs, scopes, cur)

LEMMA Settle ==
    ASSUME Compiled, NEW i \in 1..Len(frames), frames[i].k = "loop"
    PROVE  Settled([frames EXCEPT ![i].jumped = TRUE], i)
<1> DEFINE gs == [frames EXCEPT ![i].jumped = TRUE]
           L == Len(code)
<1>1. /\ L \in Nat \ {0} /\ FramesOK(frames, scopes, names, L)
      /\ JumpsOK(jumps, frames, scopes, pushed) /\ ScopesOK(scopes)
  BY CompiledFacts
<1>2. frames \in Seq(FrameRecs)
  BY <1>1 DEF FramesOK
<1>3. Marked(gs, frames, i)
  <2> DEFINE fs == frames
  <2>1. fs \in Seq(FrameRecs) /\ i \in 1..Len(fs)
    BY <1>2
  <2> HIDE DEF fs
  <2>2. LET hs == [fs EXCEPT ![i].jumped = TRUE]
        IN  /\ hs \in Seq(FrameRecs) /\ Len(hs) = Len(fs)
            /\ \A j \in 1..Len(fs) : j # i => hs[j] = fs[j]
            /\ hs[i].jumped = TRUE
            /\ \A j \in 1..Len(fs) :
                  /\ hs[j].k = fs[j].k /\ hs[j].gen = fs[j].gen /\ hs[j].old = fs[j].old
                  /\ hs[j].merge = fs[j].merge /\ hs[j].body = fs[j].body
                  /\ hs[j].incr = fs[j].incr /\ hs[j].clean = fs[j].clean
                  /\ hs[j].test = fs[j].test /\ hs[j].rest = fs[j].rest
                  /\ Low(hs[j]) = Low(fs[j]) /\ PendOf(hs[j]) = PendOf(fs[j])
                  /\ Blocks(hs[j]) = Blocks(fs[j])
    BY ONLY <2>1, JumpedFrame
  <2> QED
    BY <2>2 DEF fs, Marked
<1>4. \E e : CodeOK(e, code, gs, scopes, cur)
  <2>1. PICK e : CodeOK(e, code, frames, scopes, cur)
    BY DEF Compiled, CodeInv
  <2> QED
    BY <1>1, <2>1, CodeSettle
<1> HIDE DEF gs
<1>5. /\ FramesOK(gs, scopes, names, L)
      /\ \A l \in 1..(Len(frames) + 1) : Depth(gs, l) = Depth(frames, l)
  <2> DEFINE M == L
             fs == frames
             sc == scopes
             r == scopes
  <2>1. \A j \in 1..Len(fs) : /\ gs[j].k = fs[j].k /\ gs[j].gen = fs[j].gen
                              /\ gs[j].merge = fs[j].merge /\ gs[j].body = fs[j].body
                              /\ Blocks(gs[j]) /\ Low(fs[j]) <= Low(gs[j])
    <3>1. SUFFICES ASSUME NEW j \in 1..Len(fs)
                   PROVE  Blocks(gs[j]) /\ Low(fs[j]) <= Low(gs[j])
      BY <1>3 DEF Marked
    <3>2. Blocks(fs[j])
      BY <1>1 DEF FramesOK
    <3>3. Low(fs[j]) \in Nat
      <4> DEFINE K == L
      <4>1. K \in Nat /\ FramesOK(frames, scopes, names, K)
        BY <1>1
      <4> HIDE DEF K
      <4> QED
        BY <3>1, <4>1, FrameFacts
    <3> QED
      BY <1>3, <3>2, <3>3 DEF Marked
  <2>2. gs \in Seq(FrameRecs) /\ Len(gs) = Len(fs) /\ M \in Nat /\ FramesOK(fs, sc, names, M)
    BY <1>1, <1>3 DEF Marked
  <2>3. /\ Len(r) = Len(sc) /\ \A k \in 1..(Len(sc) - 1) : r[k].defers = sc[k].defers
        /\ \A k \in 1..Len(sc) : r[k].vs \subseteq sc[k].vs
    OBVIOUS
  <2> HIDE DEF M, fs, sc, r
  <2>4. FramesOK(gs, r, names, M) /\ \A l \in 1..(Len(fs) + 1) : Depth(gs, l) = Depth(fs, l)
    BY ONLY <2>1, <2>2, <2>3, FramesLike
  <2> QED
    BY <2>4 DEF M, fs, r
<1>6. JumpsOK(jumps, gs, scopes, pushed)
  <2> DEFINE fs == frames
             sc == scopes
             r == scopes
             jm == jumps
             p == pushed
  <2>1. \A j \in 1..Len(fs) : /\ gs[j].k = fs[j].k /\ Low(gs[j]) = Low(fs[j])
                              /\ gs[j].incr = fs[j].incr /\ gs[j].clean = fs[j].clean
                              /\ gs[j].old = fs[j].old
    BY <1>3 DEF Marked
  <2>2. Len(gs) = Len(fs) /\ fs \in Seq(FrameRecs) /\ JumpsOK(jm, fs, sc, p)
    BY <1>1, <1>2, <1>3 DEF Marked
  <2>3. Len(r) = Len(sc) /\ \A d \in 1..Len(sc) : r[d].id = sc[d].id
    OBVIOUS
  <2> HIDE DEF fs, sc, r, jm, p
  <2>4. JumpsOK(jm, gs, r, p)
    BY ONLY <2>1, <2>2, <2>3, JumpsLike
  <2> QED
    BY <2>4 DEF jm, r, p
<1> QED
  BY <1>3, <1>4, <1>5, <1>6 DEF Settled, gs

\* The end of a loop, in a predicate: c5 is the code after it.
LoopLeft(e, c, fs, sc, b, n, f, r, c5) ==
    /\ AtLoopEnd(e, c, fs, sc, b, n, f)
    /\ Len(r) = Depth(fs, Len(fs)) /\ \A k \in 1..Len(r) : r[k] = sc[k]
    /\ LET c4 == Put(Filling(c, b, f, sc[Len(sc)]), f.merge, Callbacks(sc[Len(sc) - 1]))
       IN  c5 = IF f.gen = 0 THEN c4 ELSE Put(c4, f.merge, <<Rel(f.gen)>>)

LEMMA CodeEndLoop ==
    ASSUME NEW e, NEW c, NEW fs, NEW sc, NEW b, NEW n, NEW f, NEW r, NEW c5,
           LoopLeft(e, c, fs, sc, b, n, f, r, c5)
    PROVE  CodeOK(e, c5, Pop(fs), r, f.merge) /\ Len(c5) = Len(c)
<1> DEFINE c4 == Put(Filling(c, b, f, sc[Len(sc)]), f.merge, Callbacks(sc[Len(sc) - 1]))
<1>1. /\ AtLoopEnd(e, c, fs, sc, b, n, f)
      /\ Len(r) = Depth(fs, Len(fs)) /\ \A k \in 1..Len(r) : r[k] = sc[k]
      /\ c5 = IF f.gen = 0 THEN c4 ELSE Put(c4, f.merge, <<Rel(f.gen)>>)
  BY DEF LoopLeft
<1>2. c4 = Put(Filling(c, b, f, sc[Len(sc)]), f.merge, Callbacks(sc[Len(sc) - 1]))
  OBVIOUS
<1> HIDE DEF c4
<1> QED
  BY ONLY <1>1, <1>2, LoopEnds

LEMMA EndLoopStep ==
    ASSUME Disciplined, Compiled, EndLoop
    PROVE  Compiled'
<1> DEFINE L == Len(code)
           N == Len(frames)
           D == Len(scopes)
           f == Top(frames)
           fs == [frames EXCEPT ![N].jumped = TRUE]
           h == fs[N]
           r == Pop(Pop(scopes))
           gs == Pop(frames)
           jr == [jumps EXCEPT !.entry = f.old.entry, !.exit = f.old.exit]
           ds == Deferments(Top(scopes))
           c4 == LoopCode(f, Top(Pop(scopes)), Top(scopes))
           c5 == IF f.gen = 0 THEN c4 ELSE Put(c4, f.merge, <<Rel(f.gen)>>)
<1>1. /\ phase = "compile" /\ frames # <<>> /\ f.k = "loop" /\ f = frames[N]
      /\ frames[N].k = "loop"
  BY DEF EndLoop, AtBlock, Top
<1>2. /\ L \in Nat \ {0} /\ names \in Nat /\ temps = {} /\ pushed \in Nat
      /\ StackOK(scopes, names, pushed) /\ FramesOK(frames, scopes, names, L)
      /\ JumpsOK(jumps, frames, scopes, pushed) /\ ScopesOK(scopes) /\ jumps \in JumpRecs
  <2>1. /\ L \in Nat \ {0} /\ names \in Nat /\ temps = {} /\ pushed \in Nat
        /\ StackOK(scopes, names, pushed) /\ FramesOK(frames, scopes, names, L)
        /\ JumpsOK(jumps, frames, scopes, pushed) /\ ScopesOK(scopes)
    BY CompiledFacts
  <2> QED
    BY <2>1 DEF JumpsOK
<1>3. ~ended
  BY <1>1 DEF Compiled, EndedInv
<1>4. N \in 1..N /\ frames \in Seq(FrameRecs) /\ f.old \in JumpRecs /\ N \in Nat \ {0}
  <2>1. N \in 1..N /\ frames \in Seq(FrameRecs) /\ N \in Nat \ {0}
    BY <1>1, <1>2, TopFrame
  <2>2. f.old \in JumpRecs
    BY <1>1, <2>1, FrameType
  <2> QED
    BY <2>1, <2>2
<1>5. Settled(fs, N)
  BY <1>1, <1>4, Settle
<1>6. /\ Len(r) = Depth(frames, N) /\ \A k \in 1..Len(r) : r[k] = scopes[k]
      /\ StackOK(r, names, pushed)
  <2>1. LET s == IF frames[Len(frames)].k = "loop" THEN Pop(Pop(scopes)) ELSE Pop(scopes)
        IN  /\ Len(s) = Depth(frames, Len(frames)) /\ \A k \in 1..Len(s) : s[k] = scopes[k]
            /\ \A p : StackOK(scopes, names, p) => StackOK(s, names, p)
    BY <1>1, <1>2, Popped
  <2> QED
    BY <1>1, <1>2, <2>1
<1>7. /\ Len(fs) = N /\ fs # <<>> /\ h.k = "loop" /\ h.jumped /\ h.merge = f.merge
      /\ h.incr = f.incr /\ h.clean = f.clean /\ h.test = f.test /\ h.gen = f.gen
      /\ \A j \in 1..N : j # N => fs[j] = frames[j]
  <2>1. Marked(fs, frames, N)
    BY <1>5 DEF Settled
  <2> HIDE DEF fs
  <2> QED
    BY <1>1, <1>4, <2>1 DEF Marked
<1>8. Pop(fs) = gs
  <2>1. fs \in Seq(FrameRecs)
    BY <1>5 DEF Settled, Marked
  <2> HIDE DEF fs
  <2>2. Pop(fs) = SubSeq(fs, 1, N - 1) /\ gs = SubSeq(frames, 1, N - 1)
    BY <1>7 DEF Pop
  <2>3. \A j \in 1..(N - 1) : fs[j] = frames[j]
    BY <1>4, <1>7
  <2>4. /\ Pop(fs) \in Seq(FrameRecs) /\ Len(Pop(fs)) = N - 1
        /\ \A k \in 1..(N - 1) : Pop(fs)[k] = fs[k]
    BY <1>7, <2>1, PopIs
  <2>5. /\ gs \in Seq(FrameRecs) /\ Len(gs) = N - 1
        /\ \A k \in 1..(N - 1) : gs[k] = frames[k]
    BY <1>1, <1>4, PopIs
  <2> DEFINE s == Pop(fs)
  <2> HIDE DEF s, gs
  <2>6. s \in Seq(FrameRecs) /\ Len(s) = Len(gs) /\ \A k \in 1..Len(gs) : s[k] = gs[k]
    BY <1>4, <2>3, <2>4, <2>5 DEF s
  <2>7. s = gs
    BY <2>5, <2>6
  <2> QED
    BY <2>7 DEF s
<1>9. D \in Nat /\ D - 1 \in Nat /\ Top(scopes) = scopes[D] /\ Top(Pop(scopes)) = scopes[D - 1]
  <2>1. D \in Nat /\ D >= 3
    <3>1. Depth(frames, N) \in Nat \ {0} /\ D = Depth(frames, N) + 2 /\ D \in Nat
      BY <1>1, <1>2, TopFrame
    <3> QED
      BY <3>1
  <2>2. scopes \in Seq(ScopeRecs) /\ scopes # <<>>
    BY <1>2, <2>1 DEF ScopesOK
  <2>3. Len(Pop(scopes)) = D - 1 /\ \A k \in 1..(D - 1) : Pop(scopes)[k] = scopes[k]
    BY <2>2, PopIs
  <2> QED
    BY <2>1, <2>3 DEF Top
<1>10. c4 = Put(Filling(code, cur, h, scopes[D]), h.merge, Callbacks(scopes[D - 1]))
  <2>1. ds \in Seq(Instrs)
    <3>1. Len(scopes) \in 1..Len(scopes)
      BY <1>2, StackNotEmpty
    <3>2. Deferments(scopes[Len(scopes)]) \in Seq(Plain)
      BY <1>2, <3>1, DefermentsAre
    <3> QED
      BY <3>2, TargetsPlain DEF Top
  <2>2. Emitted(ds) = ds
    BY <1>2, <2>1, NoTemps
  <2> HIDE DEF fs
  <2> QED
    BY <1>7, <1>9, <2>2 DEF LoopCode, Filling
<1>11. PICK e : CodeOK(e, code, fs, scopes, cur)
  BY <1>5 DEF Settled
<1>12. CodeOK(e, c5, gs, r, f.merge) /\ Len(c5) = L
  <2>1. AtLoopEnd(e, code, fs, scopes, cur, names, h)
    <3>1. FramesOK(fs, scopes, names, L)
      BY <1>5 DEF Settled
    <3> HIDE DEF fs
    <3> QED
      BY <1>2, <1>7, <1>11, <3>1 DEF AtLoopEnd
  <2>2. Len(r) = Depth(fs, Len(fs)) /\ \A k \in 1..Len(r) : r[k] = scopes[k]
    <3>1. Depth(fs, N) = Depth(frames, N)
      <4>1. \A l \in 1..(N + 1) : Depth(fs, l) = Depth(frames, l)
        BY <1>5 DEF Settled
      <4>2. N \in 1..(N + 1)
        BY <1>4
      <4> HIDE DEF fs
      <4> QED
        BY <4>1, <4>2
    <3> QED
      BY <1>6, <1>7, <3>1
  <2>3. c5 = IF h.gen = 0 THEN c4 ELSE Put(c4, h.merge, <<Rel(h.gen)>>)
    BY <1>7
  <2> HIDE DEF fs, h, r, c4, c5
  <2>4. LoopLeft(e, code, fs, scopes, cur, names, h, r, c5)
    BY <1>10, <2>1, <2>2, <2>3 DEF LoopLeft
  <2>5. CodeOK(e, c5, Pop(fs), r, h.merge) /\ Len(c5) = L
    BY ONLY <2>4, CodeEndLoop DEF L
  <2> QED
    BY <1>7, <1>8, <2>5 DEF h
<1>13. FramesOK(gs, r, names, L)
  <2> HIDE DEF r, L
  <2> QED
    BY ONLY <1>1, <1>2, <1>6, FramesPop DEF gs, N
<1>14. /\ jr \in JumpRecs /\ jr.case = jumps.case /\ jr.next = jumps.next
       /\ jr.entry = f.old.entry /\ jr.exit = f.old.exit
  <2> DEFINE x == f.old.entry
             y == f.old.exit
  <2>1. x \in Nat /\ y \in Nat
    BY <1>4 DEF JumpRecs
  <2>2. jr = [jumps EXCEPT !.entry = x, !.exit = y]
    OBVIOUS
  <2> HIDE DEF x, y, jr
  <2>3. /\ jr \in JumpRecs /\ jr.case = jumps.case /\ jr.next = jumps.next
        /\ jr.entry = x /\ jr.exit = y
    BY ONLY <1>2, <2>1, <2>2 DEF JumpRecs
  <2> QED
    BY <2>3 DEF x, y
<1>15. JumpsOK(jr, gs, r, pushed)
  <2> DEFINE ff == frames
             sc == scopes
             jm == jumps
             p == pushed
  <2>1. FramesOK(ff, sc, names, L) /\ ff # <<>> /\ JumpsOK(jm, ff, sc, p)
    BY <1>1, <1>2
  <2>2. Len(r) = Depth(ff, Len(ff)) /\ \A k \in 1..Len(r) : r[k] = sc[k]
    BY <1>6
  <2>3. jr \in JumpRecs /\ jr.case = jm.case
    BY <1>14
  <2>4. IF ff[Len(ff)].k = "loop"
        THEN jr.entry = ff[Len(ff)].old.entry /\ jr.exit = ff[Len(ff)].old.exit
        ELSE jr.entry = jm.entry /\ jr.exit = jm.exit
    BY <1>1, <1>14
  <2>5. jr.next = IF ff[Len(ff)].k = "case" THEN ff[Len(ff)].old.next ELSE jm.next
    BY <1>1, <1>14
  <2> HIDE DEF r, jr, ff, sc, jm, p, L
  <2>6. JumpsOK(jr, Pop(ff), r, p)
    BY ONLY <2>1, <2>2, <2>3, <2>4, <2>5, JumpsPop
  <2> QED
    BY <2>6 DEF ff, p
<1>16. code' = c5
  <2> DEFINE left == IF ended THEN <<>> ELSE Deferments(Top(scopes))
  <2>1. code' = IF left = <<>> THEN Flush(c5, f.merge) ELSE c5
    BY <1>3 DEF EndLoop
  <2>2. Flush(c5, f.merge) = c5
    <3>1. c5 \in Codes /\ f.merge \in 1..Len(c5)
      BY <1>12, CodeFacts
    <3> HIDE DEF c5
    <3> QED
      BY <1>2, <3>1, NoTemps
  <2> QED
    BY <2>1, <2>2
<1>17. /\ scopes' = r /\ cur' = f.merge /\ frames' = gs /\ jumps' = jr
       /\ ended' = FALSE /\ temps' = {} /\ UNCHANGED <<phase, stmts, names, pushed, rvars>>
  BY <1>3 DEF EndLoop
<1> HIDE DEF gs, r, jr, c5
<1>18. Compiled'
  <2>1. CountInv'
    BY <1>17 DEF CountInv, Compiled
  <2>2. StackInv' /\ FramesInv' /\ JumpsInv'
    BY <1>6, <1>12, <1>13, <1>15, <1>16, <1>17 DEF StackInv, FramesInv, JumpsInv
  <2>3. EndedInv'
    BY <1>17 DEF EndedInv
  <2>4. CodeInv'
    BY <1>12, <1>16, <1>17 DEF CodeInv
  <2> QED
    BY <1>17, <2>1, <2>2, <2>3, <2>4 DEF Compiled, rvars
<1> QED
  BY <1>18

-----------------------------------------------------------------------------
(* Jumps.                                                                   *)

LEMMA Greatest ==
    ASSUME NEW n \in Nat, NEW T, T \subseteq 1..n, T # {}
    PROVE  \E i \in T : \A j \in T : j <= i
<1> DEFINE P(m) == \A U : U \subseteq 1..m /\ U # {} => \E i \in U : \A j \in U : j <= i
           S == {m \in Nat : P(m)}
<1>1. 0 \in S
  <2>1. \A U : U \subseteq 1..0 => U = {}
    OBVIOUS
  <2> QED
    BY <2>1
<1>2. ASSUME NEW m \in S PROVE m + 1 \in S
  <2>1. m \in Nat /\ P(m)
    OBVIOUS
  <2>2. ASSUME NEW U, U \subseteq 1..(m + 1), U # {}
        PROVE  \E i \in U : \A j \in U : j <= i
    <3>1. CASE m + 1 \in U
      BY <2>1, <2>2, <3>1
    <3>2. CASE m + 1 \notin U
      <4>1. U \subseteq 1..m
        <5>1. \A j \in 1..(m + 1) : j = m + 1 \/ j \in 1..m
          BY <2>1
        <5> QED
          BY <2>2, <3>2, <5>1
      <4> QED
        BY <2>1, <2>2, <4>1
    <3> QED
      BY <3>1, <3>2
  <2>3. P(m + 1) /\ m + 1 \in Nat
    BY <2>1, <2>2
  <2> HIDE DEF P
  <2> QED
    BY <2>3
<1>3. S = Nat
  <2> HIDE DEF P
  <2>1. S \in SUBSET Nat /\ \A m \in S : m + 1 \in S
    BY <1>2
  <2> HIDE DEF S
  <2> QED
    BY <1>1, <2>1, Induction
<1>4. P(n)
  BY <1>3
<1> QED
  BY <1>4

\* The innermost loop and the innermost switch.
LEMMA InnerLoop ==
    ASSUME Compiled, Loops # {}
    PROVE  InLoop \in 1..Len(frames) /\ Innermost(frames, "loop", Len(frames) + 1, InLoop)
<1>1. Len(frames) \in Nat
  BY CompiledFacts DEF FramesOK
<1>2. \E i \in Loops : \A j \in Loops : j <= i
  <2>1. Loops \subseteq 1..Len(frames)
    BY DEF Loops
  <2> QED
    BY <1>1, <2>1, Greatest
<1>3. InLoop \in Loops /\ \A j \in Loops : j <= InLoop
  BY <1>2 DEF InLoop
<1> DEFINE i == InLoop
<1> HIDE DEF i
<1>4. i \in Loops /\ \A j \in Loops : j <= i
  BY <1>3 DEF i
<1>5. i \in 1..Len(frames) /\ frames[i].k = "loop"
  BY <1>4 DEF Loops
<1>6. \A m \in (i + 1)..((Len(frames) + 1) - 1) : m \in 1..Len(frames) /\ m > i
  BY <1>1, <1>5
<1>7. \A m \in (i + 1)..((Len(frames) + 1) - 1) : m \notin Loops
  BY <1>1, <1>4, <1>5, <1>6
<1> QED
  BY <1>5, <1>6, <1>7 DEF Innermost, Loops, i

LEMMA InnerCase ==
    ASSUME Compiled, Cases # {}
    PROVE  InCase \in 1..Len(frames) /\ Innermost(frames, "case", Len(frames) + 1, InCase)
<1>1. Len(frames) \in Nat
  BY CompiledFacts DEF FramesOK
<1>2. \E i \in Cases : \A j \in Cases : j <= i
  <2>1. Cases \subseteq 1..Len(frames)
    BY DEF Cases
  <2> QED
    BY <1>1, <2>1, Greatest
<1>3. InCase \in Cases /\ \A j \in Cases : j <= InCase
  BY <1>2 DEF InCase
<1> DEFINE i == InCase
<1> HIDE DEF i
<1>4. i \in Cases /\ \A j \in Cases : j <= i
  BY <1>3 DEF i
<1>5. i \in 1..Len(frames) /\ frames[i].k = "case"
  BY <1>4 DEF Cases
<1>6. \A m \in (i + 1)..((Len(frames) + 1) - 1) : m \in 1..Len(frames) /\ m > i
  BY <1>1, <1>5
<1>7. \A m \in (i + 1)..((Len(frames) + 1) - 1) : m \notin Cases
  BY <1>1, <1>4, <1>5, <1>6
<1> QED
  BY <1>5, <1>6, <1>7 DEF Innermost, Cases, i

\* Frames without a generator and scopes that hold nothing change nothing.
LEMMA GensFrom ==
    ASSUME NEW fs, NEW i \in Nat \ {0}, NEW n \in Nat, i <= n + 1,
           \A j \in i..n : fs[j].gen = 0
    PROVE  Gens(fs, n + 1) = Gens(fs, i)
<1>1. \A j \in 1..((n + 1) - 1) : j \in 1..(i - 1) \/ j \in i..n
  OBVIOUS
<1>2. \A j \in 1..(i - 1) : j \in 1..((n + 1) - 1)
  OBVIOUS
<1> QED
  BY <1>1, <1>2 DEF Gens

LEMMA VsFrom ==
    ASSUME NEW sc, NEW c \in Nat, NEW d \in Nat, c <= d, \A k \in (c + 1)..d : sc[k].vs = {}
    PROVE  Vs(sc, d) = Vs(sc, c)
<1>1. \A k \in 1..d : k \in 1..c \/ k \in (c + 1)..d
  OBVIOUS
<1>2. \A k \in 1..c : k \in 1..d
  OBVIOUS
<1> QED
  BY <1>1, <1>2 DEF Vs

LEMMA DsFrom ==
    ASSUME NEW sc, NEW c \in Nat, NEW d \in Nat, c <= d,
           \A k \in (c + 1)..d : sc[k].defers = <<>>
    PROVE  Ds(sc, d) = Ds(sc, c)
<1>1. \A k \in 1..d : k \in 1..c \/ k \in (c + 1)..d
  OBVIOUS
<1>2. \A k \in 1..c : k \in 1..d
  OBVIOUS
<1>3. DOMAIN <<>> = {}
  OBVIOUS
<1>4. \A x \in Names : (\E k \in 1..d : \E i \in DOMAIN sc[k].defers : sc[k].defers[i].x = x)
                       <=> (\E k \in 1..c : \E i \in DOMAIN sc[k].defers : sc[k].defers[i].x = x)
  BY <1>1, <1>2, <1>3
<1> QED
  BY <1>4 DEF Ds

\* A jump that leaves the code in order, and no loop's body directly.
LEMMA JumpStep ==
    ASSUME Disciplined, Compiled, NEW gs,
           \/ gs = frames
           \/ \E i \in 1..Len(frames) : Settled(gs, i),
           NEW ds \in Seq(Plain), NEW rest, Jump(ds, rest), frames' = gs,
           \E e : CodeOK(e, Put(code, cur, ds \o rest), gs, scopes, cur),
           IsClosed(Put(code, cur, ds \o rest)[cur])
    PROVE  Compiled'
<1> DEFINE c == Put(code, cur, ds \o rest)
<1>1. /\ MaxStmts \in Nat /\ stmts \in Nat /\ temps = {} /\ code \in Codes /\ cur \in 1..Len(code)
      /\ FramesOK(frames, scopes, names, Len(code)) /\ JumpsOK(jumps, frames, scopes, pushed)
  BY CompiledFacts
<1>2. Len(c) = Len(code)
  BY <1>1 DEF Put, Codes
<1>3. Emitted(ds) = ds /\ temps' = {}
  <2>1. FlushedBy(ds)
    BY DEF Jump
  <2>2. ds \in Seq(Instrs)
    BY TargetsPlain
  <2> QED
    BY <1>1, <2>1, <2>2, NoTemps
<1>4. code' = c
  BY <1>3 DEF Jump
<1>5. /\ Compiling /\ ended' = TRUE /\ stmts' = stmts + 1 /\ ~AtLoopBody
      /\ UNCHANGED <<phase, names, pushed, scopes, jumps, cur, rvars>>
  BY DEF Jump, Disciplined
<1>6. FramesOK(gs, scopes, names, Len(code)) /\ JumpsOK(jumps, gs, scopes, pushed)
      /\ (gs # <<>> => Top(gs).k # "loop")
  <2>1. CASE gs = frames
    BY <1>1, <1>5, <2>1 DEF AtLoopBody
  <2>2. ASSUME NEW i \in 1..Len(frames), Settled(gs, i)
        PROVE  FramesOK(gs, scopes, names, Len(code)) /\ JumpsOK(jumps, gs, scopes, pushed)
               /\ Top(gs).k # "loop"
    <3>1. Marked(gs, frames, i)
      BY <2>2 DEF Settled
    <3>2. frames # <<>>
      BY <2>2
    <3>3. Len(frames) \in 1..Len(frames) /\ Top(frames) = frames[Len(frames)]
      BY <1>1, <3>2, TopFrame
    <3>4. Top(gs).k = Top(frames).k
      BY <3>1, <3>3 DEF Marked, Top
    <3> QED
      BY <1>5, <2>2, <3>2, <3>4 DEF Settled, AtLoopBody
  <2> QED
    BY <2>1, <2>2
<1> HIDE DEF c
<1>7. CountInv'
  BY <1>1, <1>3, <1>5 DEF CountInv, Compiling, Compiled
<1>8. StackInv' /\ FramesInv' /\ JumpsInv'
  BY <1>2, <1>4, <1>5, <1>6 DEF StackInv, FramesInv, JumpsInv, Compiled
<1>9. EndedInv'
  BY <1>4, <1>5, <1>6 DEF EndedInv, c
<1>10. CodeInv'
  BY <1>4, <1>5 DEF CodeInv, c
<1> QED
  BY <1>5, <1>7, <1>8, <1>9, <1>10 DEF Compiled, rvars

\* The code js before a jump to block m of frame i.
JumpsTo(e, c, fs, sc, b, n, js, i, m) ==
    /\ CodeOK(e, c, fs, sc, b) /\ FramesOK(fs, sc, n, Len(c))
    /\ js \in Seq(Plain) /\ i \in 1..Len(fs) /\ m \in Used(fs[i])
    /\ fs[i].k = "loop" => fs[i].jumped
    /\ Leads(e, js, Here(sc, fs), e[m])
Jumped(e, c, fs, sc, b, c2) == CodeOK(e, c2, fs, sc, b) /\ IsClosed(c2[b])

LEMMA CodeJump ==
    ASSUME NEW e, NEW c, NEW fs, NEW sc, NEW b, NEW n, NEW js, NEW i, NEW m,
           JumpsTo(e, c, fs, sc, b, n, js, i, m)
    PROVE  Jumped(e, c, fs, sc, b, Put(c, b, js \o <<Goto({m})>>))
<1> DEFINE L == Len(c)
           t == e[m]
           ins == Goto({m})
<1>1. /\ CodeOK(e, c, fs, sc, b) /\ FramesOK(fs, sc, n, L) /\ js \in Seq(Plain)
      /\ i \in 1..Len(fs) /\ m \in Used(fs[i]) /\ (fs[i].k = "loop" => fs[i].jumped)
      /\ Leads(e, js, Here(sc, fs), t)
  BY DEF JumpsTo
<1>2. L \in Nat
  BY <1>1, CodeFacts
<1> HIDE DEF L
<1>3. Used(fs[i]) \subseteq 2..L
  BY <1>1, <1>2, FrameFacts
<1>4. m \in 1..L
  BY <1>1, <1>2, <1>3
<1>5. ins \in Instrs /\ ins.op = "goto" /\ ins.to = {m}
  <2>1. {m} \in SUBSET Nat
    BY <1>4
  <2> QED
    BY <2>1, GotoIs
<1> HIDE DEF ins
<1>6. ASSUME NEW j \in 1..Len(fs), fs[j].k = "loop", ~fs[j].jumped
      PROVE  fs[j].incr \notin ins.to /\ fs[j].clean \notin ins.to
  <2>1. j # i
    BY <1>1, <1>6
  <2>2. Used(fs[j]) \cap Used(fs[i]) = {}
    BY <1>1, <1>2, <2>1, UsedApart
  <2>3. fs[j].incr \in Used(fs[j]) /\ fs[j].clean \in Used(fs[j])
    BY <1>6 DEF Used
  <2> QED
    BY <1>1, <1>5, <2>2, <2>3
<1>7. \A j \in 1..Len(fs) : fs[j].k = "loop" /\ ~fs[j].jumped =>
              fs[j].incr \notin ins.to /\ fs[j].clean \notin ins.to
  BY <1>6
<1>8. ins.op = "goto" /\ \A l \in ins.to : l \in 1..Len(c) /\ e[l] = t
  BY <1>4, <1>5 DEF L
<1>9. ins.op \in {"goto", "ret"}
  BY <1>5
<1> HIDE DEF t
<1>10. /\ CodeOK(e, Put(c, b, js \o <<ins>>), fs, sc, b)
       /\ IsClosed(Put(c, b, js \o <<ins>>)[b])
  BY ONLY <1>1, <1>5, <1>7, <1>8, <1>9, CodeLeave
<1> QED
  BY <1>10 DEF Jumped, ins

\* The scope of frame i is where the walk to its address stops.
LEMMA StopsAt ==
    ASSUME StackOK(scopes, names, pushed), NEW d \in 1..Len(scopes)
    PROVE  Stops(scopes[d].id) = {d}
<1>1. \A k \in 1..Len(scopes) : scopes[k].id = scopes[d].id => k = d
  BY DEF StackOK
<1>2. {k \in 1..Len(scopes) : scopes[k].id = scopes[d].id} = {d}
  BY <1>1
<1> QED
  BY <1>2 DEF Stops

LEMMA BreakStep ==
    ASSUME Disciplined, Compiled, Break
    PROVE  Compiled'
<1> DEFINE i == InLoop
           N == Len(frames)
           D == Len(scopes)
           q == Depth(frames, i)
           gs == [frames EXCEPT ![i].jumped = TRUE]
           js == DefermentsThrough(q + 1)
<1>1. LeavesLoop /\ Loops # {} /\ frames' = gs /\ \A d \in Inside : scopes[d].vs = {}
  BY DEF Break, LeavesLoop, Disciplined
<1>2. i \in 1..N /\ Innermost(frames, "loop", N + 1, i) /\ frames[i].k = "loop"
  BY <1>1, InnerLoop DEF Innermost
<1> HIDE DEF i
<1>3. /\ StackOK(scopes, names, pushed) /\ FramesOK(frames, scopes, names, Len(code))
      /\ JumpsOK(jumps, frames, scopes, pushed) /\ ScopesOK(scopes) /\ D \in Nat \ {0}
      /\ Len(code) \in Nat
  BY CompiledFacts
<1>4. q \in Nat /\ q >= 1 /\ q + 2 <= D /\ N \in Nat
  BY <1>2, <1>3, DepthsFit
<1>5. frames[i].body = q + 2
  BY <1>2, <1>3 DEF FramesOK
<1>6. jumps.exit = frames[i].clean
  <2>1. LoopJumps(jumps, frames, N + 1) /\ i \in 1..((N + 1) - 1)
    BY <1>2, <1>3, <1>4 DEF JumpsOK
  <2> QED
    BY <1>2, <2>1 DEF LoopJumps
<1>7. Jump(js, <<Goto({jumps.exit})>>)
  <2>1. jumps.loop = scopes[frames[i].body - 1].id
    BY DEF Break, Disciplined, i
  <2>2. jumps.loop = scopes[q + 1].id /\ q + 1 \in 1..Len(scopes)
    <3>1. (q + 2) - 1 = q + 1
      BY <1>4
    <3> QED
      BY <1>4, <1>5, <2>1, <3>1
  <2>3. Stops(jumps.loop) = {q + 1}
    BY <1>3, <2>2, StopsAt
  <2> QED
    BY <2>3 DEF Break
<1>8. Settled(gs, i)
  BY <1>2, Settle
<1> HIDE DEF gs
<1>9. /\ Len(gs) = N /\ gs[i].k = "loop" /\ gs[i].jumped = TRUE /\ gs[i].clean = frames[i].clean
      /\ FramesOK(gs, scopes, names, Len(code)) /\ Depth(gs, i) = q
      /\ \A j \in 1..N : gs[j].k = frames[j].k /\ gs[j].gen = frames[j].gen
  <2>1. Marked(gs, frames, i) /\ FramesOK(gs, scopes, names, Len(code))
        /\ \A l \in 1..(N + 1) : Depth(gs, l) = Depth(frames, l)
    BY <1>8 DEF Settled
  <2>2. i \in 1..(N + 1)
    BY <1>2, <1>4
  <2> QED
    BY <1>2, <2>1, <2>2 DEF Marked
<1>10. PICK e : CodeOK(e, code, gs, scopes, cur)
  BY <1>8 DEF Settled
<1>11. e[jumps.exit] = Cleaned(scopes, gs, i)
  <2>1. Expect(e, scopes, gs, i)
    BY <1>2, <1>9, <1>10 DEF CodeOK
  <2> QED
    BY <1>6, <1>9, <2>1 DEF Expect
<1> DEFINE o == Vs(scopes, D) \cup Gens(gs, N + 1)
<1>12. Here(scopes, gs) = State(o, Ds(scopes, D))
  BY <1>9, HereIs
<1>13. Cleaned(scopes, gs, i) = State(o, Ds(scopes, q))
  <2>1. Vs(scopes, D) = Vs(scopes, q + 2)
    <3>1. \A k \in ((q + 2) + 1)..D : scopes[k].vs = {}
      BY <1>1, <1>5 DEF Inside, i
    <3> QED
      BY <1>4, <3>1, VsFrom
  <2>2. Gens(gs, N + 1) = Gens(gs, i + 1)
    <3>1. \A j \in (i + 1)..N : gs[j].gen = 0
      <4>1. ASSUME NEW j \in (i + 1)..N PROVE gs[j].gen = 0
        <5>1. j \in 1..N /\ j \in (i + 1)..((N + 1) - 1)
          BY <1>2, <1>4
        <5>2. frames[j].k # "loop"
          BY <1>2, <5>1 DEF Innermost
        <5> QED
          BY <1>9, <5>1, <5>2 DEF FramesOK
      <4> QED
        BY <4>1
    <3>2. i + 1 \in Nat \ {0} /\ i + 1 <= N + 1
      BY <1>2, <1>4
    <3> QED
      BY <1>4, <3>1, <3>2, GensFrom
  <2> QED
    BY <1>9, <2>1, <2>2 DEF Cleaned
<1>14. js \in Seq(Plain) /\ Leads(e, js, Here(scopes, gs), e[jumps.exit])
  <2>1. o \in SUBSET Names
    <3>1. D \in 0..Len(scopes) /\ N + 1 \in 1..(Len(gs) + 1)
      BY <1>3, <1>4, <1>9
    <3> QED
      BY <1>3, <1>9, <3>1, AtType
  <2>2. q + 1 \in 1..Len(scopes) /\ (q + 1) - 1 = q
    BY <1>4
  <2>3. Vs(scopes, Len(scopes)) \subseteq o
    OBVIOUS
  <2> HIDE DEF o
  <2>4. /\ DefermentsThrough(q + 1) \in Seq(Plain)
        /\ Leads(e, DefermentsThrough(q + 1), State(o, Ds(scopes, Len(scopes))),
                    State(o, Ds(scopes, (q + 1) - 1)))
    BY <1>3, <2>1, <2>2, <2>3, DefermentsWalk
  <2> QED
    BY <1>11, <1>12, <1>13, <2>2, <2>4
<1> HIDE DEF js, o
<1>15. Jumped(e, code, gs, scopes, cur, Put(code, cur, js \o <<Goto({jumps.exit})>>))
  <2>1. jumps.exit \in Used(gs[i])
    BY <1>6, <1>9 DEF Used
  <2>2. JumpsTo(e, code, gs, scopes, cur, names, js, i, jumps.exit)
    BY <1>2, <1>9, <1>10, <1>14, <2>1 DEF JumpsTo
  <2> QED
    BY ONLY <2>2, CodeJump
<1> DEFINE rest == <<Goto({jumps.exit})>>
<1>16. /\ \E d : CodeOK(d, Put(code, cur, js \o rest), gs, scopes, cur)
       /\ IsClosed(Put(code, cur, js \o rest)[cur]) /\ Jump(js, rest)
  BY <1>7, <1>15 DEF Jumped
<1>17. \E j \in 1..Len(frames) : Settled(gs, j)
  BY <1>2, <1>8
<1> HIDE DEF rest
<1> QED
  BY <1>1, <1>14, <1>16, <1>17, JumpStep

LEMMA ContinueStep ==
    ASSUME Disciplined, Compiled, Continue
    PROVE  Compiled'
<1> DEFINE i == InLoop
           N == Len(frames)
           D == Len(scopes)
           q == Depth(frames, i)
           gs == [frames EXCEPT ![i].jumped = TRUE]
           js == <<>>
<1>1. /\ LeavesLoop /\ Loops # {} /\ frames' = gs
      /\ \A d \in Inside : scopes[d].vs = {} /\ scopes[d].defers = <<>>
      /\ Jump(js, <<Goto({jumps.entry})>>)
  BY DEF Continue, LeavesLoop, Disciplined
<1>2. i \in 1..N /\ Innermost(frames, "loop", N + 1, i) /\ frames[i].k = "loop"
  BY <1>1, InnerLoop DEF Innermost
<1> HIDE DEF i
<1>3. /\ StackOK(scopes, names, pushed) /\ FramesOK(frames, scopes, names, Len(code))
      /\ JumpsOK(jumps, frames, scopes, pushed) /\ ScopesOK(scopes) /\ D \in Nat \ {0}
      /\ Len(code) \in Nat
  BY CompiledFacts
<1>4. q \in Nat /\ q >= 1 /\ q + 2 <= D /\ N \in Nat
  BY <1>2, <1>3, DepthsFit
<1>5. frames[i].body = q + 2
  BY <1>2, <1>3 DEF FramesOK
<1>6. jumps.entry = frames[i].incr
  <2>1. LoopJumps(jumps, frames, N + 1) /\ i \in 1..((N + 1) - 1)
    BY <1>2, <1>3, <1>4 DEF JumpsOK
  <2> QED
    BY <1>2, <2>1 DEF LoopJumps
<1>8. Settled(gs, i)
  BY <1>2, Settle
<1> HIDE DEF gs
<1>9. /\ Len(gs) = N /\ gs[i].k = "loop" /\ gs[i].jumped = TRUE /\ gs[i].incr = frames[i].incr
      /\ FramesOK(gs, scopes, names, Len(code)) /\ Depth(gs, i) = q
      /\ \A j \in 1..N : gs[j].k = frames[j].k /\ gs[j].gen = frames[j].gen
  <2>1. Marked(gs, frames, i) /\ FramesOK(gs, scopes, names, Len(code))
        /\ \A l \in 1..(N + 1) : Depth(gs, l) = Depth(frames, l)
    BY <1>8 DEF Settled
  <2>2. i \in 1..(N + 1)
    BY <1>2, <1>4
  <2> QED
    BY <1>2, <2>1, <2>2 DEF Marked
<1>10. PICK e : CodeOK(e, code, gs, scopes, cur)
  BY <1>8 DEF Settled
<1>11. e[jumps.entry] = Around(scopes, gs, i + 1)
  <2>1. Expect(e, scopes, gs, i)
    BY <1>2, <1>9, <1>10 DEF CodeOK
  <2> QED
    BY <1>6, <1>9, <2>1 DEF Expect
<1>12. Here(scopes, gs) = State(Vs(scopes, D) \cup Gens(gs, N + 1), Ds(scopes, D))
  BY <1>9, HereIs
<1>13. Around(scopes, gs, i + 1) = Here(scopes, gs)
  <2>1. \A k \in ((q + 2) + 1)..D : scopes[k].vs = {} /\ scopes[k].defers = <<>>
    BY <1>1, <1>5 DEF Inside, i
  <2>2. Vs(scopes, D) = Vs(scopes, q + 2)
    BY <1>4, <2>1, VsFrom
  <2>3. Ds(scopes, D) = Ds(scopes, q + 2)
    BY <1>4, <2>1, DsFrom
  <2>4. Gens(gs, N + 1) = Gens(gs, i + 1)
    <3>1. \A j \in (i + 1)..N : gs[j].gen = 0
      <4>1. ASSUME NEW j \in (i + 1)..N PROVE gs[j].gen = 0
        <5>1. j \in 1..N /\ j \in (i + 1)..((N + 1) - 1)
          BY <1>2, <1>4
        <5>2. frames[j].k # "loop"
          BY <1>2, <5>1 DEF Innermost
        <5> QED
          BY <1>9, <5>1, <5>2 DEF FramesOK
      <4> QED
        BY <4>1
    <3>2. i + 1 \in Nat \ {0} /\ i + 1 <= N + 1
      BY <1>2, <1>4
    <3> QED
      BY <1>4, <3>1, <3>2, GensFrom
  <2>5. Depth(gs, i + 1) = q + 2
    <3>1. i \in Nat \ {0}
      BY <1>2
    <3> QED
      BY <1>9, <3>1, DepthNext
  <2> QED
    BY <1>12, <2>2, <2>3, <2>4, <2>5 DEF Around, At
<1>14. js \in Seq(Plain) /\ Leads(e, js, Here(scopes, gs), e[jumps.entry])
  <2>1. Here(scopes, gs) \in States
    BY <1>10, CodeFacts
  <2> QED
    BY <1>11, <1>13, <2>1, LeadsNothing
<1> HIDE DEF js
<1>15. Jumped(e, code, gs, scopes, cur, Put(code, cur, js \o <<Goto({jumps.entry})>>))
  <2>1. jumps.entry \in Used(gs[i])
    BY <1>6, <1>9 DEF Used
  <2>2. JumpsTo(e, code, gs, scopes, cur, names, js, i, jumps.entry)
    BY <1>2, <1>9, <1>10, <1>14, <2>1 DEF JumpsTo
  <2> QED
    BY ONLY <2>2, CodeJump
<1> DEFINE rest == <<Goto({jumps.entry})>>
<1>16. /\ \E d : CodeOK(d, Put(code, cur, js \o rest), gs, scopes, cur)
       /\ IsClosed(Put(code, cur, js \o rest)[cur]) /\ Jump(js, rest)
  BY <1>1, <1>15 DEF Jumped, js
<1>17. \E j \in 1..Len(frames) : Settled(gs, j)
  BY <1>2, <1>8
<1> HIDE DEF rest
<1> QED
  BY <1>1, <1>14, <1>16, <1>17, JumpStep

\* Walks down to depth d run what the scopes from d on wait for and release
\* what they hold.
LEMMA WalkLeads ==
    ASSUME NEW e, ScopesOK(scopes), NEW d \in 1..Len(scopes),
           NEW g \in SUBSET Names, g \cap Vs(scopes, Len(scopes)) = {}
    PROVE  /\ DefermentsThrough(d) \in Seq(Plain) /\ CallbacksThrough(d) \in Seq(Plain)
           /\ DefermentsThrough(d) \o CallbacksThrough(d) \in Seq(Plain)
           /\ Leads(e, DefermentsThrough(d) \o CallbacksThrough(d),
                    State(Vs(scopes, Len(scopes)) \cup g, Ds(scopes, Len(scopes))),
                    State(Vs(scopes, d - 1) \cup g, Ds(scopes, d - 1)))
<1> DEFINE o == Vs(scopes, Len(scopes)) \cup g
           a == Ds(scopes, d - 1)
           F == DefermentsThrough(d)
           G == CallbacksThrough(d)
<1>1. Len(scopes) \in 0..Len(scopes) /\ d - 1 \in 0..Len(scopes)
  BY ScopesLen
<1>2. Vs(scopes, Len(scopes)) \in SUBSET Names /\ a \in SUBSET Names
  BY <1>1, VsType
<1>3. o \in SUBSET Names /\ Vs(scopes, Len(scopes)) \subseteq o
  BY <1>2
<1>4. F \in Seq(Plain) /\ Leads(e, F, State(o, Ds(scopes, Len(scopes))), State(o, a))
  <2> HIDE DEF o
  <2> QED
    BY <1>3, DefermentsWalk
<1>5. G \in Seq(Plain) /\ Leads(e, G, State(o, a), State(Vs(scopes, d - 1) \cup g, a))
  <2> HIDE DEF a
  <2> QED
    BY <1>2, CallbacksWalk
<1> HIDE DEF F, G, o, a
<1>6. F \o G \in Seq(Plain)
  BY <1>4, <1>5
<1>7. F \in Seq(Instrs) /\ G \in Seq(Instrs)
  BY <1>4, <1>5, TargetsPlain
<1>8. Leads(e, F \o G, State(o, Ds(scopes, Len(scopes))), State(Vs(scopes, d - 1) \cup g, a))
  BY <1>4, <1>5, <1>7, LeadsOn
<1> QED
  BY <1>4, <1>5, <1>6, <1>8 DEF F, G, o, a

LEMMA FallthroughStep ==
    ASSUME Disciplined, Compiled, Fallthrough
    PROVE  Compiled'
<1> DEFINE i == InCase
           N == Len(frames)
           D == Len(scopes)
           q == Depth(frames, i)
           m == jumps.next
           F == DefermentsThrough(q + 1)
           G == CallbacksThrough(q + 1)
           g == Gens(frames, N + 1)
<1>1. /\ m # NoBlock /\ LeavesNoRange(i) /\ UNCHANGED frames
      /\ \E d \in 1..Len(scopes) : scopes[d].id = jumps.case
      /\ \E d \in Stops(jumps.case) :
            Jump(DefermentsThrough(d), CallbacksThrough(d) \o <<Goto({m})>>)
  BY DEF Fallthrough, Disciplined
<1>2. /\ StackOK(scopes, names, pushed) /\ FramesOK(frames, scopes, names, Len(code))
      /\ JumpsOK(jumps, frames, scopes, pushed) /\ ScopesOK(scopes) /\ D \in Nat \ {0}
      /\ Len(code) \in Nat /\ N \in Nat
  BY CompiledFacts DEF FramesOK
<1>3. Cases # {}
  <2>1. CaseJumps(jumps, frames, N + 1)
    BY <1>2 DEF JumpsOK
  <2>2. (\A j \in 1..((N + 1) - 1) : frames[j].k # "case") => m = NoBlock
    BY <2>1 DEF CaseJumps
  <2>3. (N + 1) - 1 = N
    BY <1>2
  <2> QED
    BY <1>1, <2>2, <2>3 DEF Cases
<1>4. i \in 1..N /\ Innermost(frames, "case", N + 1, i) /\ frames[i].k = "case"
  BY <1>3, InnerCase DEF Innermost
<1>5. \A j \in i..N : frames[j].gen = 0
  BY <1>1 DEF LeavesNoRange, Disciplined
<1> HIDE DEF i
<1>6. q \in Nat /\ q >= 1 /\ q + 1 <= D
  BY <1>2, <1>4, DepthsFit
<1>7. m = Low(frames[i])
  <2>1. CaseJumps(jumps, frames, N + 1) /\ i \in 1..((N + 1) - 1)
    BY <1>2, <1>4 DEF JumpsOK
  <2> QED
    BY <1>4, <2>1 DEF CaseJumps
<1>8. Jump(F, G \o <<Goto({m})>>)
  <2>1. PICK d \in 1..Len(scopes) : scopes[d].id = jumps.case
    BY <1>1
  <2>2. d = q + 1
    BY <1>2, <1>4, <2>1 DEF JumpsOK
  <2>3. Stops(jumps.case) = {d}
    BY <1>2, <2>1, StopsAt
  <2> QED
    BY <1>1, <2>2, <2>3
<1>9. PICK e : CodeOK(e, code, frames, scopes, cur)
  BY DEF Compiled, CodeInv
<1>10. m \in PendOf(frames[i]) /\ m \in Used(frames[i]) /\ m \in Nat
  <2> DEFINE L == Len(code)
  <2>1. L \in Nat /\ FramesOK(frames, scopes, names, L)
    BY <1>2
  <2> HIDE DEF L
  <2>2. Low(frames[i]) \in Nat /\ Low(frames[i]) <= frames[i].merge
        /\ PendOf(frames[i]) \subseteq Used(frames[i])
    BY <1>4, <2>1, FrameFacts
  <2>3. frames[i].merge \in Nat
    BY <1>2, <1>4, FrameType DEF FramesOK
  <2>4. First(frames[i]) = Low(frames[i])
    BY <1>4 DEF First
  <2>5. m \in First(frames[i])..frames[i].merge
    BY <1>7, <2>2, <2>3, <2>4
  <2> QED
    BY <1>7, <2>2, <2>5 DEF PendOf
<1>11. e[m] = State(Vs(scopes, q) \cup g, Ds(scopes, q))
  <2>1. Expect(e, scopes, frames, i)
    BY <1>4, <1>9 DEF CodeOK
  <2>2. e[m] = Around(scopes, frames, i)
    BY <1>4, <1>10, <2>1 DEF Expect
  <2>3. g = Gens(frames, i)
    <3>1. i \in Nat \ {0} /\ i <= N + 1
      BY <1>2, <1>4
    <3> QED
      BY <1>2, <1>5, <3>1, GensFrom
  <2> QED
    BY <2>2, <2>3 DEF Around, At
<1>12. Here(scopes, frames) = State(Vs(scopes, D) \cup g, Ds(scopes, D))
  BY <1>2, HereIs
<1>13. /\ F \in Seq(Plain) /\ G \in Seq(Plain) /\ F \o G \in Seq(Plain)
       /\ Leads(e, F \o G, Here(scopes, frames), e[m])
  <2>1. g \in SUBSET Names /\ g \cap Vs(scopes, Len(scopes)) = {}
    <3>1. N + 1 \in 1..(Len(frames) + 1) /\ Len(scopes) \in 0..Len(scopes)
      BY <1>2
    <3> QED
      BY <1>2, <3>1, GensAre
  <2>2. q + 1 \in 1..Len(scopes) /\ (q + 1) - 1 = q
    BY <1>6
  <2> HIDE DEF g
  <2>3. /\ DefermentsThrough(q + 1) \in Seq(Plain) /\ CallbacksThrough(q + 1) \in Seq(Plain)
        /\ DefermentsThrough(q + 1) \o CallbacksThrough(q + 1) \in Seq(Plain)
        /\ Leads(e, DefermentsThrough(q + 1) \o CallbacksThrough(q + 1),
                    State(Vs(scopes, Len(scopes)) \cup g, Ds(scopes, Len(scopes))),
                    State(Vs(scopes, (q + 1) - 1) \cup g, Ds(scopes, (q + 1) - 1)))
    BY <1>2, <2>1, <2>2, WalkLeads
  <2> QED
    BY <1>11, <1>12, <2>2, <2>3
<1> HIDE DEF F, G, g, m
<1> DEFINE js == F \o G
<1>14. Jumped(e, code, frames, scopes, cur, Put(code, cur, js \o <<Goto({m})>>))
  <2>1. frames[i].k # "loop"
    BY <1>4
  <2> HIDE DEF js
  <2>2. js \in Seq(Plain) /\ Leads(e, js, Here(scopes, frames), e[m])
    BY <1>13 DEF js
  <2>3. JumpsTo(e, code, frames, scopes, cur, names, js, i, m)
    BY <1>2, <1>4, <1>9, <1>10, <2>1, <2>2 DEF JumpsTo
  <2> QED
    BY ONLY <2>3, CodeJump
<1> DEFINE rest == G \o <<Goto({m})>>
<1>15. F \o rest = js \o <<Goto({m})>>
  <2> DEFINE k == Goto({m})
  <2>1. k \in Instrs
    <3>1. {m} \in SUBSET Nat
      <4>1. m \in Nat
        BY <1>10
      <4> QED
        BY <4>1
    <3> QED
      BY <3>1, GotoIs
  <2>2. F \in Seq(Instrs) /\ G \in Seq(Instrs)
    BY <1>13, TargetsPlain
  <2> HIDE DEF k
  <2>3. F \o (G \o <<k>>) = (F \o G) \o <<k>>
    BY ONLY <2>1, <2>2
  <2> QED
    BY <2>3 DEF k
<1>16. /\ \E d : CodeOK(d, Put(code, cur, F \o rest), frames, scopes, cur)
       /\ IsClosed(Put(code, cur, F \o rest)[cur]) /\ Jump(F, rest)
  BY <1>8, <1>14, <1>15 DEF Jumped
<1> HIDE DEF rest
<1> QED
  BY <1>1, <1>13, <1>16, JumpStep

\* The code js before a return.
LEMMA CodeReturn ==
    ASSUME NEW e, NEW c, NEW fs, NEW sc, NEW b, CodeOK(e, c, fs, sc, b),
           NEW js \in Seq(Plain), Leads(e, js, Here(sc, fs), State({}, {}))
    PROVE  Jumped(e, c, fs, sc, b, Put(c, b, js \o <<Ret>>))
<1>1. MaxNames \in Nat
  BY ScopesAssumption
<1>2. Ret \in Instrs /\ Ret.op = "ret" /\ Ret.to = {}
  BY <1>1 DEF Ret, Ins, Instrs
<1> DEFINE ins == Ret
           t == State({}, {})
<1>3. ins.op = "ret" /\ ins.to = {} /\ t = State({}, {}) /\ ins \in Instrs
  BY <1>2
<1>4. CodeOK(e, c, fs, sc, b) /\ Leads(e, js, Here(sc, fs), t)
  OBVIOUS
<1> HIDE DEF ins, t
<1>5. ins.op \in {"goto", "ret"}
  BY <1>3
<1>6. \A i \in 1..Len(fs) : fs[i].k = "loop" /\ ~fs[i].jumped =>
              fs[i].incr \notin ins.to /\ fs[i].clean \notin ins.to
  BY <1>3
<1>7. js \in Seq(Plain)
  OBVIOUS
<1>8. /\ CodeOK(e, Put(c, b, js \o <<ins>>), fs, sc, b)
      /\ IsClosed(Put(c, b, js \o <<ins>>)[b])
  BY ONLY <1>3, <1>4, <1>5, <1>6, <1>7, CodeLeave
<1> QED
  BY <1>8 DEF Jumped, ins

LEMMA NothingOpen ==
    ASSUME NEW sc
    PROVE  Vs(sc, 0) = {} /\ Ds(sc, 0) = {}
<1>1. 1..0 = {}
  OBVIOUS
<1> QED
  BY <1>1 DEF Vs, Ds

LEMMA ReturnStep ==
    ASSUME Disciplined, Compiled, Return
    PROVE  Compiled'
<1> DEFINE N == Len(frames)
           D == Len(scopes)
           F == DefermentsThrough(1)
           G == CallbacksThrough(1)
           js == F \o G
           rest == G \o <<Ret>>
<1>1. /\ \A j \in 1..N : frames[j].gen = 0
      /\ UNCHANGED frames /\ Jump(F, rest)
  BY DEF Return, LeavesNoRange, Disciplined
<1>2. /\ FramesOK(frames, scopes, names, Len(code)) /\ ScopesOK(scopes) /\ D \in Nat \ {0}
      /\ N \in Nat
  BY CompiledFacts DEF FramesOK
<1>3. PICK e : CodeOK(e, code, frames, scopes, cur)
  BY DEF Compiled, CodeInv
<1>4. Here(scopes, frames) = State(Vs(scopes, D) \cup {}, Ds(scopes, D))
  <2>1. Gens(frames, N + 1) = {}
    <3>1. (N + 1) - 1 = N
      BY <1>2
    <3> QED
      BY <1>1, <3>1 DEF Gens
  <2>2. Here(scopes, frames) = State(Vs(scopes, D) \cup Gens(frames, N + 1), Ds(scopes, D))
    BY <1>2, HereIs
  <2> QED
    BY <2>1, <2>2
<1>5. /\ F \in Seq(Plain) /\ G \in Seq(Plain) /\ js \in Seq(Plain)
      /\ Leads(e, js, Here(scopes, frames), State({}, {}))
  <2> DEFINE g == {}
  <2>1. g \in SUBSET Names /\ g \cap Vs(scopes, Len(scopes)) = {} /\ 1 \in 1..Len(scopes)
    BY <1>2
  <2>2. Here(scopes, frames) = State(Vs(scopes, Len(scopes)) \cup g, Ds(scopes, Len(scopes)))
    BY <1>4
  <2>3. State(Vs(scopes, 1 - 1) \cup g, Ds(scopes, 1 - 1)) = State({}, {})
    BY NothingOpen
  <2> HIDE DEF g
  <2>4. /\ F \in Seq(Plain) /\ G \in Seq(Plain) /\ js \in Seq(Plain)
        /\ Leads(e, js, State(Vs(scopes, Len(scopes)) \cup g, Ds(scopes, Len(scopes))),
                    State(Vs(scopes, 1 - 1) \cup g, Ds(scopes, 1 - 1)))
    BY <1>2, <2>1, WalkLeads
  <2> QED
    BY <2>2, <2>3, <2>4
<1> HIDE DEF F, G
<1>6. F \o rest = js \o <<Ret>>
  <2>1. MaxNames \in Nat
    BY ScopesAssumption
  <2>2. Ret \in Instrs
    BY <2>1 DEF Ret, Ins, Instrs
  <2>3. F \in Seq(Instrs) /\ G \in Seq(Instrs)
    BY <1>5, TargetsPlain
  <2> QED
    BY ONLY <2>2, <2>3
<1> HIDE DEF js
<1>7. Jumped(e, code, frames, scopes, cur, Put(code, cur, js \o <<Ret>>))
  BY <1>3, <1>5, CodeReturn
<1>8. /\ \E d : CodeOK(d, Put(code, cur, F \o rest), frames, scopes, cur)
      /\ IsClosed(Put(code, cur, F \o rest)[cur]) /\ Jump(F, rest)
  BY <1>1, <1>6, <1>7 DEF Jumped
<1> HIDE DEF rest
<1> QED
  BY <1>1, <1>5, <1>8, JumpStep

-----------------------------------------------------------------------------
(* The code runs.                                                           *)

\* What is held and what waits while it runs.
Held == {x \in Names : own[x] = "owned"}
Now == State(Held, armed)

\* The code from here on: block b of c is safe when entered as e says.
Safe(e, c, b) == IsClosed(c[b]) /\ \E t : Leads(e, c[b], e[b], t)

Emission(e) ==
    /\ e \in [1..Len(code) -> States] /\ e[1] = State({}, {})
    /\ \A b \in 1..Len(code) : Safe(e, code, b)

\* Where the program is in its block.
Position(e) ==
    /\ at[1] \in 1..Len(code) /\ at[2] \in 1..Len(code[at[1]]) /\ at = <<at[1], at[2]>>
    /\ \E t, st : Path(e, code[at[1]], e[at[1]], t, st) /\ st[at[2]] = Now

Executing ==
    /\ stmts \in 0..MaxStmts /\ names \in 0..MaxNames /\ pushed \in Nat
    /\ StackInv /\ ended \in BOOLEAN /\ temps = {} /\ cur \in 1..Len(code)
    /\ code \in Codes /\ Targets(code) \subseteq 1..Len(code)
    /\ own \in [Names -> {"junk", "owned", "released"}] /\ armed \in SUBSET Names
    /\ \E e : Emission(e) /\ Position(e)

\* Entering a block.
LEMMA Enter ==
    ASSUME NEW c \in Codes, NEW e, NEW b \in 1..Len(c), Safe(e, c, b)
    PROVE  1 \in 1..Len(c[b]) /\ \E t, st : Path(e, c[b], e[b], t, st) /\ st[1] = e[b]
<1>1. c[b] \in Seq(Instrs) /\ c[b] # <<>>
  BY DEF Codes, Safe, IsClosed
<1>2. 1 \in 1..Len(c[b])
  BY <1>1
<1>3. \E t, st : Path(e, c[b], e[b], t, st)
  BY DEF Safe, Leads
<1> QED
  BY <1>2, <1>3 DEF Path

LEMMA EndFunctionStep ==
    ASSUME Disciplined, Compiled, EndFunction
    PROVE  Executing' /\ phase' = "run"
<1> DEFINE ds == Deferments(scopes[1])
           cs == Callbacks(scopes[1])
           js == ds \o cs
           c == Put(code, cur, js \o <<Ret>>)
<1>1. /\ FramesOK(frames, scopes, names, Len(code)) /\ ScopesOK(scopes) /\ Len(scopes) \in Nat \ {0}
      /\ temps = {} /\ code \in Codes /\ cur \in 1..Len(code) /\ pushed \in Nat /\ ended \in BOOLEAN
  BY CompiledFacts
<1>2. frames = <<>> /\ Len(frames) = 0
  BY DEF EndFunction
<1>3. Len(scopes) = 1 /\ Top(scopes) = scopes[1]
  BY <1>1, <1>2, DepthFirst DEF FramesOK, Top
<1>4. PICK e : CodeOK(e, code, frames, scopes, cur)
  BY DEF Compiled, CodeInv
<1>5. js \in Seq(Plain) /\ Leads(e, js, Here(scopes, frames), State({}, {}))
  <2> DEFINE g == {}
             d == Len(scopes)
  <2>1. d \in 1..Len(scopes) /\ g \in SUBSET Names /\ g \cap scopes[d].vs = {}
    BY <1>1
  <2>2. Here(scopes, frames) = State(Vs(scopes, d) \cup g, Ds(scopes, d))
    <3>1. Gens(frames, Len(frames) + 1) = {}
      BY <1>2 DEF Gens
    <3>2. Here(scopes, frames) =
             State(Vs(scopes, Len(scopes)) \cup Gens(frames, Len(frames) + 1), Ds(scopes, Len(scopes)))
      BY <1>1, HereIs
    <3> QED
      BY <3>1, <3>2
  <2>3. State(Vs(scopes, d - 1) \cup g, Ds(scopes, d - 1)) = State({}, {})
    BY <1>3, NothingOpen
  <2> HIDE DEF g, d
  <2>4. /\ Deferments(scopes[d]) \o Callbacks(scopes[d]) \in Seq(Plain)
        /\ Leads(e, Deferments(scopes[d]) \o Callbacks(scopes[d]),
                    State(Vs(scopes, d) \cup g, Ds(scopes, d)),
                    State(Vs(scopes, d - 1) \cup g, Ds(scopes, d - 1)))
    BY <1>1, <2>1, ScopeEnds
  <2>5. d = 1
    BY <1>3 DEF d
  <2> QED
    BY <2>2, <2>3, <2>4, <2>5
<1>6. code' = c
  <2>1. ds \in Seq(Plain)
    <3>1. 1 \in 1..Len(scopes) /\ ScopesOK(scopes)
      BY <1>1, <1>3
    <3>2. Deferments(scopes[1]) \in Seq(Plain)
      BY ONLY <3>1, DefermentsAre
    <3> QED
      BY <3>2
  <2>2. Emitted(ds) = ds
    BY <1>1, <2>1, TargetsPlain, NoTemps
  <2>3. code' = Put(code, cur, Emitted(ds) \o cs \o <<Ret>>)
    BY <1>3 DEF EndFunction
  <2> QED
    BY <2>2, <2>3
<1> HIDE DEF js
<1>7. CodeOK(e, c, frames, scopes, cur) /\ IsClosed(c[cur])
  <2>1. Jumped(e, code, frames, scopes, cur, Put(code, cur, js \o <<Ret>>))
    BY <1>4, <1>5, CodeReturn
  <2> QED
    BY <2>1 DEF Jumped
<1> HIDE DEF c
<1>8. /\ c \in Codes /\ Targets(c) \subseteq 1..Len(c) /\ cur \in 1..Len(c)
      /\ e \in [1..Len(c) -> States] /\ e[1] = State({}, {})
      /\ \A k \in 1..Len(c) : \E t : Leads(e, c[k], e[k], t)
      /\ \A k \in 1..Len(c) : k \notin Pend(frames) \cup {cur} => IsClosed(c[k])
  BY <1>7 DEF CodeOK, TargetsOK, TypedCode
<1>9. Pend(frames) = {}
  BY <1>2 DEF Pend
<1>10. \A b \in 1..Len(c) : Safe(e, c, b)
  BY <1>7, <1>8, <1>9 DEF Safe
<1>11. /\ phase' = "run"
       /\ UNCHANGED <<stmts, names, pushed, scopes, jumps, frames, ended, temps, cur, rvars>>
  BY DEF EndFunction
<1>12. /\ at = <<1, 1>> /\ own = [x \in Names |-> "junk"] /\ armed = {}
       /\ stmts \in 0..MaxStmts /\ names \in 0..MaxNames /\ StackInv
  BY DEF Compiled, CountInv
<1>13. Now = State({}, {})
  <2>1. Held = {}
    BY <1>12 DEF Held
  <2> QED
    BY <1>12, <2>1 DEF Now
<1>14. Emission(e)'
  BY <1>6, <1>8, <1>10 DEF Emission
<1>15. Position(e)'
  <2>1. at' = <<1, 1>> /\ Now' = State({}, {})
    BY <1>11, <1>12, <1>13 DEF Now, Held, rvars
  <2>2. 1 \in 1..Len(c)
    BY <1>8 DEF Codes
  <2>3. 1 \in 1..Len(c[1]) /\ \E t, st : Path(e, c[1], e[1], t, st) /\ st[1] = e[1]
    BY <1>8, <1>10, <2>2, Enter
  <2>4. code' = c
    BY <1>6
  <2>5. at'[1] = 1 /\ at'[2] = 1
    BY <2>1
  <2> QED
    BY <1>8, <2>1, <2>2, <2>3, <2>4, <2>5 DEF Position
<1>16. StackInv'
  BY <1>11, <1>12 DEF StackInv
<1>17. own' \in [Names -> {"junk", "owned", "released"}] /\ armed' \in SUBSET Names
  BY <1>11, <1>12 DEF rvars
<1> QED
  BY <1>1, <1>6, <1>8, <1>11, <1>12, <1>14, <1>15, <1>16, <1>17 DEF Executing

\* The types, when the code is there.
LEMMA ExecutingType ==
    ASSUME Executing, phase \in {"compile", "run", "done"}
    PROVE  TypeOK
<1>1. /\ code \in Codes /\ Targets(code) \subseteq 1..Len(code)
      /\ own \in [1..MaxNames -> {"junk", "owned", "released"}] /\ armed \subseteq 1..MaxNames
  BY DEF Executing, Names
<1>2. \A b \in 1..Len(code) : \A i \in 1..Len(code[b]) : code[b][i].to \subseteq 1..Len(code)
  BY <1>1 DEF Targets, TargetsOf
<1>3. \A d \in 1..Len(scopes) : scopes[d].vs \subseteq 1..names
  BY DEF Executing, StackInv, StackOK
<1>4. /\ stmts \in 0..MaxStmts /\ names \in 0..MaxNames /\ pushed \in Nat
      /\ ended \in BOOLEAN /\ temps \subseteq 1..names /\ cur \in 1..Len(code)
  BY DEF Executing
<1> QED
  BY ONLY <1>1, <1>2, <1>3, <1>4, phase \in {"compile", "run", "done"} DEF TypeOK

LEMMA CompiledType ==
    ASSUME Compiled, phase \in {"compile", "run", "done"}
    PROVE  TypeOK
<1>1. code \in Codes /\ cur \in 1..Len(code) /\ ended \in BOOLEAN /\ MaxNames \in Nat
  BY CompiledFacts
<1>2. Targets(code) \subseteq 1..Len(code)
  BY DEF Compiled, CodeInv, CodeOK, TargetsOK
<1>3. \A b \in 1..Len(code) : \A i \in 1..Len(code[b]) : code[b][i].to \subseteq 1..Len(code)
  BY <1>2 DEF Targets, TargetsOf
<1>4. \A d \in 1..Len(scopes) : scopes[d].vs \subseteq 1..names
  BY DEF Compiled, StackInv, StackOK
<1>5. stmts \in 0..MaxStmts /\ names \in 0..MaxNames /\ pushed \in Nat /\ temps \subseteq 1..names
  BY DEF Compiled, CountInv
<1>6. own \in [1..MaxNames -> {"junk", "owned", "released"}] /\ armed \subseteq 1..MaxNames
  BY DEF Compiled, Names
<1> QED
  BY ONLY <1>1, <1>3, <1>4, <1>5, <1>6, phase \in {"compile", "run", "done"} DEF TypeOK

\* The next instruction is safe, and is followed by another one in its block
\* unless control leaves the block.
LEMMA NextIsSafe ==
    ASSUME Executing, phase = "run"
    PROVE  /\ Running /\ Next1 \in Instrs
           /\ \E e, t, st : /\ Emission(e) /\ Path(e, code[at[1]], e[at[1]], t, st)
                            /\ st[at[2]] = Now /\ Effect(e, Next1, Now, st[at[2] + 1])
                            /\ at[1] \in 1..Len(code) /\ at[2] \in 1..Len(code[at[1]])
           /\ Next1.op \notin {"goto", "ret"} => at[2] + 1 \in 1..Len(code[at[1]])
<1>1. PICK e : Emission(e) /\ Position(e)
  BY DEF Executing
<1> DEFINE a == at[1]
           i == at[2]
           is == code[a]
<1>2. a \in 1..Len(code) /\ i \in 1..Len(is)
  BY <1>1 DEF Position
<1>3. PICK t, st : Path(e, is, e[a], t, st) /\ st[i] = Now
  BY <1>1 DEF Position
<1>4. is \in Seq(Instrs) /\ Len(is) \in Nat /\ is[i] \in Instrs
  <2>1. code \in Codes
    BY DEF Executing
  <2>2. is \in Seq(Instrs)
    BY <1>2, <2>1 DEF Codes
  <2> HIDE DEF is
  <2> QED
    BY <1>2, <2>2
<1>5. Running
  BY <1>2, <1>4 DEF Running
<1>6. Next1 = is[i]
  BY DEF Next1
<1>7. Effect(e, is[i], Now, st[i + 1])
  BY <1>2, <1>3 DEF Path
<1>8. is[i].op \notin {"goto", "ret"} => i + 1 \in 1..Len(is)
  <2>1. is[Len(is)].op \in {"goto", "ret"}
    BY <1>1, <1>2 DEF Emission, Safe, IsClosed
  <2> HIDE DEF is, i
  <2> QED
    BY <1>2, <1>4, <2>1
<1> QED
  BY <1>1, <1>2, <1>3, <1>4, <1>5, <1>6, <1>7, <1>8

\* An instruction that stays in its block.
LEMMA StaysSafe ==
    ASSUME Executing, phase = "run", Forward, UNCHANGED <<phase, cvars>>,
           Next1.op \notin {"goto", "ret"},
           \A e, t : Effect(e, Next1, Now, t) => Now' = t,
           own' \in [Names -> {"junk", "owned", "released"}], armed' \in SUBSET Names
    PROVE  Executing'
<1>1. PICK e, t, st : /\ Emission(e) /\ Path(e, code[at[1]], e[at[1]], t, st)
                      /\ st[at[2]] = Now /\ Effect(e, Next1, Now, st[at[2] + 1])
                      /\ at[1] \in 1..Len(code) /\ at[2] \in 1..Len(code[at[1]])
  BY NextIsSafe
<1>2. at[2] + 1 \in 1..Len(code[at[1]])
  BY NextIsSafe
<1>3. Now' = st[at[2] + 1]
  BY <1>1
<1>4. code' = code /\ at' = <<at[1], at[2] + 1>>
  BY DEF cvars, Forward
<1>5. Emission(e)'
  BY <1>1, <1>4 DEF Emission
<1>6. Position(e)'
  <2>1. at'[1] = at[1] /\ at'[2] = at[2] + 1
    BY <1>4
  <2> QED
    BY <1>1, <1>2, <1>3, <1>4, <2>1 DEF Position
<1>7. UNCHANGED <<stmts, names, pushed, scopes, ended, temps, cur>>
  BY DEF cvars
<1>8. StackInv'
  BY <1>7 DEF Executing, StackInv
<1> QED
  BY <1>4, <1>5, <1>6, <1>7, <1>8 DEF Executing

LEMMA OwnIs ==
    ASSUME Executing
    PROVE  /\ own \in [Names -> {"junk", "owned", "released"}] /\ armed \in SUBSET Names
           /\ Now.own = Held /\ Now.arm = armed /\ Held \in SUBSET Names
<1>1. own \in [Names -> {"junk", "owned", "released"}] /\ armed \in SUBSET Names
  BY DEF Executing
<1>2. Held \in SUBSET Names
  BY DEF Held
<1> QED
  BY <1>1, <1>2, StateType DEF Now

LEMMA RunDeclStep ==
    ASSUME Executing, RunDecl
    PROVE  Executing' /\ phase' = "run"
<1>1. /\ phase = "run" /\ Next1.op = "decl" /\ Forward /\ UNCHANGED <<phase, cvars, armed>>
      /\ own' = [own EXCEPT ![Next1.x] = "owned"]
  BY DEF RunDecl, Doing, Running
<1>2. ASSUME NEW e, NEW t, Effect(e, Next1, Now, t) PROVE Now' = t
  <2> DEFINE x == Next1.x
  <2>1. x \in Names \ Held /\ t = State(Held \cup {x}, armed)
    BY <1>1, <1>2, OwnIs DEF Effect
  <2>2. own' = [own EXCEPT ![x] = "owned"] /\ armed' = armed
    BY <1>1
  <2> HIDE DEF x
  <2>3. Held' = Held \cup {x}
    BY <2>1, <2>2, OwnIs DEF Held
  <2> QED
    BY <2>1, <2>2, <2>3 DEF Now
<1>3. own' \in [Names -> {"junk", "owned", "released"}] /\ armed' \in SUBSET Names
  BY <1>1, OwnIs
<1>4. Executing'
  BY <1>1, <1>2, <1>3, StaysSafe
<1> QED
  BY <1>1, <1>4

LEMMA RunRelStep ==
    ASSUME Executing, RunRel
    PROVE  Executing' /\ phase' = "run"
<1>1. /\ phase = "run" /\ Next1.op = "rel" /\ Forward /\ UNCHANGED <<phase, cvars, armed>>
      /\ own' = [own EXCEPT ![Next1.x] = "released"]
  BY DEF RunRel, Doing, Running
<1>2. ASSUME NEW e, NEW t, Effect(e, Next1, Now, t) PROVE Now' = t
  <2> DEFINE x == Next1.x
  <2>1. x \in Held /\ t = State(Held \ {x}, armed)
    BY <1>1, <1>2, OwnIs DEF Effect
  <2>2. own' = [own EXCEPT ![x] = "released"] /\ armed' = armed
    BY <1>1
  <2> HIDE DEF x
  <2>3. Held' = Held \ {x}
    BY <2>1, <2>2, OwnIs DEF Held
  <2> QED
    BY <2>1, <2>2, <2>3 DEF Now
<1>3. own' \in [Names -> {"junk", "owned", "released"}] /\ armed' \in SUBSET Names
  BY <1>1, OwnIs
<1>4. Executing'
  BY <1>1, <1>2, <1>3, StaysSafe
<1> QED
  BY <1>1, <1>4

LEMMA RunArmStep ==
    ASSUME Executing, RunArm
    PROVE  Executing' /\ phase' = "run"
<1>1. /\ phase = "run" /\ Next1.op = "arm" /\ Forward /\ UNCHANGED <<phase, cvars, own>>
      /\ armed' = armed \cup {Next1.x}
  BY DEF RunArm, Doing, Running
<1>2. PICK e, t : Effect(e, Next1, Now, t)
  BY <1>1, NextIsSafe
<1>3. Next1.x \in Names
  BY <1>1, <1>2 DEF Effect
<1>4. Held' = Held
  BY <1>1 DEF Held
<1>5. ASSUME NEW d, NEW u, Effect(d, Next1, Now, u) PROVE Now' = u
  BY <1>1, <1>4, <1>5, OwnIs DEF Effect, Now
<1>6. own' \in [Names -> {"junk", "owned", "released"}] /\ armed' \in SUBSET Names
  BY <1>1, <1>3, OwnIs
<1>7. Executing'
  BY <1>1, <1>5, <1>6, StaysSafe
<1> QED
  BY <1>1, <1>7

LEMMA RunDeferStep ==
    ASSUME Executing, RunDefer
    PROVE  Executing' /\ phase' = "run"
<1>1. /\ phase = "run" /\ Next1.op = "defer" /\ Forward /\ UNCHANGED <<phase, cvars, own>>
      /\ armed' = armed \ {Next1.x}
  BY DEF RunDefer, Doing, Running
<1>2. Held' = Held
  BY <1>1 DEF Held
<1>3. ASSUME NEW d, NEW u, Effect(d, Next1, Now, u) PROVE Now' = u
  BY <1>1, <1>2, <1>3, OwnIs DEF Effect, Now
<1>4. own' \in [Names -> {"junk", "owned", "released"}] /\ armed' \in SUBSET Names
  BY <1>1, OwnIs
<1>5. Executing'
  BY <1>1, <1>3, <1>4, StaysSafe
<1> QED
  BY <1>1, <1>5

LEMMA RunGotoStep ==
    ASSUME Executing, RunGoto
    PROVE  Executing' /\ phase' = "run"
<1>1. /\ phase = "run" /\ Next1.op = "goto" /\ UNCHANGED <<phase, cvars, own, armed>>
      /\ \E b \in Next1.to : at' = <<b, 1>>
  BY DEF RunGoto, Doing, Running
<1>2. PICK b \in Next1.to : at' = <<b, 1>>
  BY <1>1
<1>3. PICK e, t, st : Emission(e) /\ Effect(e, Next1, Now, st[at[2] + 1])
  BY <1>1, NextIsSafe
<1>4. b \in 1..Len(code) /\ e[b] = Now
  <2>1. b \in DOMAIN e /\ e[b] = Now
    BY <1>1, <1>3 DEF Effect
  <2> QED
    BY <1>3, <2>1 DEF Emission
<1>5. code' = code /\ UNCHANGED <<stmts, names, pushed, scopes, ended, temps, cur>>
  BY <1>1 DEF cvars
<1>6. Now' = Now
  BY <1>1 DEF Now, Held
<1>7. 1 \in 1..Len(code[b]) /\ \E u, su : Path(e, code[b], e[b], u, su) /\ su[1] = e[b]
  <2>1. code \in Codes /\ Safe(e, code, b)
    BY <1>3, <1>4 DEF Executing, Emission
  <2> QED
    BY <1>4, <2>1, Enter
<1>8. Emission(e)'
  BY <1>3, <1>5 DEF Emission
<1>9. Position(e)'
  <2>1. at'[1] = b /\ at'[2] = 1
    BY <1>2
  <2> QED
    BY <1>2, <1>4, <1>5, <1>6, <1>7, <2>1 DEF Position
<1>10. StackInv'
  BY <1>5 DEF Executing, StackInv
<1> QED
  BY <1>1, <1>5, <1>8, <1>9, <1>10 DEF Executing

-----------------------------------------------------------------------------
(* The inductive invariant.                                                 *)

IInv ==
    \/ (phase = "compile" /\ Compiled)
    \/ (phase = "run" /\ Executing)
    \/ (phase = "done" /\ TypeOK)

\* The stack of scopes of a function that has just begun.
LEMMA FirstScope ==
    ASSUME NEW sc, sc = <<Scope(1, {})>>
    PROVE  StackOK(sc, 0, 1) /\ Len(sc) = 1 /\ Vs(sc, 1) = {} /\ Ds(sc, 1) = {}
<1> DEFINE a == Scope(1, {})
<1>1. MaxNames \in Nat
  BY ScopesAssumption
<1>2. a \in ScopeRecs /\ a.id = 1 /\ a.vs = {} /\ a.defers = <<>>
  BY ScopeIs
<1> HIDE DEF a
<1>3. sc = <<a>>
  BY DEF a
<1>4. sc \in Seq(ScopeRecs) /\ Len(sc) = 1 /\ sc[1] = a
  BY <1>2, <1>3
<1>5. \A d \in 1..Len(sc) : sc[d].vs = {} /\ sc[d].defers = <<>> /\ sc[d].id = 1 /\ d = 1
  BY <1>2, <1>4
<1>6. DOMAIN <<>> = {} /\ Len(<<>>) = 0
  OBVIOUS
<1>7. ScopesOK(sc)
  BY <1>4, <1>5, <1>6 DEF ScopesOK
<1>8. StackOK(sc, 0, 1)
  BY <1>5, <1>6, <1>7 DEF StackOK
<1>9. \A k \in 1..1 : sc[k].vs = {} /\ sc[k].defers = <<>>
  BY <1>4, <1>5
<1>10. Vs(sc, 1) = {} /\ Ds(sc, 1) = {}
  BY <1>6, <1>9 DEF Vs, Ds
<1> QED
  BY <1>4, <1>8, <1>10

LEMMA InitCompiled ==
    ASSUME Init
    PROVE  IInv
<1>1. MaxNames \in Nat /\ MaxStmts \in Nat
  BY ScopesAssumption
<1>2. /\ phase = "compile" /\ stmts = 0 /\ names = 0 /\ pushed = 1
      /\ scopes = <<Scope(1, {})>> /\ frames = <<>> /\ ended = FALSE /\ temps = {}
      /\ code = << <<>> >> /\ cur = 1 /\ at = <<1, 1>>
      /\ own = [x \in Names |-> "junk"] /\ armed = {}
  BY DEF Init, Names
<1>3. jumps = [entry |-> NoBlock, exit |-> NoBlock, loop |-> 0, next |-> NoBlock, case |-> 0]
  BY DEF Init
<1>4. CountInv
  BY <1>1, <1>2 DEF CountInv
<1>5. StackOK(scopes, 0, 1) /\ Len(scopes) = 1 /\ Vs(scopes, 1) = {} /\ Ds(scopes, 1) = {}
  BY <1>2, FirstScope
<1>6. StackInv
  BY <1>2, <1>5 DEF StackInv
<1>7. Len(frames) = 0 /\ frames \in Seq(FrameRecs) /\ Depth(frames, 1) = 1
  BY <1>2, DepthFirst
<1>8. Len(code) = 1 /\ code[1] = <<>> /\ code \in Codes
  BY <1>2 DEF Codes
<1>9. FramesInv
  <2>1. \A i \in 1..Len(frames) : FALSE
    BY <1>7
  <2>2. Len(scopes) = Depth(frames, Len(frames) + 1)
    BY <1>5, <1>7
  <2> QED
    BY <1>7, <2>1, <2>2 DEF FramesInv, FramesOK
<1>10. JumpsInv
  <2>1. jumps \in JumpRecs /\ jumps.next = NoBlock /\ jumps.case = 0
    BY <1>3 DEF JumpRecs, NoBlock
  <2>2. \A i \in 1..Len(frames) : FALSE
    BY <1>7
  <2>3. \A i \in 1..((Len(frames) + 1) - 1) : FALSE
    BY <1>7
  <2> QED
    BY <1>2, <2>1, <2>2, <2>3 DEF JumpsInv, JumpsOK, LoopJumps, CaseJumps
<1>11. EndedInv
  BY <1>2 DEF EndedInv
<1>12. CodeInv
  <2> DEFINE s == State({}, {})
             e == [k \in 1..1 |-> s]
  <2>1. s \in States
    BY StateType
  <2>2. Here(scopes, frames) = s
    <3>1. Here(scopes, frames) =
             State(Vs(scopes, Len(scopes)) \cup Gens(frames, Len(frames) + 1), Ds(scopes, Len(scopes)))
      BY <1>9, HereIs DEF FramesInv
    <3>2. Gens(frames, Len(frames) + 1) = {}
      BY <1>7 DEF Gens
    <3> QED
      BY <1>5, <3>1, <3>2
  <2>3. e[1] = s /\ e \in [1..1 -> States] /\ \A k \in 1..1 : k = 1
    BY <2>1
  <2> HIDE DEF e, s
  <2>4. Leads(e, <<>>, s, s)
    BY <2>1, LeadsNothing
  <2>5. Pend(frames) = {}
    BY <1>7 DEF Pend
  <2>6. TypedCode(e, code, Pend(frames), cur, Here(scopes, frames))
    <3>1. e[1] = State({}, {})
      BY <2>3 DEF s
    <3>2. \A k \in 1..Len(code) : \E t : Leads(e, code[k], e[k], t)
      BY <1>8, <2>3, <2>4
    <3>3. Leads(e, code[cur], e[cur], s)
      BY <1>2, <1>8, <2>3, <2>4
    <3>4. e \in [1..Len(code) -> States] /\ cur \in 1..Len(code)
      BY <1>2, <1>8, <2>3
    <3>5. \A k \in 1..Len(code) : k = cur
      BY <1>2, <1>8
    <3> QED
      BY <1>8, <2>2, <2>5, <3>1, <3>2, <3>3, <3>4, <3>5 DEF TypedCode
  <2>7. TargetsOK(code, frames)
    <3>1. Targets(code) = {}
      <4>1. \A b \in 1..Len(code) : TargetsOf(code[b]) = {}
        BY <1>8 DEF TargetsOf
      <4> QED
        BY <4>1 DEF Targets
    <3>2. \A i \in 1..Len(frames) : FALSE
      BY <1>7
    <3> QED
      BY <3>1, <3>2 DEF TargetsOK
  <2>8. \A i \in 1..Len(frames) : Expect(e, scopes, frames, i)
    BY <1>7
  <2> QED
    BY <2>6, <2>7, <2>8 DEF CodeInv, CodeOK
<1> QED
  BY <1>2, <1>4, <1>6, <1>9, <1>10, <1>11, <1>12 DEF IInv, Compiled

\* An action that leaves the compiler inside the function.
LEMMA StillCompiling ==
    ASSUME Compiled', phase = "compile", phase' = phase
    PROVE  IInv'
<1>1. phase' = "compile"
  OBVIOUS
<1> QED
  BY ONLY <1>1, Compiled' DEF IInv

\* A statement keeps the invariant, or ends the function.
LEMMA StatementStep ==
    ASSUME Disciplined, Compiled, phase = "compile", Statement
    PROVE  IInv'
<1>1. CASE Declare
  <2>1. Compiled'
    BY ONLY Disciplined, Compiled, <1>1, DeclareStep
  <2>2. phase' = phase
    BY ONLY <1>1 DEF Declare
  <2> QED
    BY ONLY phase = "compile", <2>1, <2>2, StillCompiling
<1>2. CASE \E v \in 0..MaxNames : Defer(v)
  <2>1. PICK v \in 0..MaxNames : Defer(v)
    BY ONLY <1>2
  <2>2. Compiled'
    BY ONLY Disciplined, Compiled, <2>1, DeferStep
  <2>3. phase' = phase
    BY ONLY <2>1 DEF Defer
  <2> QED
    BY ONLY phase = "compile", <2>2, <2>3, StillCompiling
<1>3. CASE \E k \in Forms \cap {"if", "else"}, call \in BOOLEAN : OpenIf(k = "else", call)
  <2>1. PICK k \in Forms \cap {"if", "else"}, call \in BOOLEAN : OpenIf(k = "else", call)
    BY ONLY <1>3
  <2> DEFINE h == k = "else"
  <2>2. h \in BOOLEAN /\ call \in BOOLEAN /\ OpenIf(h, call)
    BY Zenon, <2>1
  <2> HIDE DEF h
  <2>3. Compiled'
    BY ONLY Disciplined, Compiled, <2>2, OpenIfStep
  <2>4. phase' = phase
    BY ONLY <2>2 DEF OpenIf
  <2> QED
    BY ONLY phase = "compile", <2>3, <2>4, StillCompiling
<1>4. CASE \E n \in 1..MaxCases, hasDefault \in BOOLEAN : OpenSwitch(n, hasDefault)
  <2>1. PICK n \in 1..MaxCases, hasDefault \in BOOLEAN : OpenSwitch(n, hasDefault)
    BY ONLY <1>4
  <2>2. Compiled'
    BY ONLY Disciplined, Compiled, <2>1, OpenSwitchStep
  <2>3. phase' = phase
    BY ONLY <2>1 DEF OpenSwitch
  <2> QED
    BY ONLY phase = "compile", <2>2, <2>3, StillCompiling
<1>5. CASE \E k \in Forms \cap {"while", "for", "range"}, call \in BOOLEAN : OpenLoop(k, call)
  <2>1. PICK k \in Forms \cap {"while", "for", "range"}, call \in BOOLEAN : OpenLoop(k, call)
    BY ONLY <1>5
  <2>2. k \in {"while", "for", "range"}
    BY ONLY <2>1
  <2>3. Compiled'
    BY ONLY Disciplined, Compiled, <2>1, <2>2, OpenLoopStep
  <2>4. phase' = phase
    BY ONLY <2>1 DEF OpenLoop
  <2> QED
    BY ONLY phase = "compile", <2>3, <2>4, StillCompiling
<1>6. CASE NextBlock
  <2>1. Compiled'
    BY ONLY Disciplined, Compiled, <1>6, NextBlockStep
  <2>2. phase' = phase
    BY ONLY <1>6 DEF NextBlock
  <2> QED
    BY ONLY phase = "compile", <2>1, <2>2, StillCompiling
<1>7. CASE EndStatement
  <2>1. Compiled'
    BY ONLY Disciplined, Compiled, <1>7, EndStatementStep
  <2>2. phase' = phase
    BY ONLY <1>7 DEF EndStatement
  <2> QED
    BY ONLY phase = "compile", <2>1, <2>2, StillCompiling
<1>8. CASE EndLoop
  <2>1. Compiled'
    BY ONLY Disciplined, Compiled, <1>8, EndLoopStep
  <2>2. phase' = phase
    BY ONLY <1>8 DEF EndLoop
  <2> QED
    BY ONLY phase = "compile", <2>1, <2>2, StillCompiling
<1>9. CASE Break
  <2>1. Compiled'
    BY ONLY Disciplined, Compiled, <1>9, BreakStep
  <2>2. phase' = phase
    BY ONLY <1>9 DEF Break, Jump
  <2> QED
    BY ONLY phase = "compile", <2>1, <2>2, StillCompiling
<1>10. CASE Continue
  <2>1. Compiled'
    BY ONLY Disciplined, Compiled, <1>10, ContinueStep
  <2>2. phase' = phase
    BY ONLY <1>10 DEF Continue, Jump
  <2> QED
    BY ONLY phase = "compile", <2>1, <2>2, StillCompiling
<1>11. CASE Fallthrough
  <2>1. Compiled'
    BY ONLY Disciplined, Compiled, <1>11, FallthroughStep
  <2>2. phase' = phase
    BY ONLY <1>11 DEF Fallthrough, Jump
  <2> QED
    BY ONLY phase = "compile", <2>1, <2>2, StillCompiling
<1>12. CASE Return
  <2>1. Compiled'
    BY ONLY Disciplined, Compiled, <1>12, ReturnStep
  <2>2. phase' = phase
    BY ONLY <1>12 DEF Return, Jump
  <2> QED
    BY ONLY phase = "compile", <2>1, <2>2, StillCompiling
<1>13. CASE EndFunction
  <2>1. Executing' /\ phase' = "run"
    BY ONLY Disciplined, Compiled, <1>13, EndFunctionStep
  <2> QED
    BY ONLY <2>1 DEF IInv
<1> QED
  BY ONLY Statement, <1>1, <1>2, <1>3, <1>4, <1>5, <1>6, <1>7, <1>8, <1>9, <1>10, <1>11,
          <1>12, <1>13 DEF Statement

\* Statements are compiled before the code runs.
LEMMA StatementsFirst ==
    ASSUME Statement
    PROVE  phase = "compile"
<1>1. CASE Declare
  BY <1>1 DEF Declare, Compiling
<1>2. CASE \E v \in 0..MaxNames : Defer(v)
  BY <1>2 DEF Defer, Compiling
<1>3. CASE \E k \in Forms \cap {"if", "else"}, call \in BOOLEAN : OpenIf(k = "else", call)
  BY <1>3 DEF OpenIf, Compiling
<1>4. CASE \E n \in 1..MaxCases, hasDefault \in BOOLEAN : OpenSwitch(n, hasDefault)
  BY <1>4 DEF OpenSwitch, Compiling
<1>5. CASE \E k \in Forms \cap {"while", "for", "range"}, call \in BOOLEAN : OpenLoop(k, call)
  BY <1>5 DEF OpenLoop, Compiling
<1>6. CASE NextBlock \/ EndStatement \/ EndLoop
  BY <1>6 DEF NextBlock, EndStatement, EndLoop, AtBlock
<1>7. CASE Break \/ Continue \/ Fallthrough \/ Return
  BY <1>7 DEF Break, Continue, Fallthrough, Return, Jump, Compiling
<1>8. CASE EndFunction
  BY <1>8 DEF EndFunction
<1> QED
  BY <1>1, <1>2, <1>3, <1>4, <1>5, <1>6, <1>7, <1>8 DEF Statement

LEMMA RunRetStep ==
    ASSUME Executing, RunRet
    PROVE  TypeOK' /\ phase' = "done"
<1>1. phase = "run" /\ phase' = "done" /\ UNCHANGED <<cvars, rvars>>
  BY DEF RunRet, Doing, Running
<1>2. TypeOK
  BY <1>1, ExecutingType
<1> QED
  BY <1>1, <1>2 DEF TypeOK, cvars, rvars

\* The invariant is inductive, for a function of any size.
THEOREM Inductive ==
    ASSUME Disciplined, IInv, [Next]_vars
    PROVE  IInv'
<1>1. CASE Statement
  <2>1. phase = "compile" /\ Compiled
    BY <1>1, StatementsFirst DEF IInv
  <2> QED
    BY ONLY Disciplined, <1>1, <2>1, StatementStep
<1>2. CASE Execute
  <2>1. phase = "run" /\ Executing
    BY <1>2 DEF Execute, RunDecl, RunRel, RunArm, RunDefer, RunGoto, RunRet, Doing, Running, IInv
  <2>2. CASE RunDecl
    BY <2>1, <2>2, RunDeclStep DEF IInv
  <2>3. CASE RunRel
    BY <2>1, <2>3, RunRelStep DEF IInv
  <2>4. CASE RunArm
    BY <2>1, <2>4, RunArmStep DEF IInv
  <2>5. CASE RunDefer
    BY <2>1, <2>5, RunDeferStep DEF IInv
  <2>6. CASE RunGoto
    BY <2>1, <2>6, RunGotoStep DEF IInv
  <2>7. CASE RunRet
    BY <2>1, <2>7, RunRetStep DEF IInv
  <2> QED
    BY <1>2, <2>2, <2>3, <2>4, <2>5, <2>6, <2>7 DEF Execute
<1>3. CASE UNCHANGED vars
  <2>1. /\ UNCHANGED <<phase, stmts, names, pushed, scopes, jumps, frames, ended, temps, code, cur>>
        /\ UNCHANGED <<at, own, armed>>
    BY <1>3 DEF vars, cvars, rvars
  <2>2. CASE phase = "compile" /\ Compiled
    <3>1. CountInv' /\ StackInv' /\ FramesInv' /\ JumpsInv' /\ EndedInv' /\ CodeInv'
      BY <2>1, <2>2 DEF Compiled, CountInv, StackInv, FramesInv, JumpsInv, EndedInv, CodeInv
    <3> QED
      BY <2>1, <2>2, <3>1 DEF IInv, Compiled
  <2>3. CASE phase = "run" /\ Executing
    <3>1. StackInv'
      BY <2>1, <2>3 DEF Executing, StackInv
    <3>2. \E e : Emission(e)' /\ Position(e)'
      <4>1. PICK e : Emission(e) /\ Position(e)
        BY <2>3 DEF Executing
      <4>2. Now' = Now
        BY <2>1 DEF Now, Held
      <4> QED
        BY <2>1, <4>1, <4>2 DEF Emission, Position
    <3> QED
      BY <2>1, <2>3, <3>1, <3>2 DEF IInv, Executing
  <2>4. CASE phase = "done" /\ TypeOK
    BY <2>1, <2>4 DEF IInv, TypeOK
  <2> QED
    BY <2>2, <2>3, <2>4 DEF IInv
<1> QED
  BY <1>1, <1>2, <1>3 DEF Next, Done

\* The invariant holds throughout.
THEOREM Invariance == Disciplined => (Spec => []IInv)
<1> SUFFICES ASSUME Disciplined PROVE Spec => []IInv
  OBVIOUS
<1>1. Init => IInv
  BY InitCompiled
<1>2. IInv /\ [Next]_vars => IInv'
  BY Inductive
<1> QED
  BY <1>1, <1>2, PTL DEF Spec

-----------------------------------------------------------------------------
(* What the invariant says of every state.                                  *)

LEMMA InvType ==
    ASSUME IInv
    PROVE  TypeOK
<1>1. CASE phase = "compile" /\ Compiled
  <2>1. phase \in {"compile", "run", "done"}
    BY ONLY <1>1
  <2> QED
    BY ONLY <1>1, <2>1, CompiledType
<1>2. CASE phase = "run" /\ Executing
  <2>1. phase \in {"compile", "run", "done"}
    BY ONLY <1>2
  <2> QED
    BY ONLY <1>2, <2>1, ExecutingType
<1> QED
  BY ONLY IInv, <1>1, <1>2 DEF IInv

LEMMA InvBalanced ==
    ASSUME IInv
    PROVE  ScopesBalanced
<1> SUFFICES ASSUME phase = "compile"
             PROVE  Len(scopes) = 1 + Len(frames) + Cardinality(Loops)
  BY DEF ScopesBalanced
<1>1. frames \in Seq(FrameRecs) /\ Len(scopes) = Depth(frames, Len(frames) + 1)
  BY DEF IInv, Compiled, FramesInv, FramesOK
<1>2. Len(frames) \in Nat
  BY <1>1
<1>3. Len(scopes) = Len(frames) + 1 + Cardinality(LoopsBelow(frames, Len(frames) + 1))
  BY <1>1 DEF Depth
<1>4. LoopsBelow(frames, Len(frames) + 1) = Loops
  <2>1. (Len(frames) + 1) - 1 = Len(frames)
    BY ONLY <1>2
  <2> QED
    BY ONLY <2>1 DEF LoopsBelow, Loops
<1>5. Cardinality(LoopsBelow(frames, Len(frames) + 1)) \in Nat
  <2> DEFINE n == Len(frames) + 1
  <2>1. n \in Nat
    BY ONLY <1>2
  <2> HIDE DEF n
  <2>2. Cardinality(LoopsBelow(frames, n)) \in Nat
    BY ONLY <2>1, LoopsFinite
  <2> QED
    BY ONLY <2>2 DEF n
<1> QED
  BY ONLY <1>2, <1>3, <1>4, <1>5

\* The next instruction does only what may be done here.
LEMMA DoingIsSafe ==
    ASSUME IInv, NEW op, Doing(op)
    PROVE  /\ Executing /\ Next1.op = op
           /\ \E e, t : Effect(e, Next1, Now, t)
<1>1. phase = "run" /\ Next1.op = op
  BY DEF Doing, Running
<1>2. Executing
  BY ONLY <1>1, IInv DEF IInv
<1>3. PICK e, t, st : Effect(e, Next1, Now, st[at[2] + 1])
  BY ONLY <1>1, <1>2, NextIsSafe
<1> QED
  BY ONLY <1>1, <1>2, <1>3

LEMMA InvReleases ==
    ASSUME IInv
    PROVE  ReleasesOwned
<1> SUFFICES ASSUME Doing("rel") PROVE own[Next1.x] = "owned"
  BY DEF ReleasesOwned
<1>1. Executing /\ Next1.op = "rel" /\ \E e, t : Effect(e, Next1, Now, t)
  BY DoingIsSafe
<1>2. Next1.x \in Held
  BY ONLY <1>1, OwnIs DEF Effect
<1> QED
  BY ONLY <1>2 DEF Held

LEMMA InvNothingLost ==
    ASSUME IInv
    PROVE  NothingLost
<1>1. ASSUME Doing("decl") PROVE own[Next1.x] # "owned"
  <2>1. Executing /\ Next1.op = "decl" /\ \E e, t : Effect(e, Next1, Now, t)
    BY <1>1, DoingIsSafe
  <2>2. Next1.x \in Names \ Held
    BY ONLY <2>1, OwnIs DEF Effect
  <2> QED
    BY ONLY <2>2 DEF Held
<1>2. ASSUME Doing("ret"), NEW x \in 1..MaxNames PROVE own[x] # "owned"
  <2>1. Executing /\ Next1.op = "ret" /\ \E e, t : Effect(e, Next1, Now, t)
    BY <1>2, DoingIsSafe
  <2>2. Held = {}
    BY ONLY <2>1, OwnIs DEF Effect
  <2> QED
    BY ONLY <2>2, x \in 1..MaxNames DEF Held, Names
<1> QED
  BY <1>1, <1>2 DEF NothingLost

LEMMA InvDefers ==
    ASSUME IInv
    PROVE  DefersOnce /\ DefersLive
<1>1. ASSUME Doing("defer")
      PROVE  Next1.x \in armed /\ (Next1.v # 0 => own[Next1.v] = "owned")
  <2>1. Executing /\ Next1.op = "defer" /\ \E e, t : Effect(e, Next1, Now, t)
    BY <1>1, DoingIsSafe
  <2>2. Next1.x \in armed /\ Next1.v \in Held \cup {0}
    BY ONLY <2>1, OwnIs DEF Effect
  <2> QED
    BY ONLY <2>2 DEF Held
<1>2. ASSUME Doing("arm") PROVE Next1.x \notin armed
  <2>1. Executing /\ Next1.op = "arm" /\ \E e, t : Effect(e, Next1, Now, t)
    BY <1>2, DoingIsSafe
  <2> QED
    BY ONLY <2>1, OwnIs DEF Effect
<1>3. ASSUME Doing("ret") PROVE armed = {}
  <2>1. Executing /\ Next1.op = "ret" /\ \E e, t : Effect(e, Next1, Now, t)
    BY <1>3, DoingIsSafe
  <2> QED
    BY ONLY <2>1, OwnIs DEF Effect
<1>4. DefersOnce
  BY <1>1, <1>2, <1>3 DEF DefersOnce
<1>5. DefersLive
  BY <1>1 DEF DefersLive
<1> QED
  BY ONLY <1>4, <1>5

LEMMA InvTerminated ==
    ASSUME IInv
    PROVE  Terminated
<1> SUFFICES ASSUME phase = "run" PROVE Running
  BY DEF Terminated
<1>1. Executing
  BY ONLY phase = "run", IInv DEF IInv
<1> QED
  BY ONLY phase = "run", <1>1, NextIsSafe

-----------------------------------------------------------------------------
(* The properties, for a function of any size.                              *)

\* The compiler and the code it emits stay within their types: a scope holds
\* names that were given, and a branch leads to a block that exists.
THEOREM TypeCorrect == Disciplined => (Spec => []TypeOK)
<1> SUFFICES ASSUME Disciplined PROVE Spec => []TypeOK
  OBVIOUS
<1>1. IInv => TypeOK
  BY InvType
<1> QED
  BY <1>1, Invariance, PTL

\* variable_manager.c: every construct leaves the scope stack as deep as it
\* found it, whichever of its blocks a statement left.
THEOREM ScopesBalancedHolds == Disciplined => (Spec => []ScopesBalanced)
<1> SUFFICES ASSUME Disciplined PROVE Spec => []ScopesBalanced
  OBVIOUS
<1>1. IInv => ScopesBalanced
  BY InvBalanced
<1> QED
  BY <1>1, Invariance, PTL

\* On no path through the emitted code is a variable released that holds no
\* reference, whatever nesting of statements produced the code.
THEOREM ReleasesOwnedHolds == Disciplined => (Spec => []ReleasesOwned)
<1> SUFFICES ASSUME Disciplined PROVE Spec => []ReleasesOwned
  OBVIOUS
<1>1. IInv => ReleasesOwned
  BY InvReleases
<1> QED
  BY <1>1, Invariance, PTL

\* On no path is a reference overwritten, or still held where the function
\* returns: every way out of a block runs the callbacks it owes.
THEOREM NothingLostHolds == Disciplined => (Spec => []NothingLost)
<1> SUFFICES ASSUME Disciplined PROVE Spec => []NothingLost
  OBVIOUS
<1>1. IInv => NothingLost
  BY InvNothingLost
<1> QED
  BY <1>1, Invariance, PTL

\* A deferred block runs exactly once after control passed its statement,
\* before the statement is reached again and before the function returns.
THEOREM DefersOnceHolds == Disciplined => (Spec => []DefersOnce)
<1> SUFFICES ASSUME Disciplined PROVE Spec => []DefersOnce
  OBVIOUS
<1>1. IInv => DefersOnce
  BY InvDefers
<1> QED
  BY <1>1, Invariance, PTL

\* A deferred block runs before the callbacks release the variable it uses.
THEOREM DefersLiveHolds == Disciplined => (Spec => []DefersLive)
<1> SUFFICES ASSUME Disciplined PROVE Spec => []DefersLive
  OBVIOUS
<1>1. IInv => DefersLive
  BY InvDefers
<1> QED
  BY <1>1, Invariance, PTL

\* Every block of the emitted code ends in a branch or a return.
THEOREM TerminatedHolds == Disciplined => (Spec => []Terminated)
<1> SUFFICES ASSUME Disciplined PROVE Spec => []Terminated
  OBVIOUS
<1>1. IInv => Terminated
  BY InvTerminated
<1> QED
  BY <1>1, Invariance, PTL

=============================================================================
