--------------------------- MODULE FrontEndProofs ---------------------------
(***************************************************************************)
(* What the front end reads, for any command line and any files: every     *)
(* file that the source reaches over imports once, and what the command    *)
(* line names.                                                             *)
(***************************************************************************)
EXTENDS FrontEnd, SequenceTheorems, WellFoundedInduction, TLAPS

-----------------------------------------------------------------------------
(* Sweeps.                                                                  *)

LEMMA Induction ==
    ASSUME NEW S \in SUBSET Nat, 0 \in S, \A n \in S : n + 1 \in S
    PROVE  S = Nat
<1> SUFFICES ASSUME NEW m \in Nat, m \notin S PROVE FALSE
  OBVIOUS
<1> DEFINE R == OpToRel(<, Nat)
<1>1. IsWellFoundedOn(R, Nat)
  BY NatLessThanWellFounded
<1>2. PICK n \in Nat \ S : \A k \in Nat \ S : <<k, n>> \notin R
  BY <1>1, WFMin
<1>3. n # 0 /\ n - 1 \in Nat
  OBVIOUS
<1>4. n - 1 \notin S
  <2>1. n - 1 + 1 = n
    OBVIOUS
  <2> QED
    BY <2>1
<1>5. <<n - 1, n>> \in R
  BY <1>3 DEF OpToRel
<1> QED
  BY <1>2, <1>3, <1>4, <1>5

\* r has what a fold with the given step has behind each of n members.
Swept(r, n, base, step) ==
    r = [i \in 0..n |-> IF i = 0 THEN base ELSE step[<<i, r[i - 1]>>]]

LEMMA SweepExists ==
    ASSUME NEW X, NEW base \in X, NEW step \in [Nat \X X -> X]
    PROVE  \A n \in Nat : \E r \in [0..n -> X] : Swept(r, n, base, step)
<1> DEFINE S == {n \in Nat : \E r \in [0..n -> X] : Swept(r, n, base, step)}
<1>1. 0 \in S
  <2> DEFINE r == [i \in 0..0 |-> base]
  <2>1. r \in [0..0 -> X]
    OBVIOUS
  <2>2. Swept(r, 0, base, step)
    BY DEF Swept
  <2> HIDE DEF r
  <2> QED
    BY <2>1, <2>2
<1>2. ASSUME NEW n \in S PROVE n + 1 \in S
  <2>1. PICK r \in [0..n -> X] : Swept(r, n, base, step)
    OBVIOUS
  <2> DEFINE q == [i \in 0..(n + 1) |-> IF i = n + 1 THEN step[<<i, r[n]>>] ELSE r[i]]
  <2>2. r[n] \in X /\ step[<<n + 1, r[n]>>] \in X
    <3>1. <<n + 1, r[n]>> \in Nat \X X
      OBVIOUS
    <3> QED
      BY <3>1
  <2>3. q \in [0..(n + 1) -> X]
    BY <2>2
  <2>4. ASSUME NEW i \in 0..(n + 1)
        PROVE  q[i] = IF i = 0 THEN base ELSE step[<<i, q[i - 1]>>]
    <3>1. CASE i = n + 1
      <4>1. q[n] = r[n]
        OBVIOUS
      <4> QED
        BY <3>1, <4>1
    <3>2. CASE i \in 0..n
      <4>1. r[i] = IF i = 0 THEN base ELSE step[<<i, r[i - 1]>>]
        BY <2>1, <3>2 DEF Swept
      <4>2. q[i] = r[i] /\ (i # 0 => q[i - 1] = r[i - 1])
        BY <3>2
      <4> HIDE DEF q
      <4> QED
        BY <4>1, <4>2
    <3> QED
      BY <3>1, <3>2
  <2> HIDE DEF q
  <2>5. Swept(q, n + 1, base, step)
    BY <2>3, <2>4 DEF Swept
  <2> QED
    BY <2>3, <2>5
<1> HIDE DEF S
<1>3. S = Nat
  <2>1. S \in SUBSET Nat
    BY DEF S
  <2> QED
    BY <1>1, <1>2, <2>1, Induction
<1> QED
  BY <1>3 DEF S
-----------------------------------------------------------------------------
(* What is written for an item: an import is the only one that has an       *)
(* import line, and has one.                                                *)

\* Of whatever members.
Sequence(s) == s \in Seq(Range(s))

\* Without an import line.
Free(s) == Sequence(s) /\ \A n \in 1..Len(s) : s[n][1] # "import"

\* A rule is about one kind of declarations or about all.
Ruled(i) == i.kind = "rule" => i.arg \in Exportable \cup {""}

LEMMA SequenceIs ==
    ASSUME NEW S, NEW s \in Seq(S)
    PROVE  Sequence(s)
BY DEF Sequence, Range

LEMMA Joined ==
    ASSUME NEW s, Sequence(s), NEW t, Sequence(t)
    PROVE  /\ Sequence(s \o t) /\ Len(s \o t) = Len(s) + Len(t)
           /\ \A n \in 1..Len(s) : (s \o t)[n] = s[n]
           /\ \A n \in 1..Len(t) : (s \o t)[Len(s) + n] = t[n]
<1> DEFINE U == Range(s) \cup Range(t)
<1>1. s \in Seq(U) /\ t \in Seq(U)
  BY DEF Sequence
<1> HIDE DEF U
<1>2. s \o t \in Seq(U)
  BY <1>1
<1>3. Sequence(s \o t)
  BY <1>2, SequenceIs
<1>4. /\ Len(s \o t) = Len(s) + Len(t)
      /\ \A n \in 1..Len(s) : (s \o t)[n] = s[n]
      /\ \A n \in 1..Len(t) : (s \o t)[Len(s) + n] = t[n]
  BY <1>1
<1> QED
  BY <1>3, <1>4

LEMMA FreeJoined ==
    ASSUME NEW s, Free(s), NEW t, Free(t)
    PROVE  Free(s \o t)
<1>1. Sequence(s) /\ Sequence(t) /\ Len(s) \in Nat /\ Len(t) \in Nat
  BY DEF Free, Sequence
<1>2. /\ Sequence(s \o t) /\ Len(s \o t) = Len(s) + Len(t)
      /\ \A n \in 1..Len(s) : (s \o t)[n] = s[n]
      /\ \A n \in 1..Len(t) : (s \o t)[Len(s) + n] = t[n]
  BY <1>1, Joined
<1>3. ASSUME NEW n \in 1..Len(s \o t) PROVE (s \o t)[n][1] # "import"
  <2>1. CASE n \in 1..Len(s)
    BY <1>2, <2>1 DEF Free
  <2>2. CASE n \notin 1..Len(s)
    <3>1. n - Len(s) \in 1..Len(t) /\ Len(s) + (n - Len(s)) = n
      BY <1>1, <1>2, <2>2
    <3>2. (s \o t)[n] = t[n - Len(s)]
      BY <1>2, <3>1
    <3> QED
      BY <3>1, <3>2 DEF Free
  <2> QED
    BY <2>1, <2>2
<1> QED
  BY <1>2, <1>3 DEF Free

LEMMA FreeAll ==
    ASSUME NEW S, \A x \in S : x[1] # "import", NEW s \in Seq(S)
    PROVE  Free(s)
BY SequenceIs DEF Free

\* The lexemes below, one by one: what a brace or the end of a line is spelled
\* like does not matter.
LEMMA LexemesAre ==
    /\ NL[1] # "import"
    /\ \A k : K(k)[1] = k /\ Brace(k)[1] = k
    /\ \A s : Id(s)[1] # "import" /\ Ty(s)[1] # "import" /\ <<"cstr", s>>[1] # "import"
<1>1. NL[1] # "import"
  BY DEF NL
<1>2. \A k : K(k)[1] = k
  BY DEF K
<1>3. \A k : Brace(k)[1] = k
  BY DEF Brace
<1>4. \A s : Id(s)[1] # "import" /\ Ty(s)[1] # "import" /\ <<"cstr", s>>[1] # "import"
  BY DEF Id, Ty
<1> QED
  BY <1>1, <1>2, <1>3, <1>4, Zenon

LEMMA BracesAre ==
    \A b \in {Brace("{\\n"), Brace("\\n{"), K("}")} : b[1] # "import"
<1>1. "{\\n" # "import" /\ "\\n{" # "import" /\ "}" # "import"
  BY Zenon
<1>2. Brace("{\\n")[1] # "import" /\ Brace("\\n{")[1] # "import" /\ K("}")[1] # "import"
  BY <1>1, LexemesAre, Zenon
<1> QED
  BY <1>2, Zenon

LEMMA BodiesAre ==
    ASSUME NEW i, i.kind \in Braced
    PROVE  Free(Bodies(i))
<1> DEFINE open == Brace("{\\n")
           close == K("}")
           nl == NL
           O == {K("func"), K("return"), K("("), K(")"), close, open, Id("run"), Id("e"), Id("a"),
                 Ty(i.use), nl}
<1>1. /\ Statement = <<Id("e"), nl>> /\ Field(i.use) = <<Ty(i.use), Id("a"), nl>>
      /\ Promise = <<K("func"), Id("run"), K("("), K(")"), nl>>
      /\ Result = <<K("return"), Id("e"), nl>>
      /\ Method = <<K("func"), Id("run"), K("("), K(")"), open, Id("e"), nl, close, nl>>
  BY Zenon DEF Statement, Field, Promise, Method, Result
<1>2. open[1] # "import" /\ close[1] # "import" /\ nl[1] # "import"
  BY BracesAre, LexemesAre, Zenon
<1>3. \/ Bodies(i) = Statement \/ Bodies(i) = Field(i.use) \/ Bodies(i) = Field(i.use) \o Method
      \/ Bodies(i) = Promise \/ Bodies(i) = Result \/ Bodies(i) = <<Id("a"), nl>>
  BY DEF Bodies, Braced
<1> HIDE DEF open, close, nl
<1>4. \A x \in O : x[1] # "import"
  <2>1. /\ K("func")[1] # "import" /\ K("return")[1] # "import"
        /\ K("(")[1] # "import" /\ K(")")[1] # "import"
    BY LexemesAre
  <2> QED
    BY <1>2, <2>1, LexemesAre
<1>5. Statement \in Seq(O) /\ Field(i.use) \in Seq(O) /\ <<Id("a"), nl>> \in Seq(O)
  BY <1>1
<1>6. Promise \in Seq(O) /\ Method \in Seq(O) /\ Result \in Seq(O)
  BY <1>1
<1> HIDE DEF O
<1>7. Bodies(i) \in Seq(O)
  <2>1. Field(i.use) \o Method \in Seq(O)
    BY <1>5, <1>6
  <2> QED
    BY <1>3, <1>5, <1>6, <2>1
<1> QED
  BY <1>4, <1>7, FreeAll

LEMMA HeadIs ==
    ASSUME NEW i, i.kind \in Exportable \cup {"extern", "generic", "rule"}, Ruled(i)
    PROVE  Free(HeadText(i))
<1> DEFINE nl == NL
           open == K("(")
           close == K(")")
           O == {K("func"), K("extern"), open, close, K("<"), K(">"), K(":"), K("gen"),
                 K("class"), K("typedef"), K("static"), K("export"), K(i.kind), Id(i.name),
                 Id(i.arg), Id("a"), Id("T"), Ty(i.use), <<"cstr", i.name>>, nl}
           P == IF i.kind = "rule" /\ K(i.arg)[1] # "import" THEN O \cup {K(i.arg)} ELSE O
<1>1. \A x \in O : x[1] # "import"
  <2>1. nl[1] # "import" /\ open[1] # "import" /\ close[1] # "import"
    BY LexemesAre
  <2>2. K(i.kind)[1] # "import"
    BY LexemesAre DEF Exportable
  <2> HIDE DEF nl, open, close
  <2> QED
    BY <2>1, <2>2, LexemesAre
<1>2. \A x \in P : x[1] # "import"
  <2> HIDE DEF O
  <2> QED
    BY <1>1
<1>3. \/ HeadText(i) = <<K("func"), Id(i.name), open, Ty(i.use), Id("a"), close>>
      \/ HeadText(i) = <<K("extern"), K("func"), Id(i.name), open, Ty(i.use), close, nl>>
      \/ HeadText(i) = <<K("func"), Id(i.name), K("<"), Id("T"), K(">"), open, Id("T"), Id("a"), close>>
      \/ HeadText(i) = <<K("gen"), Id(i.name), open, close, K(":"), Ty(i.use)>>
      \/ HeadText(i) = <<K("class"), Id(i.name), open, Id(i.arg), close>>
      \/ HeadText(i) = <<K("typedef"), Ty(i.use), Id(i.name), nl>>
      \/ HeadText(i) = <<K("static"), Ty(i.use), Id(i.name), nl>>
      \/ HeadText(i) = <<K("export"), <<"cstr", i.name>>, nl>>
      \/ /\ i.kind = "rule" /\ K(i.arg)[1] # "import"
         /\ HeadText(i) = <<K("export"), open, K(i.arg), close, <<"cstr", i.name>>, nl>>
      \/ HeadText(i) = <<K(i.kind), Id(i.name)>>
  <2>1. CASE i.kind = "rule"
    <3>1. i.arg # "" => K(i.arg)[1] # "import"
      <4>1. ASSUME i.arg # "" PROVE i.arg # "import"
        <5>1. i.arg \in Exportable
          BY <2>1, <4>1, Zenon DEF Ruled
        <5> QED
          BY <5>1 DEF Exportable
      <4> QED
        BY <4>1, LexemesAre, Zenon
    <3>2. HeadText(i) = IF i.arg = "" THEN <<K("export"), <<"cstr", i.name>>, nl>>
                        ELSE <<K("export"), open, K(i.arg), close, <<"cstr", i.name>>, nl>>
      BY <2>1, Zenon DEF HeadText
    <3> QED
      BY <2>1, <3>1, <3>2, Zenon
  <2>2. CASE i.kind = "class"
    <3>1. HeadText(i) = IF i.arg # "" THEN <<K("class"), Id(i.name), open, Id(i.arg), close>>
                        ELSE <<K(i.kind), Id(i.name)>>
      BY <2>2, Zenon DEF HeadText
    <3> QED
      BY <3>1, Zenon
  <2>3. CASE i.kind \in {"struct", "enum", "interface"}
    <3>1. HeadText(i) = <<K(i.kind), Id(i.name)>>
      BY <2>3, Zenon DEF HeadText
    <3> QED
      BY <3>1, Zenon
  <2>4. CASE i.kind \in {"func", "extern", "generic"}
    BY <2>4, Zenon DEF HeadText
  <2>5. CASE i.kind \in {"gen", "typedef", "static"}
    BY <2>5, Zenon DEF HeadText
  <2> QED
    BY <2>1, <2>2, <2>3, <2>4, <2>5, Zenon DEF Exportable
<1>4. /\ K("func") \in P /\ K("extern") \in P /\ open \in P /\ close \in P /\ K("<") \in P
      /\ K(">") \in P /\ K(":") \in P /\ K("gen") \in P /\ K("class") \in P
      /\ K("typedef") \in P /\ K("static") \in P /\ K("export") \in P /\ K(i.kind) \in P
  OBVIOUS
<1>5. /\ Id(i.name) \in P /\ Id(i.arg) \in P /\ Id("a") \in P /\ Id("T") \in P
      /\ Ty(i.use) \in P /\ <<"cstr", i.name>> \in P /\ nl \in P
      /\ i.kind = "rule" /\ K(i.arg)[1] # "import" => K(i.arg) \in P
  OBVIOUS
<1> HIDE DEF O, P, nl, open, close
<1>6. HeadText(i) \in Seq(P)
  <2>1. /\ <<K("func"), Id(i.name), open, Ty(i.use), Id("a"), close>> \in Seq(P)
        /\ <<K("extern"), K("func"), Id(i.name), open, Ty(i.use), close, nl>> \in Seq(P)
    BY <1>4, <1>5
  <2>2. /\ <<K("func"), Id(i.name), K("<"), Id("T"), K(">"), open, Id("T"), Id("a"), close>> \in Seq(P)
        /\ <<K("gen"), Id(i.name), open, close, K(":"), Ty(i.use)>> \in Seq(P)
    BY <1>4, <1>5
  <2>3. /\ <<K("class"), Id(i.name), open, Id(i.arg), close>> \in Seq(P)
        /\ <<K("typedef"), Ty(i.use), Id(i.name), nl>> \in Seq(P)
        /\ <<K("static"), Ty(i.use), Id(i.name), nl>> \in Seq(P)
    BY <1>4, <1>5
  <2>4. /\ <<K("export"), <<"cstr", i.name>>, nl>> \in Seq(P)
        /\ <<K(i.kind), Id(i.name)>> \in Seq(P)
    BY <1>4, <1>5
  <2>5. i.kind = "rule" /\ K(i.arg)[1] # "import" =>
           <<K("export"), open, K(i.arg), close, <<"cstr", i.name>>, nl>> \in Seq(P)
    BY <1>4, <1>5
  <2> QED
    BY <1>3, <2>1, <2>2, <2>3, <2>4, <2>5, Zenon
<1> QED
  BY <1>2, <1>6, FreeAll

LEMMA SourceFree ==
    ASSUME NEW i, i.kind \in Exportable \cup {"extern", "generic", "rule"}, Ruled(i)
    PROVE  Free(Source(i))
<1> DEFINE mark == IF i.mark = "export" THEN <<K("export")>> ELSE <<>>
           close == <<K("}"), NL>>
           rest == IF i.kind \in Braced THEN Open(i) \o Bodies(i) \o close ELSE <<>>
           a == Brace("{\\n")
           b == Brace("\\n{")
           c == K("}")
           nl == NL
           O == {K("export"), a, b, c, nl}
<1>1. Free(HeadText(i))
  BY HeadIs
<1>2. \A x \in O : x[1] # "import"
  <2>1. K("export")[1] # "import"
    BY LexemesAre
  <2>2. a[1] # "import" /\ b[1] # "import" /\ c[1] # "import" /\ nl[1] # "import"
    BY BracesAre, LexemesAre, Zenon
  <2> QED
    BY <2>1, <2>2, Zenon
<1>3. /\ mark = <<K("export")>> \/ mark = <<>>
      /\ Open(i) = <<a>> \/ Open(i) = <<b, nl>>
      /\ close = <<c, nl>>
  BY Zenon DEF Open
<1>4. Free(mark) /\ Free(Open(i)) /\ Free(close) /\ Free(<<>>)
  <2> HIDE DEF mark, close, a, b, c, nl
  <2>1. /\ <<K("export")>> \in Seq(O) /\ <<a>> \in Seq(O) /\ <<b, nl>> \in Seq(O)
        /\ <<c, nl>> \in Seq(O) /\ <<>> \in Seq(O)
    OBVIOUS
  <2>2. mark \in Seq(O) /\ Open(i) \in Seq(O) /\ close \in Seq(O)
    BY <1>3, <2>1, Zenon
  <2> HIDE DEF O
  <2> QED
    BY <1>2, <2>1, <2>2, FreeAll
<1> HIDE DEF close
<1>5. Free(rest)
  <2>1. CASE i.kind \in Braced
    <3>1. Free(Bodies(i))
      BY <2>1, BodiesAre
    <3>2. Free(Open(i) \o Bodies(i))
      BY <1>4, <3>1, FreeJoined
    <3>3. Free((Open(i) \o Bodies(i)) \o close)
      BY <1>4, <3>2, FreeJoined
    <3> QED
      BY <2>1, <3>3
  <2>2. CASE i.kind \notin Braced
    BY <1>4, <2>2
  <2> QED
    BY <2>1, <2>2
<1>6. Source(i) = (mark \o HeadText(i)) \o rest
  BY Zenon DEF Source, close
<1> HIDE DEF mark, rest
<1>7. Free(mark \o HeadText(i))
  BY <1>1, <1>4, FreeJoined
<1>8. Free((mark \o HeadText(i)) \o rest)
  BY <1>5, <1>7, FreeJoined
<1> QED
  BY <1>6, <1>8

\* The names in the import lines of a text.
NamesIn(text) == {text[n][2] : n \in {n \in 1..Len(text) : text[n][1] = "import"}}

LEMMA NamesJoined ==
    ASSUME NEW s, Sequence(s), NEW t, Sequence(t)
    PROVE  NamesIn(s \o t) = NamesIn(s) \cup NamesIn(t)
<1>1. Len(s) \in Nat /\ Len(t) \in Nat
  BY DEF Sequence
<1>2. /\ Len(s \o t) = Len(s) + Len(t)
      /\ \A n \in 1..Len(s) : (s \o t)[n] = s[n]
      /\ \A n \in 1..Len(t) : (s \o t)[Len(s) + n] = t[n]
  BY Joined
<1> DEFINE u == s \o t
<1> HIDE DEF u
<1>3. /\ Len(u) = Len(s) + Len(t)
      /\ \A n \in 1..Len(s) : u[n] = s[n]
      /\ \A n \in 1..Len(t) : u[Len(s) + n] = t[n]
  BY <1>2 DEF u
<1>4. ASSUME NEW x \in NamesIn(u) PROVE x \in NamesIn(s) \cup NamesIn(t)
  <2>1. PICK n \in 1..Len(u) : u[n][1] = "import" /\ x = u[n][2]
    BY <1>4 DEF NamesIn
  <2>2. CASE n \in 1..Len(s)
    BY <1>3, <2>1, <2>2 DEF NamesIn
  <2>3. CASE n \notin 1..Len(s)
    <3>1. n - Len(s) \in 1..Len(t) /\ Len(s) + (n - Len(s)) = n
      BY <1>1, <1>3, <2>3
    <3>2. u[n] = t[n - Len(s)]
      BY <1>3, <3>1
    <3> QED
      BY <2>1, <3>1, <3>2 DEF NamesIn
  <2> QED
    BY <2>2, <2>3
<1>5. ASSUME NEW x \in NamesIn(s) PROVE x \in NamesIn(u)
  <2>1. PICK n \in 1..Len(s) : s[n][1] = "import" /\ x = s[n][2]
    BY <1>5 DEF NamesIn
  <2>2. n \in 1..Len(u) /\ u[n] = s[n]
    BY <1>1, <1>3
  <2> QED
    BY <2>1, <2>2 DEF NamesIn
<1>6. ASSUME NEW x \in NamesIn(t) PROVE x \in NamesIn(u)
  <2>1. PICK n \in 1..Len(t) : t[n][1] = "import" /\ x = t[n][2]
    BY <1>6 DEF NamesIn
  <2>2. Len(s) + n \in 1..Len(u) /\ u[Len(s) + n] = t[n]
    BY <1>1, <1>3
  <2> QED
    BY <2>1, <2>2 DEF NamesIn
<1>7. NamesIn(u) = NamesIn(s) \cup NamesIn(t)
  BY <1>4, <1>5, <1>6
<1> QED
  BY <1>7 DEF u

\* What an item imports.
Names(i) == IF i.kind = "import" THEN {i.name} ELSE {}

LEMMA SourceNames ==
    ASSUME NEW i \in Items, Ruled(i)
    PROVE  Sequence(Source(i)) /\ NamesIn(Source(i)) = Names(i)
<1>1. i.kind \in Exportable \cup {"extern", "generic", "import", "rule"}
  BY DEF Items
<1>2. CASE i.kind # "import"
  <2>1. Free(Source(i))
    BY <1>1, <1>2, SourceFree
  <2> QED
    BY <1>2, <2>1 DEF Free, NamesIn, Names
<1>3. CASE i.kind = "import"
  <2> DEFINE mark == IF i.mark = "export" THEN <<K("export")>> ELSE <<>>
  <2>1. HeadText(i) = <<<<"import", i.name>>, NL>>
    BY <1>3 DEF HeadText
  <2>2. HeadText(i) \in Seq({<<"import", i.name>>, NL}) /\ mark \in Seq({K("export")})
        /\ <<>> \in Seq({NL})
    BY <2>1
  <2>3. Source(i) = (mark \o HeadText(i)) \o <<>>
    BY <1>3 DEF Source, Braced
  <2>4. NamesIn(HeadText(i)) = {i.name}
    <3>1. Len(HeadText(i)) = 2 /\ HeadText(i)[1] = <<"import", i.name>> /\ HeadText(i)[2] = NL
      BY <2>1
    <3>2. HeadText(i)[1][1] = "import" /\ HeadText(i)[1][2] = i.name /\ HeadText(i)[2][1] # "import"
      BY <3>1, LexemesAre
    <3>3. 1..2 = {1, 2}
      OBVIOUS
    <3> QED
      BY <3>1, <3>2, <3>3 DEF NamesIn
  <2>5. NamesIn(mark) = {}
    <3>1. \A n \in 1..Len(mark) : mark[n][1] # "import"
      BY DEF K
    <3> QED
      BY <3>1 DEF NamesIn
  <2>6. NamesIn(<<>>) = {}
    BY DEF NamesIn
  <2>7. Sequence(HeadText(i)) /\ Sequence(mark) /\ Sequence(<<>>)
    <3> HIDE DEF mark
    <3> QED
      BY <2>2, SequenceIs
  <2> HIDE DEF mark
  <2>8. Sequence(mark \o HeadText(i)) /\ NamesIn(mark \o HeadText(i)) = {i.name}
    <3>1. NamesIn(mark \o HeadText(i)) = NamesIn(mark) \cup NamesIn(HeadText(i))
      BY <2>7, NamesJoined
    <3> QED
      BY <2>4, <2>5, <2>7, <3>1, Joined
  <2>9. /\ Sequence((mark \o HeadText(i)) \o <<>>)
        /\ NamesIn((mark \o HeadText(i)) \o <<>>) = {i.name}
    BY <2>6, <2>7, <2>8, NamesJoined, Joined
  <2> QED
    BY <1>3, <2>3, <2>9 DEF Names
<1> QED
  BY <1>2, <1>3

-----------------------------------------------------------------------------
(* The text of a file has the import lines of its items.                    *)

LEMMA TextExists ==
    ASSUME NEW items \in Seq(Items), \A n \in 1..Len(items) : Ruled(items[n])
    PROVE  \E r : r = [n \in 0..Len(items) |-> IF n = 0 THEN <<>> ELSE r[n - 1] \o Source(items[n])]
<1> DEFINE N == Len(items)
           U == UNION {Range(Source(items[n])) : n \in 1..N}
           step == [p \in Nat \X Seq(U) |->
                       IF p[1] \in 1..N THEN p[2] \o Source(items[p[1]]) ELSE <<>>]
<1>1. ASSUME NEW n \in 1..N PROVE Source(items[n]) \in Seq(U)
  <2>1. items[n] \in Items /\ Ruled(items[n])
    OBVIOUS
  <2>2. Source(items[n]) \in Seq(Range(Source(items[n])))
    BY <2>1, SourceNames DEF Sequence
  <2>3. Range(Source(items[n])) \subseteq U
    OBVIOUS
  <2> HIDE DEF U
  <2> QED
    BY <2>2, <2>3
<1> HIDE DEF U
<1>2. step \in [Nat \X Seq(U) -> Seq(U)]
  BY <1>1
<1>3. N \in Nat /\ <<>> \in Seq(U)
  OBVIOUS
<1>4. PICK r \in [0..N -> Seq(U)] : Swept(r, N, <<>>, step)
  <2> HIDE DEF step
  <2> QED
    BY <1>2, <1>3, SweepExists
<1>5. ASSUME NEW n \in 0..N, n # 0 PROVE step[<<n, r[n - 1]>>] = r[n - 1] \o Source(items[n])
  <2>1. r[n - 1] \in Seq(U) /\ n \in 1..N /\ n \in Nat
    BY <1>3, <1>5
  <2> QED
    BY <2>1
<1> HIDE DEF step
<1>6. r = [n \in 0..N |-> IF n = 0 THEN <<>> ELSE r[n - 1] \o Source(items[n])]
  BY <1>4, <1>5 DEF Swept
<1> QED
  BY <1>6

LEMMA TextNames ==
    ASSUME NEW items \in Seq(Items), \A n \in 1..Len(items) : Ruled(items[n])
    PROVE  /\ Sequence(Text(items))
           /\ NamesIn(Text(items)) = UNION {Names(items[n]) : n \in 1..Len(items)}
<1> DEFINE N == Len(items)
           s == [n \in 1..Len(items) |-> Source(items[n])]
           R == CHOOSE r : r = [n \in 0..Len(s) |-> IF n = 0 THEN <<>> ELSE r[n - 1] \o s[n]]
           Up(n) == UNION {Names(items[m]) : m \in 1..n}
           S == {n \in Nat : n <= N => Sequence(R[n]) /\ NamesIn(R[n]) = Up(n)}
<1>1. Text(items) = R[Len(s)]
  BY DEF Text, Flatten, Sweep
<1>2. N \in Nat /\ Len(s) = N
  OBVIOUS
<1>3. R = [n \in 0..Len(s) |-> IF n = 0 THEN <<>> ELSE R[n - 1] \o s[n]]
  <2>1. PICK r : r = [n \in 0..N |-> IF n = 0 THEN <<>> ELSE r[n - 1] \o Source(items[n])]
    BY TextExists
  <2>2. \A n \in 0..N : n # 0 => s[n] = Source(items[n])
    BY <1>2
  <2> HIDE DEF s
  <2>3. r = [n \in 0..Len(s) |-> IF n = 0 THEN <<>> ELSE r[n - 1] \o s[n]]
    BY <1>2, <2>1, <2>2
  <2> QED
    BY <2>3
<1> HIDE DEF R
<1>4. \A n \in 0..N : R[n] = IF n = 0 THEN <<>> ELSE R[n - 1] \o s[n]
  <2> DEFINE q == [n \in 0..Len(s) |-> IF n = 0 THEN <<>> ELSE R[n - 1] \o s[n]]
  <2>1. R = q
    BY <1>3
  <2> HIDE DEF s
  <2>2. \A n \in 0..N : q[n] = IF n = 0 THEN <<>> ELSE R[n - 1] \o s[n]
    BY <1>2
  <2> HIDE DEF q
  <2> QED
    BY <2>1, <2>2
<1>5. ASSUME NEW n \in Nat, n + 1 <= N PROVE R[n + 1] = R[n] \o Source(items[n + 1])
  <2>1. n + 1 \in 0..N /\ n + 1 # 0 /\ n + 1 - 1 = n
    BY <1>2, <1>5
  <2>2. s[n + 1] = Source(items[n + 1])
    BY <1>2, <1>5
  <2> HIDE DEF s, N
  <2> DEFINE m == n + 1
  <2>3. R[m] = IF m = 0 THEN <<>> ELSE R[m - 1] \o s[m]
    <3>1. m \in 0..N
      BY <2>1
    <3> HIDE DEF m
    <3> QED
      BY <1>4, <3>1, Zenon
  <2>4. R[m] = R[m - 1] \o s[m]
    <3>1. m # 0
      BY <2>1
    <3> HIDE DEF m
    <3> QED
      BY <2>3, <3>1, Zenon
  <2>5. R[m - 1] = R[n] /\ s[m] = Source(items[m])
    BY <2>1, <2>2
  <2> QED
    BY <2>4, <2>5, Zenon
<1>6. 0 \in S
  <2>1. Sequence(<<>>)
    <3>1. <<>> \in Seq({})
      OBVIOUS
    <3> QED
      BY <3>1, SequenceIs
  <2>2. NamesIn(<<>>) = {} /\ Up(0) = {}
    BY DEF NamesIn
  <2>3. R[0] = <<>>
    <3>1. 0 \in 0..N
      BY <1>2
    <3> HIDE DEF N, s
    <3> QED
      BY <1>4, <3>1, Zenon
  <2> QED
    BY <2>1, <2>2, <2>3
<1>7. ASSUME NEW n \in S PROVE n + 1 \in S
  <2> SUFFICES ASSUME n + 1 <= N
               PROVE  Sequence(R[n + 1]) /\ NamesIn(R[n + 1]) = Up(n + 1)
    OBVIOUS
  <2>1. n \in Nat /\ Sequence(R[n]) /\ NamesIn(R[n]) = Up(n)
    BY <1>2
  <2>2. n + 1 \in 1..N /\ items[n + 1] \in Items /\ Ruled(items[n + 1])
    BY <1>2, <2>1
  <2>3. Sequence(Source(items[n + 1])) /\ NamesIn(Source(items[n + 1])) = Names(items[n + 1])
    BY <2>2, SourceNames
  <2>4. R[n + 1] = R[n] \o Source(items[n + 1])
    BY <1>5, <2>1
  <2>5. Sequence(R[n + 1])
    BY <2>1, <2>3, <2>4, Joined
  <2>6. NamesIn(R[n + 1]) = Up(n) \cup Names(items[n + 1])
    BY <2>1, <2>3, <2>4, NamesJoined
  <2>7. Up(n + 1) = Up(n) \cup Names(items[n + 1])
    <3>1. 1..(n + 1) = (1..n) \cup {n + 1}
      BY <2>1
    <3> QED
      BY <3>1
  <2> QED
    BY <2>5, <2>6, <2>7
<1>8. S = Nat
  <2>1. S \in SUBSET Nat
    OBVIOUS
  <2> HIDE DEF S
  <2> QED
    BY <1>6, <1>7, <2>1, Induction
<1>9. Sequence(R[N]) /\ NamesIn(R[N]) = Up(N)
  <2>1. N \in S
    BY <1>2, <1>8
  <2> QED
    BY <1>2, <2>1
<1> QED
  BY <1>1, <1>2, <1>9

-----------------------------------------------------------------------------
(* The tokens of a text have its import lines, whatever state the lexer is  *)
(* in when it begins.                                                       *)

LEMMA LexExists ==
    ASSUME NEW text, Len(text) \in Nat, NEW base
    PROVE  \E r : r = [n \in 0..Len(text) |-> IF n = 0 THEN base ELSE LexStep(r[n - 1], text[n])]
<1> DEFINE N == Len(text)
           Up(r, n) == r = [i \in 0..n |-> IF i = 0 THEN base ELSE LexStep(r[i - 1], text[i])]
           S == {n \in Nat : \E r : Up(r, n)}
<1>1. 0 \in S
  <2> DEFINE r == [i \in 0..0 |-> base]
  <2>1. Up(r, 0)
    OBVIOUS
  <2> QED
    BY <2>1
<1>2. ASSUME NEW n \in S PROVE n + 1 \in S
  <2>1. PICK r : Up(r, n)
    OBVIOUS
  <2>2. \A i \in 0..n : r[i] = IF i = 0 THEN base ELSE LexStep(r[i - 1], text[i])
    <3> DEFINE g == [i \in 0..n |-> IF i = 0 THEN base ELSE LexStep(r[i - 1], text[i])]
    <3>1. r = g
      BY <2>1
    <3>2. \A i \in 0..n : g[i] = IF i = 0 THEN base ELSE LexStep(r[i - 1], text[i])
      OBVIOUS
    <3> HIDE DEF g
    <3> QED
      BY <3>1, <3>2
  <2> HIDE DEF Up
  <2> DEFINE q == [i \in 0..(n + 1) |-> IF i = n + 1 THEN LexStep(r[n], text[n + 1]) ELSE r[i]]
             h == [i \in 0..(n + 1) |-> IF i = 0 THEN base ELSE LexStep(q[i - 1], text[i])]
  <2>3. ASSUME NEW i \in 0..(n + 1)
        PROVE  q[i] = IF i = 0 THEN base ELSE LexStep(q[i - 1], text[i])
    <3>1. CASE i = n + 1
      <4>1. q[n] = r[n] /\ q[n + 1] = LexStep(r[n], text[n + 1]) /\ i - 1 = n /\ i # 0
        BY <3>1
      <4> HIDE DEF q
      <4> QED
        BY <3>1, <4>1
    <3>2. CASE i \in 0..n
      <4>1. q[i] = r[i] /\ (i # 0 => q[i - 1] = r[i - 1])
        BY <3>2
      <4> HIDE DEF q
      <4> QED
        BY <2>2, <3>2, <4>1
    <3> QED
      BY <3>1, <3>2
  <2>4. q = h
    <3>1. q = [i \in 0..(n + 1) |-> q[i]]
      OBVIOUS
    <3> HIDE DEF q
    <3> QED
      BY <2>3, <3>1
  <2> HIDE DEF q
  <2>5. Up(q, n + 1)
    BY <2>4 DEF Up
  <2> QED
    BY <2>5
<1>3. S = Nat
  <2>1. S \in SUBSET Nat
    OBVIOUS
  <2> HIDE DEF S
  <2> QED
    BY <1>1, <1>2, <2>1, Induction
<1>4. \E r : Up(r, N)
  <2>1. N \in S
    BY <1>3
  <2> QED
    BY <2>1
<1> QED
  BY <1>4

\* The names in the import tokens of a sequence of tokens.
ImportsIn(t) == {Spelling(t[n]) : n \in {n \in 1..Len(t) : t[n].tok = "import"}}

LEMMA AppendImports ==
    ASSUME NEW s, Sequence(s), NEW x
    PROVE  /\ Sequence(Append(s, x))
           /\ ImportsIn(Append(s, x)) =
                 ImportsIn(s) \cup (IF x.tok = "import" THEN {Spelling(x)} ELSE {})
<1> DEFINE U == Range(s) \cup {x}
           u == Append(s, x)
<1>1. s \in Seq(U) /\ x \in U
  BY DEF Sequence
<1> HIDE DEF U
<1>2. /\ u \in Seq(U) /\ Len(u) = Len(s) + 1 /\ Len(s) \in Nat
      /\ u[Len(s) + 1] = x /\ \A n \in 1..Len(s) : u[n] = s[n]
  BY <1>1
<1> HIDE DEF u
<1>3. Sequence(u)
  BY <1>2, SequenceIs
<1>4. 1..Len(u) = (1..Len(s)) \cup {Len(s) + 1}
  BY <1>2
<1>5. ImportsIn(u) = ImportsIn(s) \cup (IF x.tok = "import" THEN {Spelling(x)} ELSE {})
  BY <1>2, <1>4 DEF ImportsIn
<1> QED
  BY <1>3, <1>5 DEF u

LEMMA TokIsImport ==
    ASSUME NEW k
    PROVE  Tok(k) = "import" <=> k = "import"
<1>1. "{" # "import" /\ ";" # "import" /\ "nl" # "import" /\ "import" \notin LBrace
  BY Zenon DEF LBrace
<1> QED
  BY <1>1, Zenon DEF Tok

LEMMA StepImports ==
    ASSUME NEW acc, Sequence(acc.out), NEW lx
    PROVE  /\ Sequence(LexStep(acc, lx).out)
           /\ ImportsIn(LexStep(acc, lx).out) =
                 ImportsIn(acc.out) \cup (IF lx[1] = "import" THEN {lx[2]} ELSE {})
<1> DEFINE x == [tok |-> Tok(lx[1]), lx |-> lx]
           out == LexStep(acc, lx).out
<1>1. x.tok = "import" <=> lx[1] = "import"
  BY TokIsImport
<1>2. Spelling(x) = lx[2]
  BY DEF Spelling
<1>3. \/ out = acc.out /\ lx[1] # "import"
      \/ out = Append(acc.out, x)
  <2>1. out = IF lx[1] = "reset" \/ (lx[1] = "nl" /\ ~(acc.flags.nl \/ acc.flags.override))
              THEN acc.out ELSE Append(acc.out, x)
    BY DEF LexStep
  <2> HIDE DEF out, x
  <2> QED
    BY <2>1
<1> HIDE DEF out, x
<1>4. Sequence(Append(acc.out, x)) /\
      ImportsIn(Append(acc.out, x)) =
         ImportsIn(acc.out) \cup (IF x.tok = "import" THEN {Spelling(x)} ELSE {})
  BY AppendImports
<1>5. Sequence(out) /\ ImportsIn(out) =
         ImportsIn(acc.out) \cup (IF lx[1] = "import" THEN {lx[2]} ELSE {})
  <2>1. CASE out = acc.out /\ lx[1] # "import"
    BY <2>1
  <2>2. CASE out = Append(acc.out, x)
    BY <1>1, <1>2, <1>4, <2>2
  <2> QED
    BY <1>3, <2>1, <2>2
<1> QED
  BY <1>5 DEF out

LEMMA LexNames ==
    ASSUME NEW text, Sequence(text), NEW flags0
    PROVE  /\ Sequence(Lex(text, flags0).out)
           /\ ImportsIn(Lex(text, flags0).out) = NamesIn(text)
<1> DEFINE N == Len(text)
           base == [out |-> <<>>, flags |-> flags0]
           R == CHOOSE r : r = [n \in 0..Len(text) |-> IF n = 0 THEN base
                                                       ELSE LexStep(r[n - 1], text[n])]
           Up(n) == {text[m][2] : m \in {m \in 1..n : text[m][1] = "import"}}
           S == {n \in Nat : n <= N => Sequence(R[n].out) /\ ImportsIn(R[n].out) = Up(n)}
<1>1. Lex(text, flags0).out = Append(R[N].out, EndOfFile)
  BY DEF Lex, Sweep
<1>2. N \in Nat
  BY DEF Sequence
<1>3. R = [n \in 0..Len(text) |-> IF n = 0 THEN base ELSE LexStep(R[n - 1], text[n])]
  <2> HIDE DEF base
  <2>1. \E r : r = [n \in 0..Len(text) |-> IF n = 0 THEN base ELSE LexStep(r[n - 1], text[n])]
    BY <1>2, LexExists
  <2> QED
    BY <2>1
<1>4. base.out = <<>>
  OBVIOUS
<1> HIDE DEF R, base
<1>5. \A n \in 0..N : R[n] = IF n = 0 THEN base ELSE LexStep(R[n - 1], text[n])
  <2> DEFINE q == [n \in 0..N |-> IF n = 0 THEN base ELSE LexStep(R[n - 1], text[n])]
  <2>1. R = q
    BY <1>3
  <2>2. \A n \in 0..N : q[n] = IF n = 0 THEN base ELSE LexStep(R[n - 1], text[n])
    OBVIOUS
  <2> HIDE DEF q
  <2> QED
    BY <2>1, <2>2
<1>6. 0 \in S
  <2>1. Sequence(<<>>)
    <3>1. <<>> \in Seq({})
      OBVIOUS
    <3> QED
      BY <3>1, SequenceIs
  <2>2. ImportsIn(<<>>) = {} /\ Up(0) = {}
    BY DEF ImportsIn
  <2>3. R[0] = base
    BY <1>2, <1>5
  <2> QED
    BY <1>4, <2>1, <2>2, <2>3
<1>7. ASSUME NEW n \in S PROVE n + 1 \in S
  <2> SUFFICES ASSUME n + 1 <= N
               PROVE  Sequence(R[n + 1].out) /\ ImportsIn(R[n + 1].out) = Up(n + 1)
    OBVIOUS
  <2>1. n \in Nat /\ Sequence(R[n].out) /\ ImportsIn(R[n].out) = Up(n)
    BY <1>2
  <2>2. R[n + 1] = LexStep(R[n], text[n + 1])
    <3>1. n + 1 \in 0..N /\ n + 1 # 0 /\ n + 1 - 1 = n
      BY <1>2, <2>1
    <3> QED
      BY <1>5, <3>1
  <2>3. /\ Sequence(R[n + 1].out)
        /\ ImportsIn(R[n + 1].out) =
              Up(n) \cup (IF text[n + 1][1] = "import" THEN {text[n + 1][2]} ELSE {})
    BY <2>1, <2>2, StepImports
  <2>4. Up(n + 1) = Up(n) \cup (IF text[n + 1][1] = "import" THEN {text[n + 1][2]} ELSE {})
    <3>1. 1..(n + 1) = (1..n) \cup {n + 1}
      BY <2>1
    <3> QED
      BY <3>1
  <2> QED
    BY <2>3, <2>4
<1>8. S = Nat
  <2>1. S \in SUBSET Nat
    OBVIOUS
  <2> HIDE DEF S
  <2> QED
    BY <1>6, <1>7, <2>1, Induction
<1>9. Sequence(R[N].out) /\ ImportsIn(R[N].out) = NamesIn(text)
  <2>1. N \in S
    BY <1>2, <1>8
  <2> QED
    BY <1>2, <2>1 DEF NamesIn
<1>10. EndOfFile.tok # "import"
  BY DEF EndOfFile
<1> HIDE DEF R
<1> QED
  BY <1>1, <1>9, <1>10, AppendImports

-----------------------------------------------------------------------------
(* What a file adds to the work list.                                       *)

LEMMA AppendNew ==
    ASSUME NEW U, NEW s \in Seq(U), IsInjective(s), NEW x \in U, x \notin ToSet(s)
    PROVE  /\ Append(s, x) \in Seq(U) /\ IsInjective(Append(s, x))
           /\ ToSet(Append(s, x)) = ToSet(s) \cup {x}
<1>1. /\ Len(Append(s, x)) = Len(s) + 1 /\ Len(s) \in Nat /\ Append(s, x)[Len(s) + 1] = x
      /\ \A n \in 1..Len(s) : Append(s, x)[n] = s[n]
      /\ Append(s, x) \in Seq(U) /\ DOMAIN s = 1..Len(s)
      /\ DOMAIN Append(s, x) = 1..(Len(s) + 1)
  OBVIOUS
<1>2. 1..(Len(s) + 1) = (1..Len(s)) \cup {Len(s) + 1}
  BY <1>1
<1> DEFINE u == Append(s, x)
<1> HIDE DEF u
<1>3. IsInjective(u)
  <2> SUFFICES ASSUME NEW a \in DOMAIN u, NEW b \in DOMAIN u, u[a] = u[b] PROVE a = b
    BY DEF IsInjective
  <2>1. \A n \in 1..Len(s) : u[n] \in ToSet(s)
    BY <1>1 DEF u, ToSet
  <2>2. u[Len(s) + 1] = x /\ DOMAIN u = (1..Len(s)) \cup {Len(s) + 1}
    BY <1>1, <1>2 DEF u
  <2>3. CASE a \in 1..Len(s) /\ b \in 1..Len(s)
    BY <1>1, <2>3 DEF u, IsInjective
  <2>4. CASE ~(a \in 1..Len(s) /\ b \in 1..Len(s))
    BY <2>1, <2>2, <2>4
  <2> QED
    BY <2>3, <2>4
<1>4. ToSet(u) = ToSet(s) \cup {x}
  BY <1>1, <1>2 DEF u, ToSet
<1> QED
  BY <1>1, <1>3, <1>4 DEF u

\* The files that a sequence of tokens in dir imports.
FilesIn(t, dir) == {Resolve[p] : p \in PathsIn(t, dir)}

LEMMA NewImportsAre ==
    ASSUME NEW t, Sequence(t), NEW dir, NEW seen
    PROVE  LET new == NewImports(t, dir, seen)
           IN  /\ new \in Seq(FilesIn(t, dir)) /\ IsInjective(new)
               /\ ToSet(new) = FilesIn(t, dir) \ seen
<1> DEFINE N == Len(t)
           file(n) == Resolve[<<dir, Spelling(t[n])>>]
           imp(n) == t[n].tok = "import"
           Old(n, new) == ~imp(n) \/ file(n) \in seen \cup ToSet(new)
           U == FilesIn(t, dir)
           X == Seq(U)
           step == [p \in Nat \X X |->
                       IF p[1] \in 1..N THEN IF Old(p[1], p[2]) THEN p[2]
                                             ELSE Append(p[2], file(p[1]))
                       ELSE <<>>]
           R == CHOOSE r : r = [n \in 0..Len(t) |->
                                   IF n = 0 THEN <<>>
                                   ELSE IF Old(n, r[n - 1]) THEN r[n - 1]
                                        ELSE Append(r[n - 1], file(n))]
           Up(n) == {file(m) : m \in {m \in 1..n : imp(m)}} \ seen
           S == {n \in Nat : n <= N => /\ R[n] \in X /\ IsInjective(R[n])
                                       /\ ToSet(R[n]) = Up(n)}
<1>1. NewImports(t, dir, seen) = R[N]
  BY DEF NewImports, Sweep
<1>2. N \in Nat
  BY DEF Sequence
<1>3. \A n \in 1..N : imp(n) => file(n) \in U
  BY DEF FilesIn, PathsIn
<1>4. FilesIn(t, dir) \ seen = Up(N)
  BY DEF FilesIn, PathsIn
<1> HIDE DEF imp, file, U
<1>5. step \in [Nat \X X -> X]
  <2> SUFFICES ASSUME NEW n \in Nat, NEW new \in X, n \in 1..N, ~Old(n, new)
               PROVE  Append(new, file(n)) \in X
    OBVIOUS
  <2> QED
    BY <1>3
<1>6. \E r : r = [n \in 0..Len(t) |-> IF n = 0 THEN <<>>
                                      ELSE IF Old(n, r[n - 1]) THEN r[n - 1]
                                           ELSE Append(r[n - 1], file(n))]
  <2>1. <<>> \in X
    OBVIOUS
  <2>2. PICK r \in [0..N -> X] : Swept(r, N, <<>>, step)
    <3> HIDE DEF step, X
    <3> QED
      BY <1>2, <1>5, <2>1, SweepExists
  <2>3. ASSUME NEW n \in 0..N, n # 0
        PROVE  step[<<n, r[n - 1]>>] = IF Old(n, r[n - 1]) THEN r[n - 1]
                                       ELSE Append(r[n - 1], file(n))
    <3>1. r[n - 1] \in X /\ n \in 1..N /\ n \in Nat
      BY <1>2, <2>3
    <3> QED
      BY <3>1
  <2> HIDE DEF step, Old
  <2>4. r = [n \in 0..N |-> IF n = 0 THEN <<>> ELSE IF Old(n, r[n - 1]) THEN r[n - 1]
                                                    ELSE Append(r[n - 1], file(n))]
    BY <2>2, <2>3 DEF Swept
  <2> QED
    BY <2>4
<1>7. R = [n \in 0..Len(t) |-> IF n = 0 THEN <<>> ELSE IF Old(n, R[n - 1]) THEN R[n - 1]
                                                       ELSE Append(R[n - 1], file(n))]
  <2> HIDE DEF Old
  <2> QED
    BY <1>6
<1> HIDE DEF R, step
<1>8. \A n \in 0..N : R[n] = IF n = 0 THEN <<>> ELSE IF Old(n, R[n - 1]) THEN R[n - 1]
                                                     ELSE Append(R[n - 1], file(n))
  <2> HIDE DEF Old
  <2> DEFINE q == [n \in 0..N |-> IF n = 0 THEN <<>> ELSE IF Old(n, R[n - 1]) THEN R[n - 1]
                                                     ELSE Append(R[n - 1], file(n))]
  <2>1. R = q
    BY <1>7
  <2>2. \A n \in 0..N : q[n] = IF n = 0 THEN <<>> ELSE IF Old(n, R[n - 1]) THEN R[n - 1]
                                                     ELSE Append(R[n - 1], file(n))
    OBVIOUS
  <2> HIDE DEF q
  <2> QED
    BY <2>1, <2>2
<1>9. 0 \in S
  <2>1. R[0] = <<>>
    BY <1>2, <1>8
  <2>2. <<>> \in X /\ IsInjective(<<>>) /\ ToSet(<<>>) = {} /\ Up(0) = {}
    BY DEF IsInjective, ToSet
  <2> QED
    BY <2>1, <2>2
<1>10. ASSUME NEW n \in S PROVE n + 1 \in S
  <2> SUFFICES ASSUME n + 1 <= N
               PROVE  /\ R[n + 1] \in X /\ IsInjective(R[n + 1])
                      /\ ToSet(R[n + 1]) = Up(n + 1)
    OBVIOUS
  <2>1. n \in Nat /\ R[n] \in X /\ IsInjective(R[n]) /\ ToSet(R[n]) = Up(n)
    BY <1>2
  <2>2. R[n + 1] = IF Old(n + 1, R[n]) THEN R[n] ELSE Append(R[n], file(n + 1))
    <3>1. n + 1 \in 0..N /\ n + 1 # 0 /\ n + 1 - 1 = n
      BY <1>2, <2>1
    <3> QED
      BY <1>8, <3>1
  <2>3. Up(n + 1) = IF imp(n + 1) /\ file(n + 1) \notin seen THEN Up(n) \cup {file(n + 1)}
                    ELSE Up(n)
    <3>1. 1..(n + 1) = (1..n) \cup {n + 1}
      BY <2>1
    <3> QED
      BY <3>1
  <2> HIDE DEF Up, S
  <2>4. CASE Old(n + 1, R[n])
    BY <2>1, <2>2, <2>3, <2>4
  <2>5. CASE ~Old(n + 1, R[n])
    <3>1. imp(n + 1) /\ file(n + 1) \notin seen /\ file(n + 1) \notin ToSet(R[n])
      BY <2>5
    <3>2. file(n + 1) \in U
      <4>1. n + 1 \in 1..N
        BY <1>2, <2>1
      <4> QED
        BY <1>3, <3>1, <4>1
    <3>3. R[n + 1] = Append(R[n], file(n + 1))
      BY <2>2, <2>5
    <3> HIDE DEF file
    <3>4. /\ Append(R[n], file(n + 1)) \in X /\ IsInjective(Append(R[n], file(n + 1)))
          /\ ToSet(Append(R[n], file(n + 1))) = ToSet(R[n]) \cup {file(n + 1)}
      BY <2>1, <3>1, <3>2, AppendNew
    <3>5. Up(n + 1) = Up(n) \cup {file(n + 1)}
      BY <2>3, <3>1
    <3> QED
      BY <2>1, <3>3, <3>4, <3>5
  <2> QED
    BY <2>4, <2>5
<1>11. S = Nat
  <2>1. S \in SUBSET Nat
    OBVIOUS
  <2> HIDE DEF S
  <2> QED
    BY <1>9, <1>10, <2>1, Induction
<1>12. R[N] \in X /\ IsInjective(R[N]) /\ ToSet(R[N]) = Up(N)
  <2>1. N \in S
    BY <1>2, <1>11
  <2> QED
    BY <1>2, <2>1
<1> HIDE DEF R, Up
<1> QED
  BY <1>1, <1>4, <1>12 DEF U

-----------------------------------------------------------------------------
(* The state.                                                               *)

\* The words of a command line that are files to compile.
Sources == {a \in Spellings : <<Home, a>> \in DOMAIN Resolve /\ a \notin Objects}

\* The current directory is the one the compiler was started in, except while
\* the imports of an input are followed, or when that fails.
Shape ==
    /\ argv \in Argvs /\ tree \in Trees
    /\ args \in Seq(Spellings)
    /\ crate \in [sources : Seq(Sources), objects : Seq(Spellings), code : Seq(Spellings),
                  libs : Seq(Spellings)]
    /\ phase \in {"args", "next", "imports", "build", "first", "parse", "done", "exited", "died"}
    /\ input \in 0..(Inputs(crate) + 1)
    /\ phase = "args" => input = 0 /\ units = <<>>
    /\ phase \notin {"imports", "died"} => cwd = Home

\* The work list: what the files before the offset import is on it, and nothing
\* else but the source.
Listed(n) == \A p \in Imported(work[n]) : p \in DOMAIN Resolve /\ Resolve[p] \in ToSet(work)
WorkList ==
    /\ work \in Seq(DOMAIN tree) /\ offset \in 1..(Len(work) + 1)
    /\ DOMAIN rules \subseteq ToSet(work)
    /\ phase = "imports" => buffer = <<>>
    /\ phase = "build" =>
          /\ Sequence(buffer) /\ Built \subseteq allImports
          /\ offset = Len(work) + 1
    /\ phase \in {"imports", "build"} =>
          /\ work # <<>> /\ source = work[1]
          /\ IsInjective(work) /\ allImports = ToSet(Tail(work))
          /\ \A n \in 1..(offset - 1) : Listed(n)
          /\ ToSet(work) \subseteq Closure(source)

\* Behind the first k words: the plain positions among them, and what was
\* noted of them.
Positions == [n \in 1..Len(argv) |-> n]
Kept(S) ==
    CHOOSE r : r = [n \in 0..Len(Positions) |->
                       IF n = 0 THEN <<>>
                       ELSE IF ~IsValue[Positions[n]] /\ argv[Positions[n]] \in S
                       THEN Append(r[n - 1], Positions[n]) ELSE r[n - 1]]

Noted(k) ==
    /\ crate.sources = [n \in 1..Len(Kept(Readable)[k]) |-> argv[Kept(Readable)[k][n]]]
    /\ Len(crate.code) = Len(Kept({"--code"})[k])
    /\ argdump = {argv[n] : n \in {n \in 1..k : ~IsValue[n]}}

Line ==
    /\ phase = "args" =>
          \E k \in 0..Len(argv) :
             /\ args = SubSeq(argv, k + 1, Len(argv))
             /\ k < Len(argv) => ~IsValue[k + 1]
             /\ Noted(k)
    /\ phase \notin {"args", "exited", "died"} => Noted(Len(argv))
    /\ phase = "exited" => \E n \in 1..Len(argv) : ~IsValue[n] /\ argv[n] \in Quits

\* Where an input comes from, and the inputs that were parsed.
From(n) ==
    IF n <= Files(crate) THEN Resolve[<<Home, crate.sources[n]>>]
    ELSE IF n <= Inputs(crate) THEN "--code" ELSE "runtime"

Compiled ==
    /\ Sequence(units)
    /\ phase \in {"next", "done"} =>
          Len(units) = input /\ \A n \in 1..input : units[n].from = From(n)
    /\ phase \in {"imports", "build", "first", "parse"} =>
          /\ input # 0 /\ Len(units) = input - 1 /\ source = From(input)
          /\ \A n \in 1..(input - 1) : units[n].from = From(n)
    /\ phase = "done" => input = Inputs(crate) + (IF WithRuntime THEN 1 ELSE 0)

IInv == Shape /\ WorkList /\ Line /\ Compiled

-----------------------------------------------------------------------------
(* The files that a file imports, by its text and by its items.             *)

LEMMA FileImports ==
    ASSUME tree \in Trees, NEW f \in DOMAIN tree, NEW fl
    PROVE  /\ Sequence(Lex(Text(tree[f]), fl).out)
           /\ PathsIn(Lex(Text(tree[f]), fl).out, Dir[f]) = Imported(f)
           /\ \A p \in Imported(f) \cap DOMAIN Resolve : Resolve[p] \in DOMAIN tree
<1> DEFINE items == tree[f]
           t == Lex(Text(items), fl).out
           found == UNION {Names(items[n]) : n \in 1..Len(items)}
<1>1. items \in Seq(Items) /\ \A n \in 1..Len(items) : Ruled(items[n])
  BY FilesAssumption, Zenon DEF Ruled
<1>2. \A n \in 1..Len(items) : items[n].kind = "import" => items[n].name \notin Objects
  BY FilesAssumption, Zenon
<1>3. \A p \in DOMAIN Resolve : p[2] \notin Objects => Resolve[p] \in DOMAIN tree
  BY FilesAssumption, Zenon
<1>4. Sequence(Text(items)) /\ NamesIn(Text(items)) = found
  BY <1>1, TextNames
<1>5. Sequence(t) /\ ImportsIn(t) = found
  BY <1>4, LexNames
<1>6. Imported(f) = {<<Dir[f], s>> : s \in found}
  <2>1. DOMAIN items = 1..Len(items)
    BY <1>1
  <2>2. \A i : Names(i) = IF i.kind = "import" THEN {i.name} ELSE {}
    BY DEF Names
  <2>3. ToSet(items) = {items[n] : n \in 1..Len(items)}
    BY <2>1 DEF ToSet
  <2> QED
    BY <2>2, <2>3 DEF Imported
<1> HIDE DEF t
<1>7. PathsIn(t, Dir[f]) = {<<Dir[f], s>> : s \in ImportsIn(t)}
  BY DEF PathsIn, ImportsIn
<1>8. ASSUME NEW p \in Imported(f) \cap DOMAIN Resolve PROVE Resolve[p] \in DOMAIN tree
  <2>1. PICK n \in 1..Len(items) : items[n].kind = "import" /\ p = <<Dir[f], items[n].name>>
    BY <1>6 DEF Names
  <2>2. p[2] = items[n].name
    BY <2>1
  <2> QED
    BY <1>2, <1>3, <2>1, <2>2
<1> QED
  BY <1>5, <1>6, <1>7, <1>8 DEF t

LEMMA JoinNew ==
    ASSUME NEW U, NEW s \in Seq(U), IsInjective(s), NEW t \in Seq(U), IsInjective(t),
           ToSet(s) \cap ToSet(t) = {}
    PROVE  /\ s \o t \in Seq(U) /\ IsInjective(s \o t) /\ ToSet(s \o t) = ToSet(s) \cup ToSet(t)
           /\ Len(s \o t) = Len(s) + Len(t)
           /\ \A n \in 1..Len(s) : (s \o t)[n] = s[n]
           /\ s # <<>> => Tail(s \o t) = Tail(s) \o t
<1> DEFINE u == s \o t
<1>1. /\ u \in Seq(U) /\ Len(u) = Len(s) + Len(t) /\ Len(s) \in Nat /\ Len(t) \in Nat
      /\ \A n \in 1..Len(s) : u[n] = s[n]
      /\ \A n \in 1..Len(t) : u[Len(s) + n] = t[n]
      /\ \A n \in (Len(s) + 1)..Len(u) : u[n] = t[n - Len(s)] /\ n - Len(s) \in 1..Len(t)
      /\ DOMAIN u = 1..Len(u) /\ DOMAIN s = 1..Len(s) /\ DOMAIN t = 1..Len(t)
  OBVIOUS
<1>2. s # <<>> => Tail(u) = Tail(s) \o t
  OBVIOUS
<1> HIDE DEF u
<1>3. \A n \in DOMAIN u : \/ n \in DOMAIN s /\ u[n] = s[n] /\ u[n] \in ToSet(s)
                          \/ n > Len(s) /\ n - Len(s) \in DOMAIN t /\ u[n] = t[n - Len(s)]
                             /\ u[n] \in ToSet(t)
  BY <1>1 DEF ToSet
<1>4. ToSet(u) = ToSet(s) \cup ToSet(t)
  <2>1. ToSet(s) \subseteq ToSet(u)
    BY <1>1 DEF ToSet
  <2>2. ToSet(t) \subseteq ToSet(u)
    <3> SUFFICES ASSUME NEW n \in 1..Len(t) PROVE t[n] \in ToSet(u)
      BY <1>1 DEF ToSet
    <3>1. Len(s) + n \in DOMAIN u /\ u[Len(s) + n] = t[n]
      BY <1>1
    <3> QED
      BY <3>1 DEF ToSet
  <2>3. ToSet(u) \subseteq ToSet(s) \cup ToSet(t)
    BY <1>3 DEF ToSet
  <2> QED
    BY <2>1, <2>2, <2>3
<1>5. IsInjective(u)
  <2> SUFFICES ASSUME NEW a \in DOMAIN u, NEW b \in DOMAIN u, u[a] = u[b] PROVE a = b
    BY DEF IsInjective
  <2>1. CASE a \in DOMAIN s /\ b \in DOMAIN s
    BY <1>1, <2>1 DEF IsInjective
  <2>2. CASE a > Len(s) /\ b > Len(s)
    <3>1. /\ a - Len(s) \in DOMAIN t /\ b - Len(s) \in DOMAIN t
          /\ t[a - Len(s)] = t[b - Len(s)]
      BY <1>1, <1>3, <2>2
    <3>2. a - Len(s) = b - Len(s)
      BY <3>1 DEF IsInjective
    <3> QED
      BY <1>1, <3>2
  <2>3. CASE ~(a \in DOMAIN s /\ b \in DOMAIN s) /\ ~(a > Len(s) /\ b > Len(s))
    <3>1. \/ u[a] \in ToSet(s) /\ u[b] \in ToSet(t)
          \/ u[b] \in ToSet(s) /\ u[a] \in ToSet(t)
      BY <1>1, <1>3, <2>3
    <3> QED
      BY <3>1
  <2> QED
    BY <1>1, <2>1, <2>2, <2>3
<1> QED
  BY <1>1, <1>2, <1>4, <1>5 DEF u

-----------------------------------------------------------------------------
(* Shape.                                                                   *)

LEMMA CrateLengths ==
    ASSUME Shape
    PROVE  Len(crate.sources) \in Nat /\ Len(crate.code) \in Nat
<1>1. crate.sources \in Seq(Sources) /\ crate.code \in Seq(Spellings)
  BY DEF Shape
<1> QED
  BY <1>1

LEMMA InputsNat ==
    ASSUME NEW c, Len(c.sources) \in Nat, Len(c.code) \in Nat
    PROVE  Inputs(c) \in Nat
<1> DEFINE a == Len(c.sources)
           b == Len(c.code)
<1>1. Inputs(c) = a + b
  BY DEF Inputs
<1>2. a \in Nat /\ b \in Nat
  OBVIOUS
<1> HIDE DEF a, b
<1>3. a + b \in Nat
  BY <1>2
<1> QED
  BY <1>1, <1>3

LEMMA ShapeArg ==
    ASSUME Shape, RunArg
    PROVE  Shape'
<1>1. args \in Seq(Spellings) /\ args # <<>> /\ phase = "args"
  BY DEF Shape, RunArg
<1>2. Head(args) \in Spellings /\ Tail(args) \in Seq(Spellings)
  BY <1>1, HeadTailProperties
<1>3. Head(args) \in TakesValue => Len(args) > 1
  BY DEF RunArg
<1>4. Len(args) > 1 => args[2] \in Spellings /\ Tail(Tail(args)) \in Seq(Spellings)
  <2> SUFFICES ASSUME Len(args) > 1
               PROVE  args[2] \in Spellings /\ Tail(Tail(args)) \in Seq(Spellings)
    OBVIOUS
  <2>1. args[2] \in Spellings
    BY <1>1
  <2>2. Tail(args) \in Seq(Spellings) /\ Len(Tail(args)) = Len(args) - 1
    BY <1>1, HeadTailProperties
  <2>3. Tail(args) # <<>>
    <3>1. Len(Tail(args)) # Len(<<>>)
      <4> HIDE DEF Spellings
      <4>1. Len(<<>>) = 0
        OBVIOUS
      <4>2. Len(args) \in Nat
        BY <1>1
      <4> QED
        BY <2>2, <4>1, <4>2
    <3> QED
      BY <3>1, Zenon
  <2> QED
    BY <2>1, <2>2, <2>3, HeadTailProperties
<1>5. args' \in Seq(Spellings)
  BY <1>2, <1>3, <1>4 DEF RunArg
<1>6. crate' \in [sources : Seq(Sources), objects : Seq(Spellings), code : Seq(Spellings),
                  libs : Seq(Spellings)]
  <2>1. crate' = crate \/ crate' = Seive(crate, Head(args))
        \/ (Head(args) = "--code" /\ crate' = [crate EXCEPT !.code = Append(@, args[2])])
    BY DEF RunArg
  <2>2. crate \in [sources : Seq(Sources), objects : Seq(Spellings), code : Seq(Spellings),
                   libs : Seq(Spellings)]
    BY DEF Shape
  <2>3. Seive(crate, Head(args)) \in
           [sources : Seq(Sources), objects : Seq(Spellings), code : Seq(Spellings),
            libs : Seq(Spellings)]
    <3> DEFINE a == Head(args)
               R == [sources : Seq(Sources), objects : Seq(Spellings), code : Seq(Spellings),
                     libs : Seq(Spellings)]
    <3>1. a \in Spellings /\ crate \in R
      BY <1>2, <2>2
    <3> HIDE DEF a
    <3>2. [crate EXCEPT !.libs = Append(@, a)] \in R /\ [crate EXCEPT !.objects = Append(@, a)] \in R
      <4>1. Append(crate.libs, a) \in Seq(Spellings) /\ Append(crate.objects, a) \in Seq(Spellings)
        BY <3>1
      <4> QED
        BY <3>1, <4>1
    <3>3. a \in Sources => [crate EXCEPT !.sources = Append(@, a)] \in R
      <4>1. a \in Sources => Append(crate.sources, a) \in Seq(Sources)
        BY <3>1
      <4> QED
        BY <3>1, <4>1
    <3>4. <<Home, a>> \in DOMAIN Resolve /\ a \notin Objects => a \in Sources
      BY <3>1 DEF Sources
    <3> HIDE DEF R
    <3>5. Seive(crate, a) \in R
      BY <3>1, <3>2, <3>3, <3>4, Zenon DEF Seive
    <3> QED
      BY <3>5 DEF R, a
  <2>4. CASE Head(args) = "--code" /\ crate' = [crate EXCEPT !.code = Append(@, args[2])]
    <3>1. args[2] \in Spellings
      BY <1>3, <1>4, <2>4 DEF TakesValue
    <3>2. Append(crate.code, args[2]) \in Seq(Spellings)
      BY <2>2, <3>1
    <3> QED
      BY <2>2, <2>4, <3>2
  <2> QED
    BY <2>1, <2>2, <2>3, <2>4
<1>7. input' = 0 /\ phase' = "args" /\ units' = <<>> /\ cwd' = Home /\ argv' = argv /\ tree' = tree
  BY <1>1 DEF RunArg, afterArgs, inputs, Shape
<1>8. Len(crate'.sources) \in Nat /\ Len(crate'.code) \in Nat
  <2>1. crate'.sources \in Seq(Sources) /\ crate'.code \in Seq(Spellings)
    BY <1>6
  <2> QED
    BY <2>1
<1>9. input' \in 0..(Inputs(crate') + 1)
  <2>1. Inputs(crate') \in Nat
    BY <1>8, InputsNat
  <2> QED
    BY <1>7, <2>1
<1> QED
  BY <1>5, <1>6, <1>7, <1>9 DEF Shape

\* The actions behind the arguments leave these alone.
LEMMA ShapeKept ==
    ASSUME Shape, UNCHANGED fromArgs,
           phase' \in {"next", "imports", "build", "first", "parse", "done", "died"},
           input' \in 0..(Inputs(crate) + 1),
           phase' \notin {"imports", "died"} => cwd' = Home
    PROVE  Shape'
BY DEF Shape, fromArgs, inputs

LEMMA ShapeStep ==
    ASSUME Shape, Next
    PROVE  Shape'
<1>1. CASE RunArgFails
  BY <1>1 DEF RunArgFails, afterArgs, inputs, Shape
<1>2. CASE RunArg
  BY <1>2, ShapeArg
<1>3. CASE EndArgs
  BY <1>3 DEF EndArgs, afterArgs, inputs, Shape
<1>4. CASE StartFile
  <2>1. phase' = "imports" /\ input' = input + 1 /\ input < Len(crate.sources) /\ UNCHANGED fromArgs
    BY <1>4 DEF StartFile, Files
  <2>2. input' \in 0..(Inputs(crate) + 1)
    BY <2>1, CrateLengths DEF Inputs, Shape
  <2> QED
    BY <2>1, <2>2, ShapeKept
<1>5. CASE StartCode
  <2>1. /\ phase' = "first" /\ phase = "next" /\ input' = input + 1 /\ input <= Inputs(crate)
        /\ UNCHANGED <<fromArgs, cwd>>
    <3>1. input < Inputs(crate) \/ input = Inputs(crate)
      BY <1>5 DEF StartCode
    <3>2. input \in Nat /\ Inputs(crate) \in Nat
      BY CrateLengths DEF Inputs, Shape
    <3> QED
      BY <1>5, <3>1, <3>2 DEF StartCode
  <2>2. input' \in 0..(Inputs(crate) + 1) /\ cwd' = Home
    BY <2>1, CrateLengths DEF Inputs, Shape
  <2> QED
    BY <2>1, <2>2, ShapeKept
<1>6. CASE Finish
  <2>1. phase' = "done" /\ cwd' = Home /\ UNCHANGED <<fromArgs, input>>
    BY <1>6 DEF Finish, Shape
  <2> QED
    BY <2>1, ShapeKept DEF Shape
<1>7. CASE ReadImports
  <2>1. phase' \in {"imports", "died"} /\ UNCHANGED <<fromArgs, input>>
    BY <1>7 DEF ReadImports, fromStart
  <2> QED
    BY <2>1, ShapeKept DEF Shape
<1>8. CASE EndImports
  <2>1. phase' = "build" /\ cwd' = Home /\ UNCHANGED <<fromArgs, input>>
    BY <1>8 DEF EndImports, fromStart
  <2> QED
    BY <2>1, ShapeKept DEF Shape
<1>9. CASE AddSource
  <2>1. phase' = "first" /\ cwd' = Home /\ UNCHANGED <<fromArgs, input>>
    BY <1>9 DEF AddSource, fromStart, Shape
  <2> QED
    BY <2>1, ShapeKept DEF Shape
<1>10. CASE \E f \in allImports : ScanFile(f)
  <2>1. phase' \in {"build", "died"} /\ cwd' = Home /\ UNCHANGED <<fromArgs, input>>
    BY <1>10 DEF ScanFile, fromStart, Shape
  <2> QED
    BY <2>1, ShapeKept DEF Shape
<1>11. CASE DumpOnly
  <2>1. phase' = "next" /\ cwd' = Home /\ UNCHANGED <<fromArgs, input>>
    BY <1>11 DEF DumpOnly, Shape
  <2> QED
    BY <2>1, ShapeKept DEF Shape
<1>12. CASE FirstPass
  <2>1. phase' \in {"parse", "died"} /\ cwd' = Home /\ UNCHANGED <<fromArgs, input>>
    BY <1>12 DEF FirstPass, Shape
  <2> QED
    BY <2>1, ShapeKept DEF Shape
<1>13. CASE Parse
  <2>1. phase' \in {"next", "died"} /\ cwd' = Home /\ UNCHANGED <<fromArgs, input>>
    BY <1>13 DEF Parse, Shape
  <2> QED
    BY <2>1, ShapeKept DEF Shape
<1>14. CASE UNCHANGED vars
  BY <1>14 DEF vars, inputs, Shape
<1> QED
  BY <1>1, <1>2, <1>3, <1>4, <1>5, <1>6, <1>7, <1>8, <1>9, <1>10, <1>11, <1>12, <1>13, <1>14
     DEF Next

-----------------------------------------------------------------------------
(* The work list.                                                           *)

\* Nothing that the work list speaks of changes with the rest of the state.
LEMMA ImportsKept ==
    ASSUME tree' = tree
    PROVE  /\ \A f : Imported(f)' = Imported(f)
           /\ \A f : Closure(f)' = Closure(f)
<1>1. \A f : Imported(f)' = Imported(f)
  BY DEF Imported
<1>2. \A S : Closed(S)' <=> Closed(S)
  BY <1>1 DEF Closed
<1>3. \A f : Closure(f)' = Closure(f)
  BY <1>2 DEF Closure
<1> QED
  BY <1>1, <1>3

LEMMA ClosureClosed ==
    ASSUME tree \in Trees, NEW r, NEW f \in Closure(r), NEW p \in Imported(f) \cap DOMAIN Resolve
    PROVE  Resolve[p] \in Closure(r)
<1>1. f \in DOMAIN tree
  BY DEF Closure
<1>2. Resolve[p] \in DOMAIN tree
  BY <1>1, FileImports
<1>3. ASSUME NEW S \in SUBSET DOMAIN tree, r \in S, Closed(S) PROVE Resolve[p] \in S
  <2>1. f \in S
    BY <1>3 DEF Closure
  <2> QED
    BY <1>3, <2>1 DEF Closed
<1> QED
  BY <1>2, <1>3 DEF Closure

LEMMA HeadAndTail ==
    ASSUME NEW U, NEW s \in Seq(U), s # <<>>
    PROVE  ToSet(s) = {s[1]} \cup ToSet(Tail(s))
<1>1. /\ Len(s) \in Nat \ {0} /\ DOMAIN s = 1..Len(s) /\ Tail(s) \in Seq(U)
      /\ Len(Tail(s)) = Len(s) - 1 /\ DOMAIN Tail(s) = 1..Len(Tail(s))
      /\ \A n \in 1..Len(Tail(s)) : Tail(s)[n] = s[n + 1]
  <2>1. Len(s) \in Nat \ {0} /\ DOMAIN s = 1..Len(s)
    OBVIOUS
  <2>2. /\ Tail(s) \in Seq(U) /\ Len(Tail(s)) = Len(s) - 1
        /\ \A n \in 1..Len(Tail(s)) : Tail(s)[n] = s[n + 1]
    BY HeadTailProperties
  <2> QED
    BY <2>1, <2>2
<1> DEFINE u == Tail(s)
<1> HIDE DEF u
<1>2. ASSUME NEW n \in 1..Len(s) PROVE s[n] \in {s[1]} \cup ToSet(u)
  <2>1. CASE n # 1
    <3>1. n - 1 \in 1..Len(u) /\ n - 1 + 1 = n
      BY <1>1, <2>1 DEF u
    <3>2. u[n - 1] = s[n]
      BY <1>1, <3>1 DEF u
    <3> QED
      BY <1>1, <3>1, <3>2 DEF ToSet, u
  <2> QED
    BY <2>1
<1>3. ASSUME NEW n \in 1..Len(u) PROVE u[n] \in ToSet(s)
  <2>1. n + 1 \in 1..Len(s) /\ u[n] = s[n + 1]
    BY <1>1 DEF u
  <2> QED
    BY <1>1, <2>1 DEF ToSet
<1>4. s[1] \in ToSet(s)
  BY <1>1 DEF ToSet
<1>5. ToSet(s) = {s[1]} \cup ToSet(u)
  <2>1. DOMAIN s = 1..Len(s) /\ DOMAIN u = 1..Len(u)
    BY <1>1 DEF u
  <2>2. ToSet(s) \subseteq {s[1]} \cup ToSet(u)
    BY <1>2, <2>1 DEF ToSet
  <2>3. ToSet(u) \subseteq ToSet(s)
    BY <1>3, <2>1 DEF ToSet
  <2> QED
    BY <1>4, <2>2, <2>3
<1> QED
  BY <1>5 DEF u

\* What does not touch the list.
LEMMA WorkListKept ==
    ASSUME WorkList, UNCHANGED <<work, offset, rules, tree>>,
           phase' \notin {"imports", "build"}
    PROVE  WorkList'
BY DEF WorkList

LEMMA WorkListStart ==
    ASSUME Shape, WorkList, StartFile
    PROVE  WorkList'
<1>1. /\ phase' = "imports" /\ source' = Resolve[<<Home, crate.sources[input + 1]>>]
      /\ work' = <<source'>> /\ offset' = 1 /\ allImports' = {} /\ rules' = [f \in {} |-> <<>>]
      /\ buffer' = <<>> /\ tree' = tree /\ input < Len(crate.sources)
  BY DEF StartFile, Files, Shape, fromArgs, inputs
<1>2. source' \in DOMAIN tree
  <2>1. crate.sources \in Seq(Sources) /\ input \in Nat
    <3>1. Inputs(crate) \in Nat
      BY CrateLengths, InputsNat
    <3> QED
      BY <3>1 DEF Shape
  <2>2. input + 1 \in 1..Len(crate.sources)
    BY <1>1, <2>1
  <2>3. crate.sources[input + 1] \in Sources
    BY <2>1, <2>2
  <2> DEFINE p == <<Home, crate.sources[input + 1]>>
  <2>4. p \in DOMAIN Resolve /\ p[2] \notin Objects
    BY <2>3 DEF Sources
  <2> HIDE DEF p
  <2>5. tree \in Trees
    BY DEF Shape
  <2>6. Resolve[p] \in DOMAIN tree
    BY <2>4, <2>5, FilesAssumption, Zenon
  <2> QED
    BY <1>1, <2>6 DEF p
<1> DEFINE f == source'
<1> HIDE DEF f
<1>3. f \in DOMAIN tree /\ work' = <<f>>
  BY <1>1, <1>2 DEF f
<1>4. /\ work' \in Seq(DOMAIN tree) /\ Len(work') = 1 /\ work' # <<>> /\ work'[1] = f
      /\ ToSet(work') = {f} /\ IsInjective(work') /\ ToSet(Tail(work')) = {}
  BY <1>3 DEF ToSet, IsInjective
<1>5. source' \in Closure(source)'
  BY <1>1, <1>2 DEF Closure
<1> QED
  BY <1>1, <1>4, <1>5 DEF WorkList, f

LEMMA WorkListRead ==
    ASSUME Shape, WorkList, ReadImports
    PROVE  WorkList'
<1> DEFINE f == work[offset]
           t == Lex(Text(tree[f]), flags).out
           seen == allImports \cup {source}
           new == NewImports(t, Dir[f], seen)
           U == DOMAIN tree
<1>1. /\ phase = "imports" /\ offset <= Len(work) /\ offset' = offset + 1
      /\ UNCHANGED <<source, buffer, tree>>
  BY DEF ReadImports, fromStart, fromArgs, inputs
<1>2. /\ tree \in Trees /\ work \in Seq(U) /\ offset \in 1..(Len(work) + 1)
      /\ DOMAIN rules \subseteq ToSet(work) /\ buffer = <<>>
      /\ work # <<>> /\ source = work[1] /\ IsInjective(work) /\ allImports = ToSet(Tail(work))
      /\ \A n \in 1..(offset - 1) : Listed(n)
      /\ ToSet(work) \subseteq Closure(source)
  BY <1>1 DEF WorkList, Shape
<1>3. /\ Len(work) \in Nat /\ offset \in 1..Len(work) /\ f \in U /\ f \in ToSet(work)
      /\ DOMAIN work = 1..Len(work)
  <2>1. Len(work) \in Nat /\ offset \in 1..Len(work) /\ DOMAIN work = 1..Len(work)
    BY <1>1, <1>2
  <2> QED
    BY <1>2, <2>1 DEF ToSet
<1>4. CASE ~(PathsIn(t, Dir[f]) \subseteq DOMAIN Resolve)
  <2>1. phase' = "died" /\ UNCHANGED <<work, rules>>
    BY <1>4 DEF ReadImports
  <2> QED
    BY <1>1, <1>2, <1>3, <2>1 DEF WorkList
<1>5. CASE PathsIn(t, Dir[f]) \subseteq DOMAIN Resolve
  <2> DEFINE known == Imported(f)
  <2>1. /\ work' = work \o new /\ allImports' = allImports \cup ToSet(new)
        /\ DOMAIN rules' = DOMAIN rules \cup {f} /\ phase' = "imports"
    BY <1>1, <1>5 DEF ReadImports
  <2>2. /\ Sequence(t) /\ PathsIn(t, Dir[f]) = known
        /\ \A p \in known \cap DOMAIN Resolve : Resolve[p] \in U
    BY <1>2, <1>3, FileImports
  <2> HIDE DEF t
  <2>3. /\ new \in Seq(FilesIn(t, Dir[f])) /\ IsInjective(new)
        /\ ToSet(new) = FilesIn(t, Dir[f]) \ seen
    BY <2>2, NewImportsAre
  <2> HIDE DEF new, f
  <2>4. FilesIn(t, Dir[f]) = {Resolve[p] : p \in known} /\ known \subseteq DOMAIN Resolve
    BY <1>5, <2>2 DEF FilesIn
  <2> HIDE DEF known
  <2>5. FilesIn(t, Dir[f]) \subseteq U /\ new \in Seq(U)
    <3>1. FilesIn(t, Dir[f]) \subseteq U
      BY <2>2, <2>4
    <3> QED
      BY <2>3, <3>1
  <2>6. ToSet(work) = seen
    BY <1>2, HeadAndTail
  <2> HIDE DEF seen
  <2>7. /\ work' \in Seq(U) /\ IsInjective(work') /\ ToSet(work') = ToSet(work) \cup ToSet(new)
        /\ Len(work') = Len(work) + Len(new) /\ \A n \in 1..Len(work) : work'[n] = work[n]
        /\ Tail(work') = Tail(work) \o new
    <3>1. ToSet(work) \cap ToSet(new) = {}
      BY <2>3, <2>6
    <3> HIDE DEF U
    <3> QED
      BY <1>2, <2>1, <2>3, <2>5, <3>1, JoinNew
  <2>8. ToSet(Tail(work) \o new) = ToSet(Tail(work)) \cup ToSet(new)
    <3>1. Tail(work) \in Seq(U)
      BY <1>2, HeadTailProperties
    <3> HIDE DEF U
    <3>2. Range(Tail(work) \o new) = Range(Tail(work)) \cup Range(new)
      BY <2>5, <3>1, RangeConcatenation
    <3>3. \A s : ToSet(s) = Range(s)
      BY DEF ToSet, Range
    <3> QED
      BY <3>2, <3>3
  <2>9. allImports' = ToSet(Tail(work'))
    BY <1>2, <2>1, <2>7, <2>8
  <2>10. work' # <<>> /\ source' = work'[1] /\ offset' \in 1..(Len(work') + 1)
    <3>1. Len(new) \in Nat
      BY <2>5
    <3>2. Len(work') # 0 /\ 1 \in 1..Len(work)
      BY <1>3, <2>7, <3>1
    <3>3. work' # <<>>
      BY <3>2
    <3> QED
      BY <1>1, <1>2, <1>3, <2>7, <3>1, <3>2, <3>3
  <2>11. DOMAIN rules' \subseteq ToSet(work')
    <3>1. f \in ToSet(work)
      BY <1>3 DEF f
    <3>2. DOMAIN rules' = DOMAIN rules \cup {f}
      BY <2>1
    <3> QED
      BY <1>2, <2>7, <3>1, <3>2
  <2>12. \A p \in known : p \in DOMAIN Resolve /\ Resolve[p] \in ToSet(work')
    BY <2>3, <2>4, <2>6, <2>7
  <2>13. ASSUME NEW n \in 1..(offset' - 1) PROVE Listed(n)'
    <3>1. n \in 1..Len(work) /\ (n \in 1..(offset - 1) \/ n = offset)
      BY <1>1, <1>2, <1>3
    <3>2. work'[n] = work[n]
      BY <2>7, <3>1
    <3>3. \A p \in Imported(work[n]) : p \in DOMAIN Resolve /\ Resolve[p] \in ToSet(work')
      <4>1. CASE n = offset
        BY <2>12, <4>1 DEF known, f
      <4>2. CASE n \in 1..(offset - 1)
        <5>1. Listed(n)
          BY <1>2, <4>2
        <5> QED
          BY <2>7, <5>1 DEF Listed
      <4> QED
        BY <3>1, <4>1, <4>2
    <3>4. Imported(work[n])' = Imported(work[n])
      BY <1>1, <3>2 DEF Imported
    <3> QED
      BY <3>3, <3>4 DEF Listed
  <2>14. ToSet(work') \subseteq Closure(source)
    <3>1. f \in Closure(source)
      BY <1>2, <1>3 DEF f
    <3>2. \A p \in known : Resolve[p] \in Closure(source)
      BY <1>2, <2>4, <3>1, ClosureClosed DEF known
    <3> QED
      BY <1>2, <2>3, <2>4, <2>7, <3>2
  <2>15. Closure(source)' = Closure(source)
    BY <1>1 DEF Closure, Closed, Imported
  <2> QED
    BY <1>1, <1>2, <2>1, <2>7, <2>9, <2>10, <2>11, <2>13, <2>14, <2>15 DEF WorkList
<1> QED
  BY <1>4, <1>5

LEMMA WorkListStep ==
    ASSUME Shape, WorkList, Next
    PROVE  WorkList'
<1>1. CASE RunArgFails \/ RunArg \/ EndArgs
  <2>1. UNCHANGED <<work, offset, rules, tree>> /\ phase' \notin {"imports", "build"}
    BY <1>1 DEF RunArgFails, RunArg, EndArgs, afterArgs, inputs
  <2> QED
    BY <2>1, WorkListKept
<1>2. CASE StartFile
  BY <1>2, WorkListStart
<1>3. CASE StartCode
  <2>1. UNCHANGED <<work, offset, rules, tree>> /\ phase' = "first"
    BY <1>3 DEF StartCode, fromArgs, inputs
  <2> QED
    BY <2>1, WorkListKept
<1>4. CASE Finish
  <2>1. UNCHANGED <<work, offset, rules, tree>> /\ phase' = "done"
    BY <1>4 DEF Finish, fromArgs, inputs
  <2> QED
    BY <2>1, WorkListKept
<1>5. CASE ReadImports
  BY <1>5, WorkListRead
<1>6. CASE EndImports
  <2>1. /\ phase = "imports" /\ phase' = "build" /\ offset > Len(work)
        /\ UNCHANGED <<work, offset, allImports, rules, buffer, source, tree>>
    BY <1>6 DEF EndImports, fromStart, fromArgs, inputs
  <2>2. Closure(source)' = Closure(source)
    BY <2>1 DEF Closure, Closed, Imported
  <2>3. \A n : Listed(n)' <=> Listed(n)
    BY <2>1 DEF Listed, Imported
  <2>4. Sequence(buffer') /\ Built' = {}
    <3>1. buffer' = <<>>
      BY <2>1 DEF WorkList
    <3>2. <<>> \in Seq({}) /\ 1..Len(<<>>) = {}
      OBVIOUS
    <3>3. Sequence(<<>>)
      BY <3>2, SequenceIs
    <3>4. 1..Len(buffer') = {}
      BY <3>1, <3>2
    <3>5. Built' = {}
      BY <3>4 DEF Built
    <3> QED
      BY <3>1, <3>3, <3>5
  <2>5. offset = Len(work) + 1
    BY <2>1 DEF WorkList
  <2> QED
    BY <2>1, <2>2, <2>3, <2>4, <2>5 DEF WorkList
<1>7. CASE AddSource
  <2>1. UNCHANGED <<work, offset, rules, tree>> /\ phase' = "first"
    BY <1>7 DEF AddSource, fromStart, fromArgs, inputs
  <2> QED
    BY <2>1, WorkListKept
<1>8. ASSUME NEW f \in allImports, ScanFile(f) PROVE WorkList'
  <2>1. /\ phase = "build" /\ phase' \in {"build", "died"}
        /\ UNCHANGED <<work, offset, allImports, rules, source, tree>>
    BY <1>8 DEF ScanFile, fromStart, fromArgs, inputs
  <2>2. CASE phase' = "died"
    BY <2>1, <2>2, WorkListKept
  <2>3. CASE phase' = "build"
    <3>1. PICK x : x.from = f /\ buffer' = Append(buffer, x)
      <4>1. PICK text : Extend(f, text)
        BY <1>8, <2>1, <2>3 DEF ScanFile
      <4> DEFINE x == [from |-> f, text |-> (IF buffer = <<>> THEN <<>> ELSE <<K("reset")>>) \o text]
      <4>2. buffer' = Append(buffer, x)
        BY <4>1 DEF Extend
      <4>3. x.from = f
        OBVIOUS
      <4> HIDE DEF x
      <4> QED
        BY <4>2, <4>3
    <3>2. Sequence(buffer) /\ Built \subseteq allImports
      BY <2>1 DEF WorkList
    <3> DEFINE V == Range(buffer) \cup {x}
    <3>3. buffer \in Seq(V) /\ x \in V
      BY <3>2 DEF Sequence
    <3> HIDE DEF V
    <3>4. /\ buffer' \in Seq(V) /\ Len(buffer') = Len(buffer) + 1 /\ Len(buffer) \in Nat
          /\ buffer'[Len(buffer) + 1] = x /\ \A n \in 1..Len(buffer) : buffer'[n] = buffer[n]
      BY <3>1, <3>3
    <3>5. Built' \subseteq allImports
      <4>1. 1..Len(buffer') = (1..Len(buffer)) \cup {Len(buffer) + 1}
        BY <3>4
      <4> QED
        BY <3>1, <3>2, <3>4, <4>1, <1>8 DEF Built
    <3>6. Sequence(buffer')
      BY <3>4, SequenceIs
    <3>7. Closure(source)' = Closure(source)
      BY <2>1 DEF Closure, Closed, Imported
    <3>8. \A n : Listed(n)' <=> Listed(n)
      BY <2>1 DEF Listed, Imported
    <3> QED
      BY <2>1, <2>3, <3>5, <3>6, <3>7, <3>8 DEF WorkList
  <2> QED
    BY <2>1, <2>2, <2>3
<1>9. CASE DumpOnly \/ FirstPass \/ Parse
  <2>1. UNCHANGED <<work, offset, rules, tree>> /\ phase' \notin {"imports", "build"}
    BY <1>9 DEF DumpOnly, FirstPass, Parse, fromArgs, inputs
  <2> QED
    BY <2>1, WorkListKept
<1>10. CASE phase \in {"done", "exited", "died"} /\ UNCHANGED vars
  <2>1. UNCHANGED <<work, offset, rules, tree>> /\ phase' \notin {"imports", "build"}
    BY <1>10 DEF vars, inputs
  <2> QED
    BY <2>1, WorkListKept
<1> QED
  BY <1>1, <1>2, <1>3, <1>4, <1>5, <1>6, <1>7, <1>8, <1>9, <1>10 DEF Next

-----------------------------------------------------------------------------
(* The command line.                                                        *)

LEMMA SweptAt ==
    ASSUME NEW r, NEW n \in Nat, NEW base, NEW step, Swept(r, n, base, step)
    PROVE  \A i \in 1..n : r[i] = step[<<i, r[i - 1]>>]
<1> DEFINE g == [i \in 0..n |-> IF i = 0 THEN base ELSE step[<<i, r[i - 1]>>]]
<1>1. r = g
  BY DEF Swept
<1>2. \A i \in 1..n : g[i] = step[<<i, r[i - 1]>>]
  OBVIOUS
<1> HIDE DEF g
<1> QED
  BY <1>1, <1>2

LEMMA ValuesAre ==
    ASSUME Len(argv) \in Nat
    PROVE  \A n \in 1..Len(argv) :
              IsValue[n] <=> n > 1 /\ argv[n - 1] \in TakesValue /\ ~IsValue[n - 1]
<1> DEFINE N == Len(argv)
           takes(n) == argv[n - 1] \in TakesValue
           step == [p \in Nat \X {0, 1} |->
                       IF p[1] > 1 /\ takes(p[1]) /\ p[2] = 0 THEN 1 ELSE 0]
           V == CHOOSE v : v = [n \in 1..Len(argv) |-> n > 1 /\ takes(n) /\ ~v[n - 1]]
<1>1. IsValue = V
  BY DEF IsValue
<1>2. step \in [Nat \X {0, 1} -> {0, 1}]
  OBVIOUS
<1>3. PICK r \in [0..N -> {0, 1}] : Swept(r, N, 0, step)
  <2> HIDE DEF step
  <2> QED
    BY <1>2, SweepExists
<1> DEFINE v == [n \in 1..N |-> r[n] = 1]
<1>4. ASSUME NEW n \in 1..N
      PROVE  r[n] = IF n > 1 /\ takes(n) /\ r[n - 1] = 0 THEN 1 ELSE 0
  <2>1. r[n] = step[<<n, r[n - 1]>>]
    <3> HIDE DEF step
    <3> QED
      BY <1>3, SweptAt
  <2>2. n \in Nat /\ r[n - 1] \in {0, 1}
    BY <1>3
  <2> HIDE DEF takes
  <2> QED
    BY <2>1, <2>2
<1>5. v = [n \in 1..N |-> n > 1 /\ takes(n) /\ ~v[n - 1]]
  <2>1. ASSUME NEW n \in 1..N PROVE (r[n] = 1) <=> n > 1 /\ takes(n) /\ ~v[n - 1]
    <3>1. r[n - 1] \in {0, 1}
      BY <1>3
    <3>2. n > 1 => n - 1 \in 1..N
      OBVIOUS
    <3>3. \A m \in 1..N : v[m] = (r[m] = 1)
      BY Zenon
    <3> HIDE DEF v, takes
    <3>4. n > 1 => (v[n - 1] <=> r[n - 1] = 1)
      BY <3>2, <3>3, Zenon
    <3> QED
      BY <1>4, <3>1, <3>4
  <2> DEFINE w == [n \in 1..N |-> n > 1 /\ takes(n) /\ ~v[n - 1]]
  <2>2. \A n \in 1..N : w[n] = (r[n] = 1)
    <3> HIDE DEF v, takes
    <3> QED
      BY <2>1
  <2>3. w = [n \in 1..N |-> w[n]]
    OBVIOUS
  <2> HIDE DEF w
  <2>4. v = w
    BY <2>2, <2>3
  <2> QED
    BY <2>4 DEF w
<1> HIDE DEF v
<1>6. V = [n \in 1..Len(argv) |-> n > 1 /\ takes(n) /\ ~V[n - 1]]
  <2> HIDE DEF takes
  <2> QED
    BY <1>5
<1> HIDE DEF V
<1>7. \A n \in 1..N : V[n] <=> n > 1 /\ takes(n) /\ ~V[n - 1]
  <2> HIDE DEF takes
  <2> DEFINE w == [n \in 1..N |-> n > 1 /\ takes(n) /\ ~V[n - 1]]
  <2>1. V = w
    BY <1>6
  <2>2. \A n \in 1..N : w[n] <=> n > 1 /\ takes(n) /\ ~V[n - 1]
    OBVIOUS
  <2> HIDE DEF w
  <2> QED
    BY <2>1, <2>2
<1> QED
  BY <1>1, <1>7

LEMMA KeptExists ==
    ASSUME Len(argv) \in Nat, NEW S
    PROVE  /\ \A n \in 0..Len(argv) :
                 Kept(S)[n] = IF n = 0 THEN <<>>
                              ELSE IF ~IsValue[n] /\ argv[n] \in S THEN Append(Kept(S)[n - 1], n)
                              ELSE Kept(S)[n - 1]
           /\ Plain(S) = Kept(S)[Len(argv)]
<1> DEFINE N == Len(argv)
           in(n) == ~IsValue[n] /\ argv[n] \in S
           step == [p \in Nat \X Seq(Nat) |-> IF in(p[1]) THEN Append(p[2], p[1]) ELSE p[2]]
           R == Kept(S)
<1>1. Len(Positions) = N /\ \A n \in 1..N : Positions[n] = n
  BY DEF Positions
<1>2. Plain(S) = R[N]
  BY <1>1 DEF Plain, Sweep, Kept, Positions
<1>3. step \in [Nat \X Seq(Nat) -> Seq(Nat)]
  OBVIOUS
<1>4. PICK r \in [0..N -> Seq(Nat)] : Swept(r, N, <<>>, step)
  <2>1. <<>> \in Seq(Nat)
    OBVIOUS
  <2> HIDE DEF step
  <2> QED
    BY <1>3, <2>1, SweepExists
<1>5. ASSUME NEW n \in 0..N, n # 0
      PROVE  step[<<n, r[n - 1]>>] = IF in(Positions[n]) THEN Append(r[n - 1], Positions[n]) ELSE r[n - 1]
  <2>1. r[n - 1] \in Seq(Nat) /\ n \in Nat /\ n \in 1..N
    BY <1>5
  <2>2. step[<<n, r[n - 1]>>] = IF in(n) THEN Append(r[n - 1], n) ELSE r[n - 1]
    <3> HIDE DEF in
    <3> QED
      BY <2>1
  <2> HIDE DEF step, in
  <2> QED
    BY <1>1, <2>1, <2>2
<1> DEFINE g(q, n) == IF n = 0 THEN <<>>
                      ELSE IF in(Positions[n]) THEN Append(q[n - 1], Positions[n]) ELSE q[n - 1]
<1>6. \E q : q = [n \in 0..Len(Positions) |-> g(q, n)]
  <2> HIDE DEF step, in
  <2>1. r = [n \in 0..N |-> g(r, n)]
    BY <1>4, <1>5 DEF Swept
  <2> HIDE DEF g
  <2>2. r = [n \in 0..Len(Positions) |-> g(r, n)]
    BY <1>1, <2>1
  <2> QED
    BY <2>2
<1>7. R = CHOOSE q : q = [n \in 0..Len(Positions) |-> g(q, n)]
  BY DEF Kept
<1> HIDE DEF R
<1>8. R = [n \in 0..Len(Positions) |-> g(R, n)]
  <2> HIDE DEF g
  <2> QED
    BY <1>6, <1>7
<1>9. \A n \in 0..N : R[n] = g(R, n)
  <2> DEFINE w == [n \in 0..N |-> g(R, n)]
  <2> HIDE DEF g
  <2>1. R = w
    BY <1>1, <1>8
  <2>2. \A n \in 0..N : w[n] = g(R, n)
    OBVIOUS
  <2> HIDE DEF w
  <2> QED
    BY <2>1, <2>2
<1>10. ASSUME NEW n \in 0..N
       PROVE  R[n] = IF n = 0 THEN <<>>
                     ELSE IF ~IsValue[n] /\ argv[n] \in S THEN Append(R[n - 1], n) ELSE R[n - 1]
  <2>1. R[n] = g(R, n)
    BY <1>9
  <2>2. n # 0 => Positions[n] = n
    BY <1>1
  <2> QED
    BY <2>1, <2>2
<1> QED
  BY <1>2, <1>10 DEF R

LEMMA KeptAre ==
    ASSUME Len(argv) \in Nat, NEW S
    PROVE  \A n \in 0..Len(argv) :
              /\ Kept(S)[n] \in Seq(1..Len(argv))
              /\ ToSet(Kept(S)[n]) = {m \in 1..n : ~IsValue[m] /\ argv[m] \in S}
<1> DEFINE N == Len(argv)
           R == Kept(S)
           in(m) == ~IsValue[m] /\ argv[m] \in S
           P(n) == R[n] \in Seq(1..N) /\ ToSet(R[n]) = {m \in 1..n : in(m)}
           T == {n \in Nat : n <= N => P(n)}
<1>1. \A n \in 0..N : R[n] = IF n = 0 THEN <<>> ELSE IF in(n) THEN Append(R[n - 1], n) ELSE R[n - 1]
  BY KeptExists
<1> HIDE DEF R, in
<1>2. 0 \in T
  <2>1. R[0] = <<>>
    BY <1>1
  <2>2. <<>> \in Seq(1..N) /\ ToSet(<<>>) = {}
    BY DEF ToSet
  <2>3. {m \in 1..0 : in(m)} = {}
    OBVIOUS
  <2>4. P(0)
    BY <2>1, <2>2, <2>3
  <2> HIDE DEF P
  <2> QED
    BY <2>4
<1>3. ASSUME NEW n \in T PROVE n + 1 \in T
  <2> SUFFICES ASSUME n + 1 <= N PROVE P(n + 1)
    OBVIOUS
  <2>1. n \in Nat /\ R[n] \in Seq(1..N) /\ ToSet(R[n]) = {m \in 1..n : in(m)}
    OBVIOUS
  <2>2. R[n + 1] = IF in(n + 1) THEN Append(R[n], n + 1) ELSE R[n]
    <3>1. n + 1 \in 0..N /\ n + 1 # 0 /\ n + 1 - 1 = n
      BY <2>1
    <3> QED
      BY <1>1, <3>1
  <2>3. 1..(n + 1) = (1..n) \cup {n + 1}
    BY <2>1
  <2>4. CASE ~in(n + 1)
    BY <2>1, <2>2, <2>3, <2>4
  <2>5. CASE in(n + 1)
    <3>1. n + 1 \in 1..N
      BY <2>1
    <3>2. R[n + 1] = Append(R[n], n + 1)
      BY <2>2, <2>5
    <3>3. R[n + 1] \in Seq(1..N)
      BY <2>1, <3>1, <3>2
    <3>4. ToSet(Append(R[n], n + 1)) = ToSet(R[n]) \cup {n + 1}
      <4> DEFINE q == R[n]
                 x == n + 1
      <4>1. q \in Seq(1..N) /\ x \in 1..N
        BY <2>1, <3>1
      <4> HIDE DEF q, x
      <4>2. /\ Len(Append(q, x)) = Len(q) + 1 /\ Append(q, x)[Len(q) + 1] = x
            /\ \A m \in 1..Len(q) : Append(q, x)[m] = q[m]
            /\ DOMAIN q = 1..Len(q) /\ DOMAIN Append(q, x) = 1..(Len(q) + 1)
            /\ 1..(Len(q) + 1) = (1..Len(q)) \cup {Len(q) + 1}
        BY <4>1
      <4> QED
        BY <4>2 DEF ToSet, q, x
    <3> QED
      BY <2>1, <2>3, <2>5, <3>2, <3>3, <3>4
  <2> QED
    BY <2>4, <2>5
<1>4. T = Nat
  <2>1. T \in SUBSET Nat
    OBVIOUS
  <2> HIDE DEF T
  <2> QED
    BY <1>2, <1>3, <2>1, Induction
<1>5. ASSUME NEW n \in 0..N PROVE P(n)
  <2>1. n \in T
    BY <1>4
  <2> QED
    BY <2>1
<1> QED
  BY <1>5 DEF R, in

LEMMA ArgvIs ==
    ASSUME Shape
    PROVE  argv \in Seq(Spellings) /\ Len(argv) \in Nat
<1>1. argv \in Argvs
  BY DEF Shape
<1>2. argv \in Seq(Spellings)
  BY <1>1, FilesAssumption, Zenon
<1> QED
  BY <1>2

\* None of this changes with the rest of the state.
LEMMA LineConstant ==
    ASSUME argv' = argv
    PROVE  /\ IsValue' = IsValue /\ Readable' = Readable
           /\ \A S : Kept(S)' = Kept(S)
           /\ Kept(Readable)' = Kept(Readable)
<1>1. IsValue' = IsValue
  BY DEF IsValue
<1>2. Readable' = Readable
  BY DEF Readable
<1>3. Positions' = Positions
  BY DEF Positions
<1>4. \A S : Kept(S)' = Kept(S)
  BY <1>1, <1>3 DEF Kept
<1>5. Kept(Readable)' = Kept(Readable)
  BY <1>1, <1>2, <1>3 DEF Kept
<1> QED
  BY <1>1, <1>2, <1>4, <1>5

LEMMA RestOf ==
    ASSUME NEW s \in Seq(Spellings), NEW k \in 0..Len(s), SubSeq(s, k + 1, Len(s)) # <<>>
    PROVE  /\ k < Len(s) /\ Head(SubSeq(s, k + 1, Len(s))) = s[k + 1]
           /\ Len(SubSeq(s, k + 1, Len(s))) = Len(s) - k
           /\ Tail(SubSeq(s, k + 1, Len(s))) = SubSeq(s, k + 2, Len(s))
           /\ k + 1 < Len(s) => SubSeq(s, k + 1, Len(s))[2] = s[k + 2]
<1> DEFINE u == SubSeq(s, k + 1, Len(s))
<1>1. Len(s) \in Nat /\ k \in Nat
  OBVIOUS
<1>2. k < Len(s)
  <2> SUFFICES ASSUME k = Len(s) PROVE FALSE
    BY <1>1
  <2>1. SubSeq(s, Len(s) + 1, Len(s)) = <<>>
    BY <1>1
  <2> QED
    BY <2>1
<1>3. u \in Seq(Spellings) /\ Len(u) = Len(s) - k /\ \A n \in 1..Len(u) : u[n] = s[k + n]
  BY <1>1, <1>2
<1>4. /\ Head(u) = s[k + 1] /\ (k + 1 < Len(s) => u[2] = s[k + 2])
      /\ Tail(u) \in Seq(Spellings) /\ Len(Tail(u)) = Len(s) - (k + 1)
      /\ \A n \in 1..Len(Tail(u)) : Tail(u)[n] = s[k + 1 + n]
  <2>1. u # <<>>
    OBVIOUS
  <2> HIDE DEF u
  <2>2. /\ Tail(u) \in Seq(Spellings) /\ Len(Tail(u)) = Len(u) - 1
        /\ \A n \in 1..Len(Tail(u)) : Tail(u)[n] = u[n + 1]
    BY <1>3, <2>1, HeadTailProperties
  <2>3. Head(u) = u[1] /\ u[1] = s[k + 1]
    BY <1>1, <1>2, <1>3
  <2>4. k + 1 < Len(s) => u[2] = s[k + 2]
    BY <1>1, <1>3
  <2>5. ASSUME NEW n \in 1..Len(Tail(u)) PROVE Tail(u)[n] = s[k + 1 + n]
    <3>1. n + 1 \in 1..Len(u) /\ k + (n + 1) = k + 1 + n
      BY <1>1, <1>2, <1>3, <2>2
    <3>2. Tail(u)[n] = u[n + 1] /\ u[n + 1] = s[k + (n + 1)]
      BY <1>3, <2>2, <3>1
    <3> QED
      BY <3>1, <3>2
  <2>6. Len(Tail(u)) = Len(s) - (k + 1)
    BY <1>1, <1>3, <2>2
  <2> QED
    BY <2>2, <2>3, <2>4, <2>5, <2>6
<1> DEFINE w == SubSeq(s, k + 2, Len(s))
<1>5. w \in Seq(Spellings) /\ Len(w) = Len(s) - (k + 1) /\ \A n \in 1..Len(w) : w[n] = s[k + 1 + n]
  <2> DEFINE a == k + 2
             b == Len(s)
  <2>1. a \in 1..(b + 1) /\ b \in Nat /\ \A n \in a..b : s[n] \in Spellings
    BY <1>1, <1>2
  <2>2. /\ SubSeq(s, a, b) \in Seq(Spellings)
        /\ Len(SubSeq(s, a, b)) = IF a <= b THEN b - a + 1 ELSE 0
        /\ \A n \in 1..(b - a + 1) : SubSeq(s, a, b)[n] = s[a + n - 1]
    BY <2>1, SubSeqProperties
  <2>3. Len(w) = Len(s) - (k + 1)
    BY <1>1, <1>2, <2>2
  <2>4. ASSUME NEW n \in 1..Len(w) PROVE w[n] = s[k + 1 + n]
    <3>1. n \in 1..(b - a + 1) /\ a + n - 1 = k + 1 + n
      BY <1>1, <2>3
    <3> QED
      BY <2>2, <3>1
  <2> QED
    BY <2>2, <2>3, <2>4
<1>6. Tail(u) = w
  <2> DEFINE x == Tail(u)
  <2>1. x \in Seq(Spellings) /\ Len(x) = Len(w) /\ \A n \in 1..Len(x) : x[n] = w[n]
    BY <1>4, <1>5
  <2>2. w \in Seq(Spellings)
    BY <1>5
  <2> HIDE DEF x, w, u
  <2>3. x = w
    BY <2>1, <2>2, SeqEqual
  <2> QED
    BY <2>3 DEF x
<1> QED
  BY <1>2, <1>3, <1>4, <1>6

LEMMA MapAppend ==
    ASSUME NEW U, NEW a, NEW q \in Seq(U), NEW m \in U
    PROVE  [n \in 1..Len(Append(q, m)) |-> a[Append(q, m)[n]]]
              = Append([n \in 1..Len(q) |-> a[q[n]]], a[m])
<1> DEFINE V == {a[x] : x \in U}
           u == Append(q, m)
           s == [n \in 1..Len(q) |-> a[q[n]]]
           t == [n \in 1..Len(u) |-> a[u[n]]]
<1>1. /\ u \in Seq(U) /\ Len(u) = Len(q) + 1 /\ Len(q) \in Nat /\ u[Len(q) + 1] = m
      /\ \A n \in 1..Len(q) : u[n] = q[n]
  OBVIOUS
<1>2. \A n \in 1..Len(u) : u[n] \in U
  BY <1>1
<1>3. t \in Seq(V) /\ Len(t) = Len(q) + 1
  <2> HIDE DEF u
  <2> QED
    BY <1>1, <1>2
<1>4. s \in Seq(V) /\ a[m] \in V /\ Len(s) = Len(q)
  OBVIOUS
<1>5. \A n \in 1..Len(t) : t[n] = a[u[n]]
  <2> HIDE DEF u
  <2> QED
    BY <1>1
<1>6. \A n \in 1..Len(q) : s[n] = a[q[n]]
  OBVIOUS
<1> HIDE DEF u, s, t, V
<1>7. Append(s, a[m]) \in Seq(V) /\ Len(Append(s, a[m])) = Len(q) + 1
      /\ Append(s, a[m])[Len(q) + 1] = a[m] /\ \A n \in 1..Len(q) : Append(s, a[m])[n] = s[n]
  BY <1>4
<1>8. ASSUME NEW n \in 1..Len(t) PROVE t[n] = Append(s, a[m])[n]
  <2>1. n \in 1..Len(q) \/ n = Len(q) + 1
    BY <1>1, <1>3
  <2> QED
    BY <1>1, <1>5, <1>6, <1>7, <2>1
<1>9. t = Append(s, a[m])
  BY <1>3, <1>7, <1>8, SeqEqual
<1> QED
  BY <1>9 DEF t, s, u

\* What one turn notes of an argument.
LEMMA ArgNoted ==
    ASSUME Shape, RunArg, Head(args) \in ToSet(argv)
    PROVE  /\ crate'.sources = IF Head(args) \in Readable THEN Append(crate.sources, Head(args))
                               ELSE crate.sources
           /\ Len(crate'.code) = IF Head(args) = "--code" THEN Len(crate.code) + 1
                                 ELSE Len(crate.code)
<1> DEFINE a == Head(args)
           R == [sources : Seq(Sources), objects : Seq(Spellings), code : Seq(Spellings),
                 libs : Seq(Spellings)]
<1>1. crate \in R /\ args \in Seq(Spellings)
  BY DEF Shape
<1>2. /\ a \notin Quits /\ (a \in TakesValue => Len(args) > 1)
      /\ crate' = IF a = "--code" THEN [crate EXCEPT !.code = Append(@, args[2])]
                  ELSE IF a \in TakesValue \cup Switches THEN crate
                  ELSE Seive(crate, a)
  BY DEF RunArg
<1>3. "--code" \in TakesValue
  BY DEF TakesValue
<1>4. a \in ToSet(argv)
  OBVIOUS
<1> HIDE DEF a
<1>5. a \in Readable <=> /\ <<Home, a>> \in DOMAIN Resolve
                         /\ a \notin Objects /\ a \notin Libraries /\ a \notin TakesValue
                         /\ a \notin Switches
  BY <1>2, <1>4 DEF Readable
<1>6. CASE a = "--code"
  <2>1. args[2] \in Spellings
    BY <1>1, <1>2, <1>3, <1>6
  <2>2. crate' = [crate EXCEPT !.code = Append(@, args[2])]
    BY <1>2, <1>6
  <2>3. crate'.sources = crate.sources /\ crate'.code = Append(crate.code, args[2])
    BY <1>1, <2>2
  <2>4. Len(Append(crate.code, args[2])) = Len(crate.code) + 1
    BY <1>1, <2>1
  <2>5. a \notin Readable
    BY <1>3, <1>5, <1>6
  <2> QED
    BY <1>6, <2>3, <2>4, <2>5 DEF a
<1>7. CASE a # "--code" /\ a \in TakesValue \cup Switches
  <2>1. crate' = crate
    BY <1>2, <1>7
  <2>2. a \notin Readable
    BY <1>5, <1>7
  <2> QED
    BY <1>7, <2>1, <2>2 DEF a
<1>8. CASE a # "--code" /\ a \notin TakesValue \cup Switches
  <2>1. crate' = Seive(crate, a)
    BY <1>2, <1>8
  <2>2. CASE a \in Libraries
    <3>1. crate' = [crate EXCEPT !.libs = Append(@, a)]
      BY <2>1, <2>2 DEF Seive
    <3>2. crate'.sources = crate.sources /\ crate'.code = crate.code
      BY <1>1, <3>1
    <3> QED
      BY <1>5, <1>8, <2>2, <3>2 DEF a
  <2>3. CASE a \notin Libraries /\ <<Home, a>> \notin DOMAIN Resolve
    <3>1. crate' = crate
      BY <2>1, <2>3 DEF Seive
    <3> QED
      BY <1>5, <1>8, <2>3, <3>1 DEF a
  <2>4. CASE a \notin Libraries /\ <<Home, a>> \in DOMAIN Resolve /\ a \in Objects
    <3>1. crate' = [crate EXCEPT !.objects = Append(@, a)]
      BY <2>1, <2>4 DEF Seive
    <3>2. crate'.sources = crate.sources /\ crate'.code = crate.code
      BY <1>1, <3>1
    <3> QED
      BY <1>5, <1>8, <2>4, <3>2 DEF a
  <2>5. CASE a \notin Libraries /\ <<Home, a>> \in DOMAIN Resolve /\ a \notin Objects
    <3>1. crate' = [crate EXCEPT !.sources = Append(@, a)]
      BY <2>1, <2>5 DEF Seive
    <3>2. crate'.sources = Append(crate.sources, a) /\ crate'.code = crate.code
      BY <1>1, <3>1
    <3>3. a \in Readable
      BY <1>5, <1>8, <2>5
    <3> QED
      BY <1>8, <3>2, <3>3 DEF a
  <2> QED
    BY <2>2, <2>3, <2>4, <2>5
<1> QED
  BY <1>6, <1>7, <1>8

LEMMA LineArg ==
    ASSUME Shape, Line, RunArg
    PROVE  Line'
<1> DEFINE N == Len(argv)
           a == Head(args)
           F(k) == Kept(Readable)[k]
           C(k) == Kept({"--code"})[k]
           Note(k) == /\ crate'.sources = [n \in 1..Len(F(k)) |-> argv[F(k)[n]]]
                      /\ Len(crate'.code) = Len(C(k))
                      /\ argdump' = {argv[n] : n \in {n \in 1..k : ~IsValue[n]}}
<1>1. /\ phase = "args" /\ args # <<>> /\ phase' = "args" /\ argv' = argv
      /\ argdump' = argdump \cup {a}
      /\ args' = IF a \in TakesValue THEN Tail(Tail(args)) ELSE Tail(args)
      /\ a \in TakesValue => Len(args) > 1
  BY DEF RunArg, afterArgs, inputs
<1>2. argv \in Seq(Spellings) /\ N \in Nat
  BY ArgvIs
<1>3. PICK k \in 0..N : /\ args = SubSeq(argv, k + 1, N)
                        /\ k < N => ~IsValue[k + 1]
                        /\ Noted(k)
  BY <1>1 DEF Line
<1>4. /\ k < N /\ a = argv[k + 1] /\ Len(args) = N - k /\ Tail(args) = SubSeq(argv, k + 2, N)
  BY <1>1, <1>2, <1>3, RestOf
<1>5. k + 1 \in 1..N /\ ~IsValue[k + 1] /\ a \in ToSet(argv)
  <2>1. k + 1 \in 1..N /\ DOMAIN argv = 1..N
    BY <1>2, <1>4
  <2> QED
    BY <1>3, <1>4, <2>1 DEF ToSet
<1> HIDE DEF a
<1>6. \A S : /\ Kept(S)[k] \in Seq(1..N)
             /\ Kept(S)[k + 1] = IF a \in S THEN Append(Kept(S)[k], k + 1) ELSE Kept(S)[k]
  <2> SUFFICES ASSUME NEW S
               PROVE  /\ Kept(S)[k] \in Seq(1..N)
                      /\ Kept(S)[k + 1] = IF a \in S THEN Append(Kept(S)[k], k + 1) ELSE Kept(S)[k]
    OBVIOUS
  <2>1. Kept(S)[k] \in Seq(1..N)
    BY <1>2, KeptAre
  <2>2. k + 1 \in 0..N /\ k + 1 # 0 /\ k + 1 - 1 = k
    BY <1>5
  <2>3. Kept(S)[k + 1] = IF k + 1 = 0 THEN <<>>
                         ELSE IF ~IsValue[k + 1] /\ argv[k + 1] \in S
                         THEN Append(Kept(S)[k + 1 - 1], k + 1) ELSE Kept(S)[k + 1 - 1]
    BY <1>2, <2>2, KeptExists
  <2> QED
    BY <1>4, <1>5, <2>1, <2>2, <2>3
<1>7. Note(k + 1)
  <2>1. /\ crate'.sources = IF a \in Readable THEN Append(crate.sources, a) ELSE crate.sources
        /\ Len(crate'.code) = IF a = "--code" THEN Len(crate.code) + 1 ELSE Len(crate.code)
    BY <1>5, ArgNoted DEF a
  <2>2. /\ crate.sources = [n \in 1..Len(F(k)) |-> argv[F(k)[n]]]
        /\ Len(crate.code) = Len(C(k))
        /\ argdump = {argv[n] : n \in {n \in 1..k : ~IsValue[n]}}
    BY <1>3 DEF Noted
  <2>3. crate'.sources = [n \in 1..Len(F(k + 1)) |-> argv[F(k + 1)[n]]]
    <3>1. CASE a \in Readable
      <4> DEFINE q == F(k)
      <4>1. q \in Seq(1..N) /\ F(k + 1) = Append(q, k + 1)
        BY <1>6, <3>1
      <4>2. [n \in 1..Len(Append(q, k + 1)) |-> argv[Append(q, k + 1)[n]]]
               = Append([n \in 1..Len(q) |-> argv[q[n]]], argv[k + 1])
        BY <1>5, <4>1, MapAppend
      <4> QED
        BY <1>4, <2>1, <2>2, <3>1, <4>1, <4>2
    <3>2. CASE a \notin Readable
      <4>1. F(k + 1) = F(k)
        BY <1>6, <3>2
      <4> QED
        BY <2>1, <2>2, <3>2, <4>1
    <3> QED
      BY <3>1, <3>2
  <2>4. Len(crate'.code) = Len(C(k + 1))
    <3>1. C(k) \in Seq(1..N) /\ C(k + 1) = IF a = "--code" THEN Append(C(k), k + 1) ELSE C(k)
      BY <1>6
    <3>2. Len(Append(C(k), k + 1)) = Len(C(k)) + 1
      <4> DEFINE q == C(k)
      <4>1. q \in Seq(1..N) /\ k + 1 \in 1..N
        BY <1>5, <3>1
      <4> HIDE DEF q
      <4>2. Len(Append(q, k + 1)) = Len(q) + 1
        BY <4>1
      <4> QED
        BY <4>2 DEF q
    <3> QED
      BY <2>1, <2>2, <3>1, <3>2
  <2>5. argdump' = {argv[n] : n \in {n \in 1..(k + 1) : ~IsValue[n]}}
    <3>1. 1..(k + 1) = (1..k) \cup {k + 1}
      BY <1>5
    <3> QED
      BY <1>1, <1>4, <1>5, <2>2, <3>1
  <2> QED
    BY <2>3, <2>4, <2>5
<1>8. \A j \in 0..N : Note(j) => Noted(j)'
  BY <1>1, LineConstant DEF Noted
<1>9. \A j \in 1..N : IsValue[j] <=> j > 1 /\ argv[j - 1] \in TakesValue /\ ~IsValue[j - 1]
  BY <1>2, ValuesAre
<1>10. \E j \in 0..N : args' = SubSeq(argv, j + 1, N) /\ (j < N => ~IsValue[j + 1]) /\ Note(j)
  <2>1. CASE a \notin TakesValue
    <3>1. args' = SubSeq(argv, k + 2, N) /\ k + 1 + 1 = k + 2 /\ k + 1 \in 0..N
      BY <1>1, <1>4, <1>5, <2>1
    <3>2. k + 1 < N => ~IsValue[k + 2]
      <4>1. k + 1 < N => k + 2 \in 1..N /\ k + 2 - 1 = k + 1
        BY <1>5
      <4> QED
        BY <1>4, <1>9, <2>1, <4>1
    <3> HIDE DEF Note
    <3> QED
      BY <1>7, <3>1, <3>2
  <2>2. CASE a \in TakesValue
    <3>1. k + 1 < N /\ k + 2 \in 1..N /\ k + 2 \in 0..N /\ k + 1 \in 0..N
      BY <1>1, <1>2, <1>4, <2>2
    <3>2. args' = SubSeq(argv, k + 2 + 1, N)
      <4>1. Tail(args) # <<>>
        <5>1. Len(Tail(args)) = N - k - 1
          BY <1>2, <1>3, <1>4, <1>1, HeadTailProperties, ArgvIs DEF Shape
        <5>2. Len(Tail(args)) # Len(<<>>)
          <6>1. Len(<<>>) = 0
            OBVIOUS
          <6>2. N - k - 1 # 0
            BY <1>2, <3>1
          <6> QED
            BY <5>1, <6>1, <6>2, Zenon
        <5> QED
          BY <5>2, Zenon
      <4>2. Tail(args) = SubSeq(argv, (k + 1) + 1, N)
        <5>1. (k + 1) + 1 = k + 2
          OBVIOUS
        <5> QED
          BY <1>4, <5>1
      <4>3. Tail(Tail(args)) = SubSeq(argv, (k + 1) + 2, N)
        BY <1>2, <3>1, <4>1, <4>2, RestOf
      <4>4. (k + 1) + 2 = k + 2 + 1
        OBVIOUS
      <4> QED
        BY <1>1, <2>2, <4>3, <4>4
    <3>3. IsValue[k + 2]
      <4>1. k + 2 > 1 /\ k + 2 - 1 = k + 1
        OBVIOUS
      <4> QED
        BY <1>4, <1>5, <1>9, <2>2, <3>1, <4>1
    <3>4. k + 2 < N => ~IsValue[k + 2 + 1]
      <4>1. k + 2 < N => k + 2 + 1 \in 1..N /\ k + 2 + 1 - 1 = k + 2
        BY <3>1
      <4> QED
        BY <1>9, <3>3, <4>1
    <3>5. \A S : Kept(S)[k + 2] = Kept(S)[k + 1]
      <4> SUFFICES ASSUME NEW S PROVE Kept(S)[k + 2] = Kept(S)[k + 1]
        OBVIOUS
      <4>1. k + 2 # 0 /\ k + 2 - 1 = k + 1
        OBVIOUS
      <4>2. Kept(S)[k + 2] = IF k + 2 = 0 THEN <<>>
                             ELSE IF ~IsValue[k + 2] /\ argv[k + 2] \in S
                             THEN Append(Kept(S)[k + 2 - 1], k + 2) ELSE Kept(S)[k + 2 - 1]
        BY <1>2, <3>1, KeptExists
      <4> QED
        BY <3>3, <4>1, <4>2
    <3>6. {n \in 1..(k + 2) : ~IsValue[n]} = {n \in 1..(k + 1) : ~IsValue[n]}
      <4>1. 1..(k + 2) = (1..(k + 1)) \cup {k + 2}
        OBVIOUS
      <4> QED
        BY <3>3, <4>1
    <3>7. Note(k + 2)
      BY <1>7, <3>5, <3>6
    <3> HIDE DEF Note
    <3> QED
      BY <3>1, <3>2, <3>4, <3>7
  <2> QED
    BY <2>1, <2>2
<1> HIDE DEF Note
<1>11. \E j \in 0..N : args' = SubSeq(argv, j + 1, N) /\ (j < N => ~IsValue[j + 1]) /\ Noted(j)'
  BY <1>8, <1>10
<1> QED
  BY <1>1, <1>11, LineConstant DEF Line

LEMMA LineKept ==
    ASSUME Line, UNCHANGED fromArgs, phase \notin {"args", "exited", "died"},
           phase' \notin {"args", "exited"}
    PROVE  Line'
<1>1. argv' = argv /\ crate' = crate /\ argdump' = argdump
  BY DEF fromArgs, inputs
<1>2. Noted(Len(argv))' <=> Noted(Len(argv))
  BY <1>1, LineConstant DEF Noted
<1> QED
  BY <1>2 DEF Line

LEMMA LineStep ==
    ASSUME Shape, Line, Next
    PROVE  Line'
<1>0. argv \in Seq(Spellings) /\ Len(argv) \in Nat
  BY ArgvIs
<1>1. CASE RunArgFails
  <2>1. /\ phase = "args" /\ args # <<>> /\ argv' = argv
        /\ phase' = IF Head(args) \in Quits THEN "exited" ELSE "died"
    BY <1>1 DEF RunArgFails, afterArgs, inputs
  <2>2. PICK k \in 0..Len(argv) : /\ args = SubSeq(argv, k + 1, Len(argv))
                                  /\ k < Len(argv) => ~IsValue[k + 1]
    BY <2>1 DEF Line
  <2>3. k < Len(argv) /\ Head(args) = argv[k + 1]
    BY <1>0, <2>1, <2>2, RestOf
  <2>4. k + 1 \in 1..Len(argv)
    BY <1>0, <2>3
  <2> QED
    BY <2>1, <2>2, <2>3, <2>4, LineConstant DEF Line
<1>2. CASE RunArg
  BY <1>2, LineArg
<1>3. CASE EndArgs
  <2>1. /\ phase = "args" /\ args = <<>> /\ phase' \in {"next", "died"}
        /\ argv' = argv /\ crate' = crate /\ argdump' = argdump
    BY <1>3 DEF EndArgs, afterArgs, inputs
  <2>2. PICK k \in 0..Len(argv) : args = SubSeq(argv, k + 1, Len(argv)) /\ Noted(k)
    BY <2>1 DEF Line
  <2>3. k = Len(argv)
    <3> SUFFICES ASSUME k < Len(argv) PROVE FALSE
      BY <1>0
    <3> DEFINE a == k + 1
               b == Len(argv)
    <3>1. a \in Int /\ b \in Int /\ a <= b /\ \A i \in a..b : argv[i] \in Spellings
      BY <1>0
    <3>2. Len(SubSeq(argv, a, b)) = IF a <= b THEN b - a + 1 ELSE 0
      BY <3>1, SubSeqProperties
    <3>3. Len(<<>>) = b - a + 1
      BY <2>1, <2>2, <3>1, <3>2, Zenon
    <3>4. Len(<<>>) = 0
      OBVIOUS
    <3> QED
      BY <3>1, <3>3, <3>4
  <2>4. Noted(Len(argv))
    BY <2>2, <2>3
  <2>5. Noted(Len(argv))' <=> Noted(Len(argv))
    BY <2>1, LineConstant DEF Noted
  <2> QED
    BY <2>1, <2>4, <2>5 DEF Line
<1>4. CASE StartFile \/ StartCode \/ Finish
  <2>1. /\ UNCHANGED fromArgs /\ phase = "next" /\ phase' \in {"imports", "first", "done"}
    BY <1>4 DEF StartFile, StartCode, Finish
  <2> QED
    BY <2>1, LineKept
<1>5. CASE ReadImports \/ EndImports
  <2>1. /\ UNCHANGED fromArgs /\ phase = "imports" /\ phase' \in {"imports", "died", "build"}
    BY <1>5 DEF ReadImports, EndImports, fromStart
  <2> QED
    BY <2>1, LineKept
<1>6. CASE AddSource \/ \E f \in allImports : ScanFile(f)
  <2>1. /\ UNCHANGED fromArgs /\ phase = "build" /\ phase' \in {"build", "died", "first"}
    BY <1>6 DEF AddSource, ScanFile, fromStart
  <2> QED
    BY <2>1, LineKept
<1>7. CASE DumpOnly \/ FirstPass
  <2>1. /\ UNCHANGED fromArgs /\ phase = "first" /\ phase' \in {"next", "died", "parse"}
    BY <1>7 DEF DumpOnly, FirstPass
  <2> QED
    BY <2>1, LineKept
<1>8. CASE Parse
  <2>1. /\ UNCHANGED fromArgs /\ phase = "parse" /\ phase' \in {"next", "died"}
    BY <1>8 DEF Parse
  <2> QED
    BY <2>1, LineKept
<1>9. CASE phase \in {"done", "exited", "died"} /\ UNCHANGED vars
  <2>1. argv' = argv /\ crate' = crate /\ argdump' = argdump /\ args' = args /\ phase' = phase
    BY <1>9 DEF vars, inputs
  <2>2. Noted(Len(argv))' <=> Noted(Len(argv))
    BY <2>1, LineConstant DEF Noted
  <2> QED
    BY <1>9, <2>1, <2>2, LineConstant DEF Line
<1> QED
  BY <1>1, <1>2, <1>3, <1>4, <1>5, <1>6, <1>7, <1>8, <1>9 DEF Next

-----------------------------------------------------------------------------
(* The inputs that were parsed.                                             *)

LEMMA FromKept ==
    ASSUME crate' = crate
    PROVE  Inputs(crate)' = Inputs(crate) /\ \A n : From(n)' = From(n)
BY DEF Inputs, From, Files

\* An input ends: it is one more unit.
LEMMA CompiledEnd ==
    ASSUME Shape, Compiled, phase \in {"first", "parse"}, phase' = "next",
           UNCHANGED <<crate, input>>, NEW x, x.from = source, units' = Append(units, x)
    PROVE  Compiled'
<1>1. /\ input # 0 /\ Len(units) = input - 1 /\ source = From(input) /\ Sequence(units)
      /\ \A n \in 1..(input - 1) : units[n].from = From(n)
  BY DEF Compiled
<1>2. input \in Nat /\ Len(units) \in Nat
  <2>1. Inputs(crate) \in Nat
    BY CrateLengths, InputsNat
  <2>2. Len(units) \in Nat
    BY <1>1 DEF Sequence
  <2> QED
    BY <2>1, <2>2 DEF Shape
<1> DEFINE V == Range(units) \cup {x}
<1>3. units \in Seq(V) /\ x \in V
  BY <1>1 DEF Sequence
<1> HIDE DEF V
<1>4. /\ units' \in Seq(V) /\ Len(units') = Len(units) + 1 /\ units'[Len(units) + 1] = x
      /\ \A n \in 1..Len(units) : units'[n] = units[n]
  BY <1>3
<1>5. Sequence(units')
  BY <1>4, SequenceIs
<1>6. Len(units') = input
  BY <1>1, <1>2, <1>4
<1>7. ASSUME NEW n \in 1..input PROVE units'[n].from = From(n)
  <2>1. n \in 1..(input - 1) \/ n = input
    BY <1>2
  <2>2. CASE n = input
    BY <1>1, <1>2, <1>4, <2>2
  <2>3. CASE n \in 1..(input - 1)
    BY <1>1, <1>4, <2>3
  <2> QED
    BY <2>1, <2>2, <2>3
<1> QED
  BY <1>5, <1>6, <1>7, FromKept DEF Compiled

\* An input is under way, or one failed.
LEMMA CompiledKept ==
    ASSUME Compiled, UNCHANGED <<crate, input, source, units>>,
           phase \in {"imports", "build", "first", "parse"},
           phase' \in {"imports", "build", "first", "parse", "died"}
    PROVE  Compiled'
BY FromKept DEF Compiled

LEMMA CompiledStart ==
    ASSUME Shape, Compiled, phase = "next", UNCHANGED <<crate, units>>,
           input' = input + 1, phase' \in {"imports", "first"}, source' = From(input + 1)
    PROVE  Compiled'
<1>1. input \in Nat
  <2>1. Inputs(crate) \in Nat
    BY CrateLengths, InputsNat
  <2> QED
    BY <2>1 DEF Shape
<1>2. input' # 0 /\ input' - 1 = input
  BY <1>1
<1>3. Sequence(units) /\ Len(units) = input /\ \A n \in 1..input : units[n].from = From(n)
  BY DEF Compiled
<1>4. \A n : From(n)' = From(n)
  BY FromKept
<1>5. From(input)' = source'
  BY DEF From, Files, Inputs
<1> QED
  BY <1>2, <1>3, <1>4, <1>5 DEF Compiled

LEMMA CompiledStep ==
    ASSUME Shape, Compiled, Next
    PROVE  Compiled'
<1>1. CASE RunArgFails \/ RunArg
  <2>1. units' = units /\ phase' \in {"args", "exited", "died"}
    BY <1>1 DEF RunArgFails, RunArg, afterArgs, Shape
  <2> QED
    BY <2>1 DEF Compiled
<1>2. CASE EndArgs
  <2>1. /\ phase = "args" /\ phase' \in {"next", "died"} /\ units' = units /\ crate' = crate
        /\ input' = input
    BY <1>2 DEF EndArgs, afterArgs
  <2>2. input = 0 /\ units = <<>>
    BY <2>1 DEF Shape
  <2>3. Len(units) = input /\ 1..input = {}
    BY <2>2
  <2> QED
    BY <2>1, <2>3 DEF Compiled
<1>3. CASE StartFile
  <2>1. /\ phase = "next" /\ UNCHANGED <<crate, units>> /\ input' = input + 1
        /\ phase' = "imports" /\ source' = Resolve[<<cwd, crate.sources[input + 1]>>]
        /\ input < Len(crate.sources)
    BY <1>3 DEF StartFile, fromArgs, Files
  <2>2. cwd = Home /\ input + 1 <= Len(crate.sources)
    <3>1. Inputs(crate) \in Nat
      BY CrateLengths, InputsNat
    <3> QED
      BY <2>1, <3>1, CrateLengths DEF Shape
  <2>3. source' = From(input + 1)
    BY <2>1, <2>2 DEF From, Files
  <2> QED
    BY <2>1, <2>3, CompiledStart
<1>4. CASE StartCode
  <2>1. /\ phase = "next" /\ UNCHANGED <<crate, units>> /\ input' = input + 1
        /\ phase' = "first" /\ source' = (IF input < Inputs(crate) THEN "--code" ELSE "runtime")
        /\ input >= Files(crate) /\ input <= Inputs(crate)
    <3>1. Inputs(crate) \in Nat
      BY CrateLengths, InputsNat
    <3>2. input < Inputs(crate) \/ input = Inputs(crate)
      BY <1>4 DEF StartCode
    <3>3. input <= Inputs(crate)
      BY <3>1, <3>2 DEF Shape
    <3> QED
      BY <1>4, <3>3 DEF StartCode, fromArgs
  <2>2. source' = From(input + 1)
    <3>1. Inputs(crate) \in Nat /\ Files(crate) \in Nat /\ input \in Nat
      <4>1. Inputs(crate) \in Nat
        BY CrateLengths, InputsNat
      <4> QED
        BY <4>1, CrateLengths DEF Files, Shape
    <3>2. ~(input + 1 <= Files(crate)) /\ (input + 1 <= Inputs(crate) <=> input < Inputs(crate))
      BY <2>1, <3>1
    <3> QED
      BY <2>1, <3>2 DEF From
  <2> QED
    BY <2>1, <2>2, CompiledStart
<1>5. CASE Finish
  <2>1. /\ phase = "next" /\ phase' = "done" /\ UNCHANGED <<crate, input, units, argdump>>
        /\ input = Inputs(crate) + (IF WithRuntime THEN 1 ELSE 0)
    BY <1>5 DEF Finish, fromArgs
  <2>2. WithRuntime' <=> WithRuntime
    BY <2>1 DEF WithRuntime, Links
  <2> QED
    BY <2>1, <2>2, FromKept DEF Compiled
<1>6. CASE ReadImports \/ EndImports \/ AddSource \/ \E f \in allImports : ScanFile(f)
  <2>1. /\ UNCHANGED <<crate, input, source, units>> /\ phase \in {"imports", "build"}
        /\ phase' \in {"imports", "build", "first", "died"}
    BY <1>6 DEF ReadImports, EndImports, AddSource, ScanFile, fromStart, fromArgs
  <2> QED
    BY <2>1, CompiledKept
<1>7. CASE DumpOnly
  <2> DEFINE x == [from |-> source, decls |-> <<>>]
  <2>1. /\ phase = "first" /\ phase' = "next" /\ UNCHANGED <<crate, input>>
        /\ units' = Append(units, x) /\ x.from = source
    BY <1>7 DEF DumpOnly, fromArgs
  <2> HIDE DEF x
  <2> QED
    BY <2>1, CompiledEnd
<1>8. CASE FirstPass
  <2>1. /\ UNCHANGED <<crate, input, source, units>> /\ phase = "first"
        /\ phase' \in {"parse", "died"}
    BY <1>8 DEF FirstPass, fromArgs
  <2> QED
    BY <2>1, CompiledKept
<1>9. CASE Parse
  <2>1. UNCHANGED <<crate, input, source>> /\ phase = "parse"
    BY <1>9 DEF Parse, fromArgs
  <2>2. \/ phase' = "died" /\ units' = units
        \/ phase' = "next" /\ \E d : units' = Append(units, [from |-> source, decls |-> d])
    BY <1>9 DEF Parse
  <2>3. CASE phase' = "died" /\ units' = units
    BY <2>1, <2>3, CompiledKept
  <2>4. CASE phase' = "next" /\ \E d : units' = Append(units, [from |-> source, decls |-> d])
    <3>1. PICK d : units' = Append(units, [from |-> source, decls |-> d])
      BY <2>4
    <3> DEFINE x == [from |-> source, decls |-> d]
    <3>2. units' = Append(units, x) /\ x.from = source
      BY <3>1
    <3> HIDE DEF x
    <3> QED
      BY <2>1, <2>4, <3>2, CompiledEnd
  <2> QED
    BY <2>2, <2>3, <2>4
<1>10. CASE phase \in {"done", "exited", "died"} /\ UNCHANGED vars
  <2>1. UNCHANGED <<crate, input, units, argdump, phase>>
    BY <1>10 DEF vars
  <2>2. WithRuntime' <=> WithRuntime
    BY <2>1 DEF WithRuntime, Links
  <2> QED
    BY <1>10, <2>1, <2>2, FromKept DEF Compiled
<1> QED
  BY <1>1, <1>2, <1>3, <1>4, <1>5, <1>6, <1>7, <1>8, <1>9, <1>10 DEF Next

-----------------------------------------------------------------------------
(* The theorems.                                                            *)

LEMMA InitInv ==
    ASSUME Init
    PROVE  IInv
<1>1. /\ phase = "args" /\ argv \in Argvs /\ tree \in Trees /\ args = argv
      /\ crate = [sources |-> <<>>, objects |-> <<>>, code |-> <<>>, libs |-> <<>>]
      /\ argdump = {} /\ input = 0 /\ cwd = Home /\ work = <<>> /\ offset = 1
      /\ rules = [f \in {} |-> <<>>] /\ units = <<>>
  BY Zenon DEF Init
<1>2. argv \in Seq(Spellings) /\ Len(argv) \in Nat
  <2>1. argv \in Seq(Spellings)
    BY <1>1, FilesAssumption, Zenon
  <2> QED
    BY <2>1
<1>3. <<>> \in Seq(Sources) /\ <<>> \in Seq(Spellings) /\ <<>> \in Seq(DOMAIN tree) /\ <<>> \in Seq({})
      /\ Len(<<>>) = 0
  OBVIOUS
<1>4. crate.sources = <<>> /\ crate.code = <<>>
  BY <1>1
<1>5. Inputs(crate) = 0
  BY <1>3, <1>4 DEF Inputs
<1>6. Shape
  <2>1. crate \in [sources : Seq(Sources), objects : Seq(Spellings), code : Seq(Spellings),
                   libs : Seq(Spellings)]
    BY <1>1, <1>3
  <2> QED
    BY <1>1, <1>2, <1>5, <2>1 DEF Shape
<1>7. WorkList
  <2>1. DOMAIN rules = {}
    BY <1>1
  <2> QED
    BY <1>1, <1>3, <2>1 DEF WorkList
<1>8. Line
  <2>1. args = SubSeq(argv, 0 + 1, Len(argv))
    BY <1>1, <1>2
  <2>2. 0 < Len(argv) => ~IsValue[0 + 1]
    <3>1. \A n \in 1..Len(argv) : IsValue[n] => n > 1
      BY <1>2, ValuesAre
    <3>2. 0 < Len(argv) => 1 \in 1..Len(argv)
      BY <1>2
    <3> QED
      BY <3>1, <3>2
  <2>3. Noted(0)
    <3>1. 0 \in 0..Len(argv)
      BY <1>2
    <3>2. Kept(Readable)[0] = <<>> /\ Kept({"--code"})[0] = <<>>
      BY <1>2, <3>1, KeptExists
    <3>3. [n \in 1..Len(Kept(Readable)[0]) |-> argv[Kept(Readable)[0][n]]] = <<>>
      BY <1>3, <3>2
    <3>4. {argv[n] : n \in {n \in 1..0 : ~IsValue[n]}} = {}
      OBVIOUS
    <3> QED
      BY <1>1, <1>4, <3>2, <3>3, <3>4 DEF Noted
  <2>4. 0 \in 0..Len(argv)
    BY <1>2
  <2>5. \E k \in 0..Len(argv) : /\ args = SubSeq(argv, k + 1, Len(argv))
                                /\ k < Len(argv) => ~IsValue[k + 1]
                                /\ Noted(k)
    BY <2>1, <2>2, <2>3, <2>4
  <2> QED
    BY <1>1, <2>5 DEF Line
<1>9. Compiled
  <2>1. Sequence(<<>>)
    BY <1>3, SequenceIs
  <2> QED
    BY <1>1, <2>1 DEF Compiled
<1> QED
  BY <1>6, <1>7, <1>8, <1>9 DEF IInv

LEMMA StepInv ==
    ASSUME IInv, [Next]_vars
    PROVE  IInv'
<1>1. CASE Next
  BY <1>1, ShapeStep, WorkListStep, LineStep, CompiledStep DEF IInv
<1>2. CASE UNCHANGED vars
  <2>1. UNCHANGED <<argv, tree, args, crate, argdump, input, source, cwd, work, offset>>
    BY <1>2 DEF vars, inputs
  <2>2. UNCHANGED <<allImports, rules, buffer, names, units, phase>>
    BY <1>2 DEF vars
  <2>3. Shape'
    BY <2>1, <2>2 DEF IInv, Shape, Inputs
  <2>4. WorkList'
    <3>1. \A n : Listed(n)' <=> Listed(n)
      BY <2>1 DEF Listed, Imported
    <3>2. Closure(source)' = Closure(source)
      BY <2>1 DEF Closure, Closed, Imported
    <3>3. Built' = Built
      BY <2>2 DEF Built
    <3> QED
      BY <2>1, <2>2, <3>1, <3>2, <3>3 DEF IInv, WorkList
  <2>5. Line'
    <3>1. \A k : Noted(k)' <=> Noted(k)
      BY <2>1, LineConstant DEF Noted
    <3> QED
      BY <2>1, <2>2, <3>1, LineConstant DEF IInv, Line
  <2>6. Compiled'
    <3>1. WithRuntime' <=> WithRuntime
      BY <2>1 DEF WithRuntime, Links
    <3> QED
      BY <2>1, <2>2, <3>1, FromKept DEF IInv, Compiled
  <2> QED
    BY <2>3, <2>4, <2>5, <2>6 DEF IInv
<1> QED
  BY <1>1, <1>2

\* The invariant of the front end: the state has its shape, the work list what
\* the files before the offset import, and what is left of the command line
\* and what was noted of it fit together.
THEOREM Inductive == Spec => []IInv
<1>1. Init => IInv
  BY InitInv
<1>2. IInv /\ [Next]_vars => IInv'
  BY StepInv
<1> QED
  BY <1>1, <1>2, PTL DEF Spec

\* TypeOK, for any command line and any files: positions are in range, what is
\* built was imported, and the inputs of a command line are looked up where the
\* compiler was started although every import changes the directory
\* (imports.c:454).
THEOREM TypeOKHolds == Spec => []TypeOK
<1>1. IInv => TypeOK
  BY DEF IInv, Shape, WorkList, TypeOK
<1> QED
  BY <1>1, Inductive, PTL

\* When the work list is at its end, it holds all that the source reaches.
LEMMA ListComplete ==
    ASSUME IInv, phase = "build"
    PROVE  ToSet(work) = Closure(source)
<1>1. /\ work \in Seq(DOMAIN tree) /\ work # <<>> /\ source = work[1] /\ offset = Len(work) + 1
      /\ \A n \in 1..(offset - 1) : Listed(n)
      /\ ToSet(work) \subseteq Closure(source)
  BY DEF IInv, WorkList
<1>2. Len(work) \in Nat /\ DOMAIN work = 1..Len(work) /\ 1 \in 1..Len(work)
  BY <1>1
<1>3. ToSet(work) \in SUBSET DOMAIN tree /\ source \in ToSet(work)
  BY <1>1, <1>2 DEF ToSet
<1>4. Closed(ToSet(work))
  <2> SUFFICES ASSUME NEW f \in ToSet(work), NEW p \in Imported(f)
               PROVE  Resolve[p] \in ToSet(work)
    BY DEF Closed
  <2>1. PICK n \in 1..Len(work) : f = work[n]
    BY <1>2 DEF ToSet
  <2>2. n \in 1..(offset - 1)
    BY <1>1, <1>2
  <2> QED
    BY <1>1, <2>1, <2>2 DEF Listed
<1>5. Closure(source) \subseteq ToSet(work)
  BY <1>3, <1>4 DEF Closure
<1> QED
  BY <1>1, <1>5

\* ReadOnce, for any files: imp_generate_imports (imports.c:368) lists a file
\* once however it is imported, and at the end of its loop the list is what the
\* source reaches, cycles and links of another spelling included.
THEOREM ReadOnceHolds == Spec => []ReadOnce
<1>1. IInv => ReadOnce
  <2> SUFFICES ASSUME IInv, phase \in {"imports", "build"}
               PROVE  /\ IsInjective(work) /\ source = work[1]
                      /\ allImports = ToSet(Tail(work))
                      /\ phase = "build" => ToSet(work) = Closure(source)
    BY DEF ReadOnce
  <2>1. IsInjective(work) /\ source = work[1] /\ allImports = ToSet(Tail(work))
    BY DEF IInv, WorkList
  <2> QED
    BY <2>1, ListComplete
<1> QED
  BY <1>1, Inductive, PTL

LEMMA PlainIs ==
    ASSUME Shape, NEW S
    PROVE  /\ Plain(S) = Kept(S)[Len(argv)] /\ Plain(S) \in Seq(1..Len(argv))
           /\ Plain(S) = <<>> <=> \A n \in 1..Len(argv) : ~IsValue[n] => argv[n] \notin S
<1> DEFINE N == Len(argv)
           q == Plain(S)
<1>1. N \in Nat
  BY ArgvIs
<1>2. q = Kept(S)[N]
  BY <1>1, KeptExists
<1>3. N \in 0..N
  BY <1>1
<1>4. q \in Seq(1..N) /\ ToSet(q) = {m \in 1..N : ~IsValue[m] /\ argv[m] \in S}
  BY <1>1, <1>2, <1>3, KeptAre
<1> HIDE DEF q
<1>5. q = <<>> <=> ToSet(q) = {}
  <2>1. ToSet(<<>>) = {}
    BY DEF ToSet
  <2>2. ASSUME ToSet(q) = {} PROVE q = <<>>
    <3>1. Len(q) \in Nat /\ DOMAIN q = 1..Len(q)
      BY <1>4
    <3>2. Len(q) = 0
      <4> SUFFICES ASSUME Len(q) # 0 PROVE FALSE
        OBVIOUS
      <4>1. 1 \in DOMAIN q
        BY <3>1
      <4>2. q[1] \in ToSet(q)
        BY <4>1 DEF ToSet
      <4> QED
        BY <2>2, <4>2
    <3>3. <<>> \in Seq(1..N) /\ Len(<<>>) = 0
      OBVIOUS
    <3>4. \A i \in 1..Len(q) : q[i] = <<>>[i]
      BY <3>2
    <3> QED
      BY <1>4, <3>2, <3>3, <3>4, SeqEqual
  <2> QED
    BY <2>1, <2>2
<1> QED
  BY <1>2, <1>4, <1>5 DEF q

LEMMA JoinSeq ==
    ASSUME NEW U, NEW s \in Seq(U), NEW t \in Seq(U)
    PROVE  /\ s \o t \in Seq(U) /\ Len(s \o t) = Len(s) + Len(t)
           /\ \A n \in 1..Len(s) : (s \o t)[n] = s[n]
           /\ \A n \in 1..Len(t) : (s \o t)[Len(s) + n] = t[n]
OBVIOUS

\* What is compiled is what the command line says.
LEMMA DoneAsExpected ==
    ASSUME IInv, phase = "done"
    PROVE  [n \in 1..Len(units) |-> units[n].from] = Expected
<1> DEFINE N == Len(argv)
           files == Plain(Readable)
           codes == Plain({"--code"})
           a == Len(files)
           b == Len(codes)
           quiet == {"-c", "-S", "--llvm", "--dump-code", "--no-rc"}
           last == IF Plain(quiet) = <<>> THEN <<"runtime">> ELSE <<>>
           A == [n \in 1..a |-> Resolve[<<Home, argv[files[n]]>>]]
           B == [n \in 1..b |-> "--code"]
           U == [n \in 1..Len(units) |-> units[n].from]
           V == {A[n] : n \in 1..a} \cup {"--code", "runtime"}
<1>1. Shape /\ Line /\ Compiled /\ N \in Nat
  BY ArgvIs DEF IInv
<1>2. /\ files \in Seq(1..N) /\ codes \in Seq(1..N) /\ a \in Nat /\ b \in Nat
      /\ files = Kept(Readable)[N] /\ codes = Kept({"--code"})[N]
  <2>1. /\ files \in Seq(1..N) /\ codes \in Seq(1..N)
        /\ files = Kept(Readable)[N] /\ codes = Kept({"--code"})[N]
    BY <1>1, PlainIs
  <2> QED
    BY <2>1
<1>3. /\ crate.sources = [n \in 1..a |-> argv[files[n]]] /\ Len(crate.code) = b
      /\ argdump = {argv[n] : n \in {n \in 1..N : ~IsValue[n]}}
  <2>1. Noted(N)
    BY <1>1 DEF Line
  <2> QED
    BY <1>2, <2>1 DEF Noted
<1>4. WithRuntime <=> Plain(quiet) = <<>>
  <2>1. WithRuntime <=> \A x \in argdump : x \notin quiet
    BY DEF WithRuntime, Links
  <2>2. Plain(quiet) = <<>> <=> \A n \in 1..N : ~IsValue[n] => argv[n] \notin quiet
    BY <1>1, PlainIs
  <2> HIDE DEF quiet
  <2> QED
    BY <1>3, <2>1, <2>2
<1>5. Expected = (A \o B) \o last
  BY DEF Expected
<1> HIDE DEF files, codes, quiet
<1>6. Files(crate) = a /\ Inputs(crate) = a + b
  <2>1. Len(crate.sources) = a
    BY <1>2, <1>3
  <2> QED
    BY <1>3, <2>1 DEF Files, Inputs
<1>7. /\ Len(units) = a + b + (IF WithRuntime THEN 1 ELSE 0)
      /\ \A n \in 1..Len(units) : units[n].from = From(n)
  BY <1>1, <1>6 DEF Compiled
<1>8. \A n \in 1..a : crate.sources[n] = argv[files[n]]
  BY <1>3
<1> HIDE DEF a, b
<1>9. A \in Seq(V) /\ Len(A) = a /\ B \in Seq(V) /\ Len(B) = b /\ last \in Seq(V)
      /\ Len(last) = (IF WithRuntime THEN 1 ELSE 0) /\ (WithRuntime => last[1] = "runtime")
      /\ \A n \in 1..b : B[n] = "--code"
  <2>1. A \in Seq(V) /\ Len(A) = a
    <3> DEFINE g(n) == Resolve[<<Home, argv[files[n]]>>]
    <3>1. \A n \in 1..a : A[n] \in V /\ A[n] = g(n)
      OBVIOUS
    <3>2. A = [n \in 1..a |-> g(n)]
      OBVIOUS
    <3> HIDE DEF A, V, g
    <3>3. \A n \in 1..a : g(n) \in V
      BY <3>1
    <3> QED
      BY <1>2, <3>2, <3>3
  <2>2. B \in Seq(V) /\ Len(B) = b /\ \A n \in 1..b : B[n] = "--code"
    BY <1>2
  <2>3. last \in Seq(V) /\ Len(last) = (IF WithRuntime THEN 1 ELSE 0)
        /\ (WithRuntime => last[1] = "runtime")
    <3> HIDE DEF V
    <3>1. "runtime" \in V
      BY DEF V
    <3> QED
      BY <1>4, <3>1
  <2> QED
    BY <2>1, <2>2, <2>3
<1>10. \A n \in 1..a : A[n] = Resolve[<<Home, crate.sources[n]>>]
  BY <1>8
<1> HIDE DEF A, B, last, V
<1> DEFINE AB == A \o B
           ABC == AB \o last
<1>11. /\ AB \in Seq(V) /\ Len(AB) = a + b /\ \A n \in 1..a : AB[n] = A[n]
       /\ \A n \in 1..b : AB[a + n] = B[n]
  <2>0. A \in Seq(V) /\ B \in Seq(V)
    BY <1>9
  <2>1. /\ A \o B \in Seq(V) /\ Len(A \o B) = Len(A) + Len(B)
        /\ \A n \in 1..Len(A) : (A \o B)[n] = A[n]
        /\ \A n \in 1..Len(B) : (A \o B)[Len(A) + n] = B[n]
    BY <2>0, JoinSeq
  <2> QED
    BY <1>9, <2>1
<1> HIDE DEF AB
<1>12. /\ ABC \in Seq(V) /\ Len(ABC) = a + b + (IF WithRuntime THEN 1 ELSE 0)
       /\ \A n \in 1..(a + b) : ABC[n] = AB[n]
       /\ WithRuntime => ABC[a + b + 1] = "runtime"
  <2>0. AB \in Seq(V) /\ last \in Seq(V)
    BY <1>9, <1>11
  <2>1. /\ ABC \in Seq(V) /\ Len(ABC) = Len(AB) + Len(last)
        /\ \A n \in 1..Len(AB) : ABC[n] = AB[n]
        /\ \A n \in 1..Len(last) : ABC[Len(AB) + n] = last[n]
    BY <2>0, JoinSeq
  <2> HIDE DEF ABC
  <2>2. WithRuntime => ABC[a + b + 1] = "runtime"
    <3>1. WithRuntime => 1 \in 1..Len(last)
      BY <1>9
    <3> QED
      BY <1>9, <1>11, <2>1, <3>1
  <2> QED
    BY <1>9, <1>11, <2>1, <2>2
<1> HIDE DEF ABC
<1>13. ASSUME NEW n \in 1..Len(ABC) PROVE ABC[n] = From(n)
  <2>1. CASE n \in 1..a
    <3>1. n \in 1..(a + b) /\ n <= a
      BY <1>2, <2>1
    <3>2. ABC[n] = Resolve[<<Home, crate.sources[n]>>]
      BY <1>10, <1>11, <1>12, <2>1, <3>1
    <3> QED
      BY <1>6, <3>1, <3>2 DEF From
  <2>2. CASE n \in (a + 1)..(a + b)
    <3>1. n - a \in 1..b /\ a + (n - a) = n /\ n \in 1..(a + b) /\ ~(n <= a) /\ n <= a + b
      BY <1>2, <2>2
    <3>2. AB[a + (n - a)] = B[n - a] /\ B[n - a] = "--code"
      BY <1>9, <1>11, <3>1
    <3>3. ABC[n] = "--code"
      BY <1>12, <3>1, <3>2
    <3> QED
      BY <1>6, <3>1, <3>3 DEF From
  <2>3. CASE n > a + b
    <3>1. n = a + b + 1 /\ WithRuntime /\ ~(n <= a) /\ ~(n <= a + b)
      BY <1>2, <1>12, <2>3
    <3> QED
      BY <1>6, <1>12, <3>1 DEF From
  <2> QED
    BY <1>2, <2>1, <2>2, <2>3
<1>14. Len(ABC) = Len(units)
  BY <1>7, <1>12
<1>15. U \in Seq(V) /\ Len(U) = Len(units) /\ \A n \in 1..Len(units) : U[n] = From(n)
  <2>1. \A n \in 1..Len(units) : units[n].from \in V
    <3> SUFFICES ASSUME NEW n \in 1..Len(units) PROVE units[n].from \in V
      OBVIOUS
    <3>1. units[n].from = ABC[n]
      BY <1>7, <1>13, <1>14
    <3> QED
      BY <1>12, <1>14, <3>1
  <2>2. Len(units) \in Nat
    BY <1>12, <1>14
  <2> QED
    BY <1>7, <2>1, <2>2
<1> HIDE DEF U
<1>16. U = ABC
  BY <1>12, <1>13, <1>14, <1>15, SeqEqual
<1> QED
  BY <1>5, <1>16 DEF U, AB, ABC

\* CommandLine, for any command line: ta_run (termargs.c:75) takes the value of
\* a switch for nothing else, so that what is compiled is every readable file in
\* order, the extra code, and the runtime when something is linked.
THEOREM CommandLineHolds == Spec => []CommandLine
<1>1. IInv => CommandLine
  <2> SUFFICES ASSUME IInv
               PROVE  /\ phase = "done" => [n \in 1..Len(units) |-> units[n].from] = Expected
                      /\ phase = "exited" => Plain(Quits) # <<>>
    BY DEF CommandLine
  <2>1. ASSUME phase = "exited" PROVE Plain(Quits) # <<>>
    <3>1. \E n \in 1..Len(argv) : ~IsValue[n] /\ argv[n] \in Quits
      BY <2>1 DEF IInv, Line
    <3>2. Shape
      BY DEF IInv
    <3> QED
      BY <3>1, <3>2, PlainIs
  <2> QED
    BY <2>1, DoneAsExpected
<1> QED
  BY <1>1, Inductive, PTL
=============================================================================
