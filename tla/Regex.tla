------------------------------- MODULE Regex -------------------------------
(***************************************************************************)
(* core/regex.c: a pattern is parsed by recursive descent, built into an   *)
(* automaton whose loose ends are patched, and run over an input.  The     *)
(* marks that keep a state from being listed twice belong to the automaton *)
(* and are carried from one call to the next.                              *)
(***************************************************************************)
EXTENDS Language, SequencesExt

CONSTANTS
    Expressions,  \* the regular expressions considered, as trees
    Inputs,       \* the strings matched against them
    MaxCalls      \* calls for one compiled pattern

VARIABLES
    expr,         \* the expression that was compiled
    regex,        \* the compiled pattern: [start, states, listit, listgen]
    calls,        \* the inputs of the calls so far
    answer        \* what the last call returned

vars == <<expr, regex, calls, answer>>

-----------------------------------------------------------------------------
\* How an expression is written, with the parentheses and escapes it needs.  In
\* a class the code knows an escape except in the first place and at the end
\* of a range, where every character stands for itself.
Special == {"(", ")", "[", "]", ".", "*", "+", "?", "|", "\\"}
Escaped(c, special) == IF c \in special THEN <<"\\", c>> ELSE <<c>>
Enclosed(p) == <<"(">> \o p \o <<")">>
RECURSIVE Written(_)
Written(e) ==
    LET Factor(f) == IF f.op \in {"cat", "alt"} THEN Enclosed(Written(f)) ELSE Written(f)
        Term(f) == IF f.op = "alt" THEN Enclosed(Written(f)) ELSE Written(f)
        Span(r, special) == Escaped(r[1], special) \o IF r[1] = r[2] THEN <<>> ELSE <<"-", r[2]>>
        Ranges == FlattenSeq([n \in DOMAIN e.ranges |->
                      Span(e.ranges[n], IF n = 1 THEN {} ELSE {"]", "-", "\\"})])
    IN  CASE e.op = "lit"   -> Escaped(e.c, Special)
          [] e.op = "any"   -> <<".">>
          [] e.op = "predef" -> <<"\\", e.c>>
          [] e.op = "class" -> <<"[">> \o (IF e.neg THEN <<"^">> ELSE <<>>) \o Ranges \o <<"]">>
          [] e.op = "cat"   -> Term(e.l) \o Factor(e.r)
          [] e.op = "alt"   -> Term(e.l) \o <<"|">> \o Written(e.r)
          [] OTHER          -> Factor(e.e) \o <<e.op>>

-----------------------------------------------------------------------------
(* rgxc_...: the parser, at position i of a pattern; it returns a node and  *)
(* the position behind it.                                                  *)

Blank == [type |-> "blank"]
At(node, i) == [node |-> node, next |-> i]
More(p, i) == i <= Len(p)

ClassNode(neg, ranges) == [type |-> "class", neg |-> neg, ranges |-> ranges]

\* rgxc_predefined_class: its ranges.
Only(c) == <<c, c>>
Predefined(c) ==
    LET ranges == CASE c \in {"d", "D"} -> << <<"0", "9">> >>
                    [] c \in {"s", "S"} -> [n \in 1..6 |-> Only(<<" ", "\t", "\n", "VT", "\f", "\r">>[n])]
                    [] c \in {"w", "W"} -> << <<"a", "z">>, <<"A", "Z">>, <<"0", "9">>, Only("_") >>
    IN  ClassNode(c \in {"D", "S", "W"}, ranges)

\* rgxc_class_next: a character that may be escaped.
ClassNext(p, i) ==
    IF p[i] = "\\" THEN [c |-> p[i + 1], escape |-> TRUE, next |-> i + 2]
    ELSE [c |-> p[i], escape |-> FALSE, next |-> i + 1]

\* rgxc_class, from behind its first character: c is the character that may
\* still become the start of a range.
RECURSIVE ClassRest(_, _, _, _)
ClassRest(p, i, c, ranges) ==
    LET n == ClassNext(p, i)
        after == ClassNext(p, i + 2)
    IN  IF ~More(p, i) \/ p[i] = "]" THEN [ranges |-> Append(ranges, Only(c)), next |-> i]
        ELSE IF n.c # "-" \/ n.escape THEN ClassRest(p, n.next, n.c, Append(ranges, Only(c)))
        ELSE IF p[i + 2] = "]" THEN [ranges |-> Append(ranges, <<c, p[i + 1]>>), next |-> i + 2]
        ELSE ClassRest(p, after.next, after.c, Append(ranges, <<c, p[i + 1]>>))

Class(p, i) ==
    LET neg == p[i] = "^"
        from == IF neg THEN i + 1 ELSE i
        rest == ClassRest(p, from + 1, p[from], <<>>)
    IN  At(ClassNode(neg, rest.ranges), rest.next)

RECURSIVE Regexp(_, _), Term(_, _, _), Factors(_, _), Base(_, _)

\* rgxc_base: the character behind a backslash names a class or is itself.
Base(p, i) ==
    CASE p[i] = "(" -> LET r == Regexp(p, i + 1) IN At(r.node, r.next + 1)
      [] p[i] = "[" -> LET r == Class(p, i + 1) IN At(r.node, r.next + 1)
      [] p[i] = "\\" -> At(IF p[i + 1] \in {"d", "D", "s", "S", "w", "W"} THEN Predefined(p[i + 1])
                           ELSE [type |-> "base", c |-> p[i + 1]], i + 2)
      [] OTHER      -> At([type |-> "base", c |-> IF p[i] = "." THEN "ANY" ELSE p[i]], i + 1)

\* rgxc_factor: any number of repetitions behind a base.
Factors(p, b) ==
    IF More(p, b.next) /\ p[b.next] \in {"*", "+", "?"}
    THEN Factors(p, At([type |-> p[b.next], loop |-> b.node], b.next + 1))
    ELSE b

Term(p, i, factor) ==
    IF More(p, i) /\ p[i] \notin {"|", ")"}
    THEN LET f == Factors(p, Base(p, i))
         IN  Term(p, f.next, [type |-> "sequence", first |-> factor, second |-> f.node])
    ELSE At(factor, i)

Regexp(p, i) ==
    LET t == Term(p, i, Blank)
    IN  IF More(p, t.next) /\ p[t.next] = "|"
        THEN LET r == Regexp(p, t.next + 1)
             IN  At([type |-> "or", first |-> t.node, second |-> r.node], r.next)
        ELSE t

-----------------------------------------------------------------------------
(* rgxb_...: the automaton.  A fragment is the states built so far, a start *)
(* and the pointers <<state, field>> that dangle.                           *)

State(c, cls, out, alt) == [c |-> c, cls |-> cls, out |-> out, alt |-> alt]
Split(a, b) == State("SPLIT", <<>>, a, b)
Leaf(c, cls) == State(c, cls, 0, 0)

\* rgxb_patch.
RECURSIVE Patch(_, _, _)
Patch(states, out, s) ==
    IF out = <<>> THEN states
    ELSE Patch(IF Head(out)[2] = "out" THEN [states EXCEPT ![Head(out)[1]].out = s]
               ELSE [states EXCEPT ![Head(out)[1]].alt = s], Tail(out), s)

Fragment(states, start, out) == [states |-> states, start |-> start, out |-> out]

\* rgxb_base, rgxb_class and rgxb_blank.
AddLeaf(states, leaf) ==
    LET s == Len(states) + 1 IN Fragment(Append(states, leaf), s, <<<<s, "out">>>>)

RECURSIVE BuildState(_, _)

\* rgxb_at_least_one.
BuildPlus(node, states) ==
    LET e == BuildState(node.loop, states)
        s == Len(e.states) + 1
    IN  Fragment(Patch(Append(e.states, Split(e.start, 0)), e.out, s), e.start, <<<<s, "alt">>>>)

\* rgxb_build.
BuildState(node, states) ==
    LET One == BuildState(node.loop, states)
        s1 == Len(One.states) + 1
        Left == BuildState(node.first, states)
        Right == BuildState(node.second, Left.states)
        s2 == Len(Right.states) + 1
    IN  CASE node.type = "base"  -> AddLeaf(states, Leaf(node.c, <<>>))
          [] node.type = "class" -> AddLeaf(states, Leaf("CHRCLS", node))
          [] node.type = "blank" -> AddLeaf(states, Leaf("NONE", <<>>))
          [] node.type = "or" ->
                Fragment(Append(Right.states, Split(Left.start, Right.start)), s2,
                         Left.out \o Right.out)
          [] node.type = "sequence" ->
                Fragment(Patch(Right.states, Left.out, Right.start), Left.start, Right.out)
          [] node.type = "*" ->
                Fragment(Patch(Append(One.states, Split(One.start, 0)), One.out, s1), s1,
                         <<<<s1, "alt">>>>)
          [] node.type = "+" -> BuildPlus(node, states)
          [] node.type = "?" ->
                Fragment(Append(One.states, Split(One.start, 0)), s1,
                         One.out \o <<<<s1, "alt">>>>)

\* rgx_compile.
Compiled(p) ==
    LET f == BuildState(Regexp(p, 1).node, <<>>)
        match == Len(f.states) + 1
    IN  [start   |-> f.start,
         states  |-> Patch(Append(f.states, Leaf("MATCH", <<>>)), f.out, match),
         listit  |-> [s \in 1..match |-> -1],
         listgen |-> 0]

-----------------------------------------------------------------------------
(* rgx_...: running it.  A run is [list, listit, matched].                  *)

\* rgx_add_state in generation gen.
RECURSIVE AddState(_, _, _, _)
AddState(states, gen, run, s) ==
    LET marked == [run EXCEPT !.listit[s] = gen]
        c == states[s].c
    IN  IF run.listit[s] = gen THEN run
        ELSE CASE c = "SPLIT" -> AddState(states, gen,
                                     AddState(states, gen, marked, states[s].out), states[s].alt)
               [] c = "NONE"  -> AddState(states, gen, marked, states[s].out)
               [] OTHER       -> [marked EXCEPT !.list = Append(@, s),
                                                !.matched = @ \/ c = "MATCH"]

\* rgx_test and rgx_test_class, without RGX_IGNORE_CASE.
Test(state, c) ==
    CASE state.c = "ANY"    -> TRUE
      [] state.c = "CHRCLS" -> (\E n \in 1..Len(state.cls.ranges) :
                                   InRange(c, state.cls.ranges[n])) # state.cls.neg
      [] OTHER              -> state.c = c

\* rgx_step: the next list, in a new generation.
Step(states, gen, run, c) ==
    LET next[n \in 0..Len(run.list)] ==
            IF n = 0 THEN [list |-> <<>>, listit |-> run.listit, matched |-> FALSE]
            ELSE IF Test(states[run.list[n]], c)
            THEN AddState(states, gen, next[n - 1], states[run.list[n]].out)
            ELSE next[n - 1]
    IN  next[Len(run.list)]

\* rgx_reset_all.
ResetAll(listit) == [s \in DOMAIN listit |-> 0]

Empty(listit) == [list |-> <<>>, listit |-> listit, matched |-> FALSE]

\* The runs behind each character of s, the first in generation gen + 1.
Runs(states, gen, run, s) ==
    LET r[n \in 0..Len(s)] == IF n = 0 THEN run ELSE Step(states, gen + n, r[n - 1], s[n])
    IN  r

\* A truth value of C.
CInt(b) == IF b THEN 1 ELSE 0

Returns(op, input, value) == answer' = [op |-> op, input |-> input, value |-> value]
Asked(input) == Len(calls) < MaxCalls /\ calls' = Append(calls, input) /\ UNCHANGED expr

\* Mutant: the marks are not reset, and the generations start again.
MatchesUnreset(input) ==
    LET start == AddState(regex.states, 0, Empty(regex.listit), regex.start)
        last == Runs(regex.states, 0, start, input)[Len(input)]
    IN  /\ Asked(input)
        /\ Returns("matches", input, CInt(last.matched))
        /\ regex' = [regex EXCEPT !.listit = last.listit, !.listgen = 0]

\* rgx_matches.
Matches(input) ==
    LET start == AddState(regex.states, regex.listgen, Empty(regex.listit), regex.start)
        last == Runs(regex.states, regex.listgen, [start EXCEPT !.matched = FALSE], input)[Len(input)]
    IN  /\ Asked(input)
        /\ Returns("matches", input, CInt(last.matched))
        /\ regex' = [regex EXCEPT !.listit = ResetAll(last.listit),
                                  !.listgen = @ + Len(input)]

\* rgx_search from index idx on, with the list the index before left behind:
\* [value, gen, listit].
RECURSIVE SearchFrom(_, _, _, _, _)
SearchFrom(states, start, gen, run, suffix) ==
    LET entered == AddState(states, gen, run, start)
        runs == Runs(states, gen, entered, suffix)
        Stops == {n \in 1..Len(suffix) : runs[n].matched \/ runs[n].list = <<>>}
        n == IF Stops = {} THEN Len(suffix) ELSE CHOOSE n \in Stops : \A m \in Stops : n <= m
        rest == SearchFrom(states, start, gen + n, runs[n], Tail(suffix))
    IN  IF suffix = <<>> THEN [value |-> -1, gen |-> gen]
        ELSE IF runs[n].matched THEN [value |-> 0, gen |-> gen + n]
        ELSE [rest EXCEPT !.value = IF @ < 0 THEN @ ELSE @ + 1]

\* Mutant: the list of the last index is all there is at the next one.
SearchOnce(input) ==
    LET start == AddState(regex.states, regex.listgen, Empty(regex.listit), regex.start)
        runs == Runs(regex.states, regex.listgen, start, input)
    IN  /\ Asked(input)
        /\ Returns("search", input,
                   IF \E n \in 1..Len(input) : runs[n].matched THEN 0 ELSE -1)
        /\ regex' = [regex EXCEPT !.listit = ResetAll(@), !.listgen = @ + Len(input)]

\* rgx_search.
Search(input) ==
    LET start == AddState(regex.states, regex.listgen, Empty(regex.listit), regex.start)
        found == SearchFrom(regex.states, regex.start, regex.listgen, start, input)
    IN  /\ Asked(input)
        /\ Returns("search", input, found.value)
        /\ regex' = [regex EXCEPT !.listit = ResetAll(@), !.listgen = found.gen]

-----------------------------------------------------------------------------
Init ==
    /\ expr \in Expressions
    /\ regex = Compiled(Written(expr))
    /\ calls = <<>>
    /\ answer = [op |-> "none", input |-> <<>>, value |-> 0]

Next == \E input \in Inputs : Matches(input) \/ Search(input)

Spec == Init /\ [][Next]_vars

-----------------------------------------------------------------------------
(* Properties.                                                              *)

\* The empty input resets the marks to 0 and leaves the generation at 0: when
\* only such calls came before, the start counts as listed and is not entered.
Unentered == LET earlier == Front(calls) IN earlier # <<>> /\ \A n \in DOMAIN earlier : earlier[n] = <<>>

\* rgx_matches says whether the whole input is in the language of the
\* expression, for a pattern that was parsed, built and run as the code does,
\* and whatever calls came before; but the empty input matches nothing, and
\* after nothing but empty inputs the next one does not either.
MatchExact ==
    answer.op = "matches" =>
        answer.value = CInt(answer.input # <<>> /\ ~Unentered /\ Means(expr, answer.input))

\* What has been read from index k up to index j when the search is at index i:
\* from each index before i the whole rest of the input, since a state that is
\* alive at the end goes on at the next index.
ReadFrom(input, k, i, j) ==
    FlattenSeq([n \in 1..(i - k) |-> SubSeq(input, k + n - 1, Len(input))]) \o SubSeq(input, i, j)

\* rgx_search returns the first index at which a part of the input in the
\* language begins (k = i), unless one was begun at an earlier index k, lasted
\* to the end of the input and is completed by what is read again: a(b.) is
\* found in ab, at the second index.  No occurrence is missed, and none is
\* reported that is not of these two kinds.
SearchExact ==
    answer.op = "search" =>
        LET n == Len(answer.input)
            first == IF Unentered THEN 2 ELSE 1
            Begins(i) == \E k \in first..i, j \in i..n : Means(expr, ReadFrom(answer.input, k, i, j))
        IN  IF answer.value = -1 THEN \A i \in 1..n : ~Begins(i)
            ELSE Begins(answer.value + 1) /\ \A i \in 1..answer.value : ~Begins(i)
=============================================================================
