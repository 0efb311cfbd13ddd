------------------------------- MODULE MCParts -------------------------------
(***************************************************************************)
(* The containers and the regular expressions of core/, generators, the    *)
(* two sides of generic functions, interfaces and closures, for TLC.  They *)
(* share no state: a behaviour runs one of them, the part, and leaves the  *)
(* others as they started.                                                 *)
(***************************************************************************)
EXTENDS
    Hashtable, Arraylist, Multibuffer, Generator, Generics, Interfaces, Language,
    MCPrograms, MCZoo, TLC

VARIABLES
    part,
    expr, regex, calls, regexAnswer,
    forms, stack, size, decls, todo, phase, refused,
    closures, names, lookup, boxed, stmts, heap, frames, kept

-----------------------------------------------------------------------------
(* The hash table: two keys share a bucket before and after it grows, a     *)
(* third one before only.                                                   *)

HashOf == [k \in Keys |-> CASE k = "a" -> 1 [] k = "b" -> 5 [] k = "c" -> 3]

\* What a source of the buffer holds, and the reset between two.
MCTexts == {<<>>, <<"a">>, <<"b", "c", "d">>}
MCReset == <<"R", "S">>

-----------------------------------------------------------------------------
(* Regular expressions up to three operators deep; classes and escapes.     *)

MCCode ==
    ("a" :> 97) @@ ("b" :> 98) @@ ("c" :> 99) @@ ("z" :> 122) @@ ("A" :> 65) @@ ("Z" :> 90) @@ ("_" :> 95)
    @@ ("0" :> 48) @@ ("1" :> 49) @@ ("9" :> 57) @@ ("." :> 46) @@ ("-" :> 45) @@ ("]" :> 93) @@ ("\\" :> 92)
    @@ (" " :> 32) @@ ("\t" :> 9) @@ ("\n" :> 10) @@ ("VT" :> 11) @@ ("\f" :> 12) @@ ("\r" :> 13)
Few == {Lit("a"), Lit("b"), AnyChar}
Classes == {Cls(FALSE, <<<<"a", "b">>>>), Cls(TRUE, <<<<"a", "a">>>>),
            Cls(FALSE, <<<<"a", "a">>, <<"b", "c">>>>)}
Atoms == Few \cup Classes
Loops(S) == UNION {{Star(e), Plus(e), Opt(e)} : e \in S}
Pairs(S, U) == UNION {{Cat(l, r), Alt(l, r)} : l \in S, r \in U}
Two == {Lit("a"), AnyChar}
Deep == Loops(Loops({Lit("a")})) \cup Loops(Pairs(Two, {Lit("b")})) \cup Pairs(Loops({Lit("a")}), Two)
Broad == Pairs({Lit("a")}, Pairs({Lit("b")}, Two)) \cup Pairs(Loops({Lit("a")}), {Star(Lit("b")), Opt(Lit("b"))})
Escapes == {Predef(c) : c \in {"d", "D", "s", "S", "w", "W"}} \cup {Lit("."), Lit("\\")}
    \cup {Cls(FALSE, <<<<"a", "a">>, <<c, c>>>>) : c \in {"]", "-", "\\"}}
    \cup {Cls(FALSE, <<<<"]", "]">>, <<"0", "9">>, <<"-", ".">>>>), Cls(TRUE, <<<<"-", "-">>, <<"a", "z">>>>)}

MCExpressions == Atoms \cup Loops(Few) \cup Pairs(Classes \cup {Lit("a")}, {Lit("b")}) \cup Deep \cup Broad
    \cup Escapes \cup {Plus(Predef("d"))} \cup Pairs({Predef("w"), Lit(".")}, {Lit("a")})
MCInputs == UNION {[1..n -> {"a", "b"}] : n \in 0..2}
    \cup {<<"a", "b", "a">>, <<"b", "a", "b">>, <<"a", "a", "a">>}
    \cup {<<c>> : c \in {".", "1", " ", "]", "-", "\\"}} \cup {<<".", "a">>}

R == INSTANCE Regex
         WITH Expressions <- MCExpressions, Inputs <- MCInputs, MaxCalls <- 2, answer <- regexAnswer

-----------------------------------------------------------------------------
(* What an exported generic function mentions.                              *)

\* Forms that meet in one body; the initialisers of `new` are left out:
\* aw_dispatch passes them by.
MCForms == {{"AIF", "ALOOP"}, {"ASWITCH", "ACASE"}, {"AFUNCDECL", "ADEFER"},
            {"ABINARY", "AUNARY", "ACAST"}, {"ASTRUCTLIT", "ATERNARY"}, {"AFUNCCALL", "ASTRUCTMEMBER"}}
Decl(allow, body, linkage) == [allow |-> allow, body |-> body, linkage |-> linkage]

MCDeclarations == {Decl(FALSE, TRUE, "VLLocal"), Decl(TRUE, TRUE, "VLLocal"),
                   Decl(FALSE, FALSE, "VLExport")}

W == INSTANCE AstWalk
         WITH Functions <- {"f"}, Locals <- {"x"}, Forms <- MCForms, MaxNodes <- 5,
              Declarations <- MCDeclarations

-----------------------------------------------------------------------------
(* Closures over a variable, two deep.                                      *)

C == INSTANCE Closures
         WITH Vars <- {"x"}, MaxCells <- 5, MaxStmts <- 4, Idioms <- {},
              funs <- closures, scopes <- names, held <- kept

-----------------------------------------------------------------------------

varsR == <<expr, regex, calls, regexAnswer>>
varsW == <<forms, stack, size, decls, todo, phase, refused>>
varsC == <<closures, names, lookup, boxed, stmts, heap, frames, kept>>
partsVars ==
    <<part, hstVars, arrVars, mbVars, vars, varsR, genVars, varsW, ifcVars, varsC>>

\* A program for the other parts' behaviours.
Idle == [main |-> <<CallOf("max", <<Of(I32), Of(I32)>>), CallOf("max", <<Of(I32), Of(I32)>>)>>,
         funs |-> MCFuns("T")]

PartsInit ==
    /\ part \in {"hashtable", "arraylist", "multibuffer", "generator", "regex", "generics",
                "walk", "interfaces", "closures"}
    /\ (part = "hashtable" \/ (resizes = TRUE /\ text = "a")) /\ HstInit
    /\ ArrInit /\ MbInit
    /\ (part = "generator" \/ (counted = TRUE /\ own = Nil)) /\ Init
    /\ (part = "regex" \/ expr = Lit("a")) /\ R!Init
    /\ (part = "generics" \/ program = Idle) /\ GenericsInit
    /\ (part = "walk" \/ forms = {"AIF", "ALOOP"}) /\ W!Init
    /\ (part = "interfaces" \/ hierarchy = Zoo(DogClass(<<"Animal", "Pet">>), CatClass)) /\ IfcInit
    /\ C!Init

\* The variables v of the part p change in its own behaviours only.
Still(p, v) == IF part = p THEN TRUE ELSE UNCHANGED v

PartsNext ==
    /\ \/ part = "hashtable" /\ HstNext
       \/ part = "arraylist" /\ ArrNext
       \/ part = "multibuffer" /\ MbNext
       \/ part = "generator" /\ Next
       \/ part = "regex" /\ R!Next
       \/ part = "generics" /\ GenericsNext
       \/ part = "walk" /\ W!Next
       \/ part = "interfaces" /\ IfcNext
       \/ part = "closures" /\ C!Next
    /\ Still("hashtable", hstVars) /\ Still("arraylist", arrVars)
    /\ Still("multibuffer", mbVars) /\ Still("generator", vars)
    /\ Still("regex", varsR) /\ Still("generics", genVars) /\ Still("walk", varsW)
    /\ Still("interfaces", ifcVars) /\ Still("closures", varsC)
    /\ UNCHANGED part

\* Only the generics have something to finish.
Fairness == part = "generics" => GenericsFairness

PartsSpec == PartsInit /\ [][PartsNext]_partsVars /\ Fairness

-----------------------------------------------------------------------------
(* The properties of the instances, by the names they have there.           *)

MatchExact == R!MatchExact
SearchExact == R!SearchExact
ExportsClosed == part = "walk" => W!ExportsClosed
BoxesMatch == part = "closures" => C!BoxesMatch

\* The compilation of generic functions comes to an end.
PartsWorkEnds == part = "generics" => WorkEnds
=============================================================================
