----------------------------- MODULE MCFrontEnd -----------------------------
(* Four files in two directories, two of which are called lib in their own  *)
(* directory, over every kind of item a library may export.                 *)
EXTENDS FrontEnd

Item(kind, name, mark, use, arg, brace) ==
    [kind |-> kind, name |-> name, mark |-> mark, use |-> use, arg |-> arg, brace |-> brace]
Plainly(kind, name) == Item(kind, name, "", "int", "", "same")
Import(path) == Plainly("import", path)
Rule(pattern, kind) == Item("rule", pattern, "", "int", kind, "same")

MCResolve ==
    (<<"/", "main">> :> "main") @@ (<<"/", "lib">> :> "lib") @@ (<<"/", "d/sub">> :> "sub") @@
    (<<"/d", "lib">> :> "deep") @@ (<<"/d", "../main">> :> "main") @@ (<<"/d", "sub">> :> "sub")
    @@ (<<"/d", "../lib">> :> "lib") @@ (<<"/", "x.o">> :> "x.o")
MCDir == [f \in {"main", "lib", "sub", "deep"} |-> IF f \in {"main", "lib"} THEN "/" ELSE "/d"]
MCHome == "/"
MCMatches == [p \in {"*", "l*"} |-> IF p = "*" THEN {"own", "lone", "deeper", "subbed"}
                                    ELSE {"lone"}]
MCInline == [c \in {"--code", "runtime"} |->
    IF c = "--code" THEN <<Plainly("func", "code")>>
    ELSE <<Plainly("extern", "free"), Item("func", "incr", "export", "int", "", "same")>>]

MCArgvs == {
    <<"main">>,
    <<"-o", "lib", "main", "--code", "lib", "-lm">>,
    <<"--threads", "-c", "main", "lib", "-S", "none">>,
    <<"--code", "-S", "x.o", "--no-rc">>,
    <<"main", "--dump-code">>, <<"--pf", "main", "-c">>,
    <<"main", "-o">>, <<"-o", "--help", "x.o">>, <<"main", "--version", "lib">>, <<"-c", "none">>}

\* What a library offers: a kind of item under a mark, a rule, or two rules, with
\* its brace on either line.
Kinds == {"func", "extern", "generic", "gen", "struct", "class", "interface", "enum",
          "typedef", "static"}
Offers(name) ==
    {<<Item(k, name, m, "int", "", b)>> : k \in Kinds \ {"extern"}, m \in {"", "export"},
                                          b \in {"same", "line"}}
    \cup {<<Rule("l*", w), Plainly(k, name)>> : w \in {"", "func", "class"}, k \in Kinds}
    \cup {<<Rule("*", w), Rule("l*", k), Plainly("class", name)>> :
             w, k \in {"func", "class", "interface", "enum"}}

\* main imports what it likes and has a class that implements an interface.
Mains ==
    {imports \o <<Item("interface", "Own", "", "int", "", "line"),
                  Item("class", "own", "export", "int", "Own", "line")>> :
        imports \in {<<Import("lib")>>, <<Import("lib"), Import("d/sub"), Import("lib")>>,
                     <<Import("d/sub"), Plainly("struct", "S"),
                       Item("func", "f", "", "S", "", "same")>>}}

\* sub imports its own lib, and perhaps itself, main and the other lib.
Subs ==
    {imports \o <<Item("func", "subbed", "export", "int", "", "same"), Rule("*", "func"),
                  Plainly("func", "alone")>> :
        imports \in {<<Import("lib")>>, <<Import("sub"), Import("../main"), Import("../lib")>>}}

Deep == <<Item("class", "deeper", "export", "int", "", "same")>>

MCTrees ==
    {("main" :> m) @@ ("lib" :> l) @@ ("sub" :> s) @@ ("deep" :> Deep) :
        m \in Mains, l \in Offers("lone"), s \in Subs}
    \cup {("main" :> <<Import("lib")>>) @@ ("lib" :> <<Import("nowhere")>>) @@
          ("sub" :> <<>>) @@ ("deep" :> <<>>)}
=============================================================================
