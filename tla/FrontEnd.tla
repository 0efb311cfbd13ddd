------------------------------ MODULE FrontEnd ------------------------------
(***************************************************************************)
(* From the command line to parsed modules: arguments.c and termargs.c,    *)
(* imports.c, exports.c, the first pass of main.c, and the declarations of *)
(* eagle.y over the token streams of Lexer.                                *)
(*                                                                         *)
(* Every input is compiled in turn.  The files it imports are collected by *)
(* a work list, what they export is written out as external declarations   *)
(* in the order of a hash table, the input's own text follows, and the     *)
(* whole is read twice: for the names of types, and to parse it.           *)
(***************************************************************************)
EXTENDS Lexer, FiniteSets, Functions, TLC

CONSTANTS
    Argvs,       \* the command lines considered, without the program's name
    Trees,       \* the contents of the file system considered: file -> items
    Resolve,     \* realpath: <<directory, spelling>> -> file
    Dir,         \* dirname: file -> directory
    Home,        \* the directory the compiler is started in
    Matches,     \* fnmatch: pattern -> the names it matches
    Inline       \* the items behind --code, and those of the runtime

\* Items of a file, a declaration, an import or an export rule each: of its
\* kind and its name, with the word "export" in front of it or not, the type it
\* uses, what is between its parentheses, and where its brace is.
Exportable == {"static", "func", "gen", "struct", "class", "typedef", "enum", "interface"}
Spellings == STRING
Items ==
    [kind : Exportable \cup {"extern", "generic", "import", "rule"}, name : Spellings,
     mark : {"", "export"}, use : Spellings, arg : Spellings, brace : {"same", "line"}]

Objects == {"x.o"}

\* What realpath finds is there, and no file imports an object file.
ASSUME FilesAssumption ==
    /\ Argvs \subseteq Seq(Spellings)
    /\ \A t \in Trees :
          /\ \A f \in DOMAIN t :
                /\ t[f] \in Seq(Items)
                /\ \A n \in 1..Len(t[f]) :
                      /\ t[f][n].kind = "rule" => t[f][n].arg \in Exportable \cup {""}
                      /\ t[f][n].kind = "import" => t[f][n].name \notin Objects
          /\ \A p \in DOMAIN Resolve : p[2] \notin Objects => Resolve[p] \in DOMAIN t

VARIABLES
    phase,       \* "args", "next", "imports", "build", "first", "parse",
                 \* "done", "exited", "died"
    argv, tree,  \* the inputs
    args,        \* what is left of argv
    crate,       \* source_files, object_files, extra_code, libs
    argdump,     \* global_args: the switches seen
    input,       \* position in the list of source files and extra code
    source,      \* current_realpath
    cwd,
    work,        \* the work list and offset
    offset,
    allImports,  \* all_imports
    rules,       \* imports_exports: file -> export rules
    buffer,      \* the multibuffer: nodes <<origin, text>>
    flags, pipe, \* the static variables of the lexer and of the pipeline
    names,       \* name_table and the tables of classes, ... and typedefs
    units        \* history: what was parsed for the inputs so far

inputs == <<argv, tree>>
vars == <<phase, inputs, args, crate, argdump, input, source, cwd, work, offset, allImports,
          rules, buffer, flags, pipe, names, units>>

-----------------------------------------------------------------------------
(* Arguments.                                                               *)

TakesValue == {"-o", "--threads", "--code"}
Quits == {"--help", "--version"}
Switches == {"-c", "-S", "--no-rc", "--verbose", "--pf", "--llvm", "--dump-code"}

\* rule_seive looks at how an argument is spelled: libraries and object files.
Libraries == {"-lm"}
NoTables == [known |-> {}, class |-> {}, interface |-> {}, enum |-> {}, typedef |-> {}]

Init ==
    /\ phase = "args"
    /\ argv \in Argvs /\ tree \in Trees
    /\ args = argv
    /\ crate = [sources |-> <<>>, objects |-> <<>>, code |-> <<>>, libs |-> <<>>]
    /\ argdump = {}
    /\ input = 0 /\ source = "" /\ cwd = Home
    /\ work = <<>> /\ offset = 1 /\ allImports = {} /\ rules = [f \in {} |-> <<>>]
    /\ buffer = <<>> /\ flags = Flags0 /\ pipe = Pipe0 /\ names = NoTables
    /\ units = <<>>

\* rule_seive: libraries, object files, readable files; the rest is ignored.
Seive(c, a) ==
    IF a \in Libraries THEN [c EXCEPT !.libs = Append(@, a)]
    ELSE IF <<Home, a>> \notin DOMAIN Resolve THEN c
    ELSE IF a \in Objects THEN [c EXCEPT !.objects = Append(@, a)]
    ELSE [c EXCEPT !.sources = Append(@, a)]

afterArgs == <<inputs, input, source, cwd, work, offset, allImports, rules, buffer, flags,
               pipe, names, units>>

\* A rule that takes a value dies without one; --help and --version exit.
RunArgFails ==
    /\ phase = "args" /\ args # <<>>
    /\ Head(args) \in Quits \/ (Head(args) \in TakesValue /\ Len(args) = 1)
    /\ phase' = IF Head(args) \in Quits THEN "exited" ELSE "died"
    /\ UNCHANGED <<args, crate, argdump, afterArgs>>

\* Mutant: the value of a switch is looked at like any other argument.
RunArgKeepsValue ==
    LET a == Head(args)
    IN  /\ phase = "args" /\ args # <<>> /\ a \notin Quits
        /\ a \in TakesValue => Len(args) > 1
        /\ args' = Tail(args)
        /\ crate' = IF a = "--code" THEN [crate EXCEPT !.code = Append(@, args[2])]
                    ELSE IF a \in TakesValue \cup Switches THEN crate
                    ELSE Seive(crate, a)
        /\ argdump' = argdump \cup {a}
        /\ UNCHANGED <<phase, afterArgs>>

\* One turn of ta_run.
RunArg ==
    LET a == Head(args)
    IN  /\ phase = "args" /\ args # <<>> /\ a \notin Quits
        /\ a \in TakesValue => Len(args) > 1
        /\ args' = IF a \in TakesValue THEN Tail(Tail(args)) ELSE Tail(args)
        /\ crate' = IF a = "--code" THEN [crate EXCEPT !.code = Append(@, args[2])]
                    ELSE IF a \in TakesValue \cup Switches THEN crate
                    ELSE Seive(crate, a)
        /\ argdump' = argdump \cup {a}
        /\ UNCHANGED <<phase, afterArgs>>

\* The build phase begins, unless there is nothing to build.
EndArgs ==
    /\ phase = "args" /\ args = <<>>
    /\ phase' = IF crate.sources \o crate.objects \o crate.code = <<>> THEN "died" ELSE "next"
    /\ UNCHANGED <<args, crate, argdump, afterArgs>>

-----------------------------------------------------------------------------
(* Source text.  A file is a sequence of items [kind, name, mark, use, arg, *)
(* brace]; Source is what the programmer writes for one.                    *)

K(k) == <<k, k>>
Id(s) == <<"id", s>>
Ty(s) == IF s \in {"int"} THEN <<"type", s>> ELSE Id(s)
NL == <<"nl", "">>
Brace(k) == <<k, "">>

\* A method with a body, a method without, a field and a statement.
Method == <<K("func"), Id("run"), K("("), K(")"), Brace("{\\n"), Id("e"), NL, K("}"), NL>>
Promise == <<K("func"), Id("run"), K("("), K(")"), NL>>
Field(t) == <<Ty(t), Id("a"), NL>>
Statement == <<Id("e"), NL>>
Result == <<K("return"), Id("e"), NL>>

\* What stands in front of the brace, and what is between the braces.
HeadText(i) ==
    CASE i.kind = "func"    -> <<K("func"), Id(i.name), K("("), Ty(i.use), Id("a"), K(")")>>
      [] i.kind = "extern"  -> <<K("extern"), K("func"), Id(i.name), K("("), Ty(i.use), K(")"),
                                 NL>>
      [] i.kind = "generic" -> <<K("func"), Id(i.name), K("<"), Id("T"), K(">"), K("("),
                                 Id("T"), Id("a"), K(")")>>
      [] i.kind = "gen"     -> <<K("gen"), Id(i.name), K("("), K(")"), K(":"), Ty(i.use)>>
      [] i.kind = "class" /\ i.arg # ""
                            -> <<K("class"), Id(i.name), K("("), Id(i.arg), K(")")>>
      [] i.kind = "typedef" -> <<K("typedef"), Ty(i.use), Id(i.name), NL>>
      [] i.kind = "static"  -> <<K("static"), Ty(i.use), Id(i.name), NL>>
      [] i.kind = "import"  -> <<<<"import", i.name>>, NL>>
      [] i.kind = "rule" /\ i.arg = ""
                            -> <<K("export"), <<"cstr", i.name>>, NL>>
      [] i.kind = "rule" /\ i.arg # ""
                            -> <<K("export"), K("("), K(i.arg), K(")"), <<"cstr", i.name>>, NL>>
      [] OTHER              -> <<K(i.kind), Id(i.name)>>

Bodies(i) ==
    CASE i.kind \in {"func", "gen"} -> Statement
      [] i.kind = "generic"   -> Result
      [] i.kind = "struct"    -> Field(i.use)
      [] i.kind = "class"     -> Field(i.use) \o Method
      [] i.kind = "interface" -> Promise
      [] i.kind = "enum"      -> <<Id("a"), NL>>

Braced == {"func", "generic", "gen", "struct", "class", "interface", "enum"}

\* The brace ends its line, or stands on a line of its own.
Open(i) == IF i.brace = "same" THEN <<Brace("{\\n")>> ELSE <<Brace("\\n{"), NL>>

Source(i) ==
    (IF i.mark = "export" THEN <<K("export")>> ELSE <<>>) \o HeadText(i) \o
    (IF i.kind \in Braced THEN Open(i) \o Bodies(i) \o <<K("}"), NL>> ELSE <<>>)

Flatten(ss) == Sweep(LAMBDA a, b : a \o b, <<>>, ss)
Text(items) == Flatten([n \in 1..Len(items) |-> Source(items[n])])

-----------------------------------------------------------------------------
(* The inputs in turn: main, compile_file, compile_string, compile_rc.      *)

Files(c) == Len(c.sources)
Inputs(c) == Len(c.sources) + Len(c.code)

\* There is a runtime to compile unless nothing is linked or counted.
Links == argdump \cap {"-c", "-S", "--llvm", "--dump-code"} = {}
WithRuntime == Links /\ "--no-rc" \notin argdump

fromArgs == <<inputs, args, crate, argdump>>

\* imp_generate_imports up to its loop.
StartFile ==
    /\ phase = "next" /\ input < Files(crate)
    /\ input' = input + 1
    /\ source' = Resolve[<<cwd, crate.sources[input']>>]
    /\ work' = <<source'>> /\ offset' = 1
    /\ allImports' = {} /\ rules' = [f \in {} |-> <<>>]
    /\ buffer' = <<>> /\ names' = NoTables /\ phase' = "imports"
    /\ UNCHANGED <<fromArgs, cwd, flags, pipe, units>>

\* compile_string and compile_rc: the text is all there is.
StartCode ==
    /\ phase = "next"
    /\ input >= Files(crate)
    /\ input < Inputs(crate) \/ (input = Inputs(crate) /\ WithRuntime)
    /\ input' = input + 1
    /\ source' = IF input < Inputs(crate) THEN "--code" ELSE "runtime"
    /\ buffer' = <<[from |-> source', text |-> Text(Inline[source'])]>>
    /\ names' = NoTables /\ phase' = "first"
    /\ UNCHANGED <<fromArgs, cwd, work, offset, allImports, rules, flags, pipe, units>>

Finish ==
    /\ phase = "next"
    /\ input = Inputs(crate) + (IF WithRuntime THEN 1 ELSE 0)
    /\ phase' = "done"
    /\ UNCHANGED <<fromArgs, input, source, cwd, work, offset, allImports, rules, buffer,
                   flags, pipe, names, units>>

-----------------------------------------------------------------------------
(* imports.c: the work list.                                                *)

\* The tokens of an import line carry the path, those of an export rule the
\* pattern, with a kind between parentheses or without one.
PathsIn(t, dir) == {<<dir, Spelling(t[n])>> : n \in {n \in 1..Len(t) : t[n].tok = "import"}}

RuleAt(t, n) ==
    IF t[n].tok # "export" THEN {}
    ELSE IF t[n + 1].tok = "cstr" THEN {[kind |-> "any", pattern |-> Spelling(t[n + 1])]}
    ELSE IF t[n + 1].tok = "(" THEN {[kind |-> t[n + 2].tok, pattern |-> Spelling(t[n + 4])]}
    ELSE {}

RulesOf(t) == UNION {RuleAt(t, n) : n \in 1..Len(t)}

\* What the tokens of a file in dir add to the work list: the files they import
\* that are neither the source nor in all_imports.
NewImports(t, dir, seen) ==
    LET Import(new, k) ==
            IF k.tok # "import" \/ Resolve[<<dir, Spelling(k)>>] \in seen \cup ToSet(new) THEN new
            ELSE Append(new, Resolve[<<dir, Spelling(k)>>])
    IN  Sweep(Import, <<>>, t)

fromStart == <<fromArgs, input, source, pipe, names, units>>

\* Mutant: a file is entered in all_imports when it is read.
ReadImportsLate ==
    LET f == work[offset]
        lexed == Lex(Text(tree[f]), flags)
        new == NewImports(lexed.out, Dir[f], allImports \cup {source})
    IN  /\ phase = "imports" /\ offset <= Len(work)
        /\ cwd' = Dir[f]
        /\ flags' = lexed.flags
        /\ work' = work \o new
        /\ allImports' = allImports \cup ({f} \ {source})
        /\ rules' = [g \in DOMAIN rules \cup {f} |->
                           IF g = f THEN RulesOf(lexed.out) ELSE rules[g]]
        /\ offset' = offset + 1
        /\ UNCHANGED <<fromStart, phase, buffer>>

\* One turn of the loop of imp_generate_imports.
ReadImports ==
    LET f == work[offset]
        lexed == Lex(Text(tree[f]), flags)
        new == NewImports(lexed.out, Dir[f], allImports \cup {source})
    IN  /\ phase = "imports" /\ offset <= Len(work)
        /\ cwd' = Dir[f]
        /\ flags' = lexed.flags
        /\ IF PathsIn(lexed.out, Dir[f]) \subseteq DOMAIN Resolve
           THEN /\ work' = work \o new
                /\ allImports' = allImports \cup ToSet(new)
                /\ rules' = [g \in DOMAIN rules \cup {f} |->
                                   IF g = f THEN RulesOf(lexed.out) ELSE rules[g]]
                /\ UNCHANGED phase
           ELSE phase' = "died" /\ UNCHANGED <<work, allImports, rules>>
        /\ offset' = offset + 1
        /\ UNCHANGED <<fromStart, buffer>>

\* Mutant: the directory of the last file stays the current one.
EndImportsThere ==
    /\ phase = "imports" /\ offset > Len(work)
    /\ phase' = "build"
    /\ UNCHANGED <<fromStart, cwd, work, offset, allImports, rules, buffer, flags>>

EndImports ==
    /\ phase = "imports" /\ offset > Len(work)
    /\ cwd' = Home
    /\ phase' = "build"
    /\ UNCHANGED <<fromStart, work, offset, allImports, rules, buffer, flags>>

-----------------------------------------------------------------------------
(* imports.c: what a file exports, as the text of external declarations.    *)

\* The first position from i on that holds a token of class k.
First(t, i, k) == CHOOSE j \in i..Len(t) : t[j].tok = k /\ \A h \in i..(j - 1) : t[h].tok # k

Nesting(k) == CASE k.tok = "{" -> 1 [] k.tok = "}" -> -1 [] OTHER -> 0

\* imp_consume_body: the brace that closes the one at b.
Close(t, b) ==
    LET Consume(acc, k) ==
            IF acc.depth = 0 THEN acc ELSE [depth |-> acc.depth + Nesting(k), at |-> acc.at + 1]
    IN  Sweep(Consume, [depth |-> 1, at |-> b], SubSeq(t, b + 1, Len(t))).at

Between(t, i, j) == Texts(SubSeq(t, i, j))
Unit(text, symbol, next) == [text |-> text, symbol |-> symbol, next |-> next]

\* imp_parse_function at i.  Only a generic function keeps its body.
Function(t, i, inclass, extdecl) ==
    LET e0 == First(t, i + 1, IF extdecl THEN ";" ELSE "{")
        generic == \E j \in i..e0 : t[j].tok = "<"
        e == IF generic THEN First(t, i + 1, "{") ELSE e0
        close == Close(t, e)
    IN  Unit((IF inclass THEN <<>> ELSE <<K("extern")>>) \o Between(t, i, e - 1) \o
                 (IF generic THEN <<Brace("\\n{")>> \o Between(t, e + 1, close) ELSE <<>>),
             Spelling(t[i + 1]),
             1 + IF generic \/ ~extdecl THEN close ELSE e)

\* imp_parse_typedef: the symbol is the last word.
Typedef(t, i) ==
    LET e == First(t, i, ";")
    IN  Unit(Between(t, i, e - 1), Spelling(t[e - 1]), e + 1)

\* imp_parse_static_var: two words, and whatever follows is skipped.
StaticVar(t, i) ==
    Unit(<<K("extern")>> \o Between(t, i, i + 2), Spelling(t[i + 2]), 1 + First(t, i + 3, ";"))

\* imp_parse_bracketed: up to the first closing brace.
Bracketed(t, i, declext) ==
    LET e == First(t, i, "}")
    IN  Unit((IF declext THEN <<K("extern")>> ELSE <<>>) \o Between(t, i, e),
             Spelling(t[i + 1]), e + 1)

\* The members of imp_parse_class from b on: [text, next].
Members(t, b) ==
    LET member(i) ==
            IF t[i].tok \in {"func", "view"} \/ Spelling(t[i]) \in {"init", "destruct"}
            THEN Function(t, i, TRUE, FALSE) ELSE Unit(<<t[i].lx>>, "", i + 1)
        from[i \in Nat] ==
            IF t[i].tok = "}" THEN [text |-> <<>>, next |-> i + 1]
            ELSE LET u == member(i)
                     rest == from[u.next]
                 IN  [text |-> u.text \o rest.text, next |-> rest.next]
    IN  from[b]

\* Mutant: the bodies of the methods are taken along.
ClassWithBodies(t, i, extdecl) ==
    LET b == First(t, i, "{")
        close == Close(t, b)
    IN  Unit(<<K("extern")>> \o Between(t, i, b - 1) \o <<Brace("\\n{"), NL>>
                 \o Between(t, b + 1, close), Spelling(t[i + 1]), close + 1)

Class(t, i, extdecl) ==
    LET b == First(t, i, "{")
        close == Close(t, b)
        members == Members(t, b + 1)
        head == <<K("extern")>> \o Between(t, i, b - 1) \o <<Brace("\\n{"), NL>>
    IN  IF extdecl
        THEN Unit(head \o Between(t, b + 1, close), Spelling(t[i + 1]), close + 1)
        ELSE Unit(head \o members.text \o <<NL, K("}"), NL>>, Spelling(t[i + 1]), members.next)

UnitAt(t, i, ext) ==
    CASE t[i].tok = "static"                -> StaticVar(t, i)
      [] t[i].tok \in {"func", "gen"}       -> Function(t, i, FALSE, ext)
      [] t[i].tok = "struct"                -> Bracketed(t, i, TRUE)
      [] t[i].tok = "class"                 -> Class(t, i, ext)
      [] t[i].tok = "typedef"               -> Typedef(t, i)
      [] t[i].tok \in {"enum", "interface"} -> Bracketed(t, i, FALSE)

\* ec_allow.
Allow(rs, symbol, kind) ==
    \E r \in rs : r.kind \in {"any", kind} /\ symbol \in Matches[r.pattern]

Unknown == <<"unknown", "">>

\* imp_scan_file, where ext is is_extern and save is save_next.
Scan(t, rs) ==
    LET from[i \in Nat, ext \in BOOLEAN, save \in BOOLEAN] ==
            IF i > Len(t) THEN <<>>
            ELSE CASE t[i].tok = "extern" -> from[i + 1, TRUE, FALSE]
                   [] t[i].tok \in {"import", ";", "cstr", ")"} -> from[i + 1, ext, FALSE]
                   [] t[i].tok = "(" -> from[i + 2, ext, save]
                   [] t[i].tok = "export" -> from[i + 1, ext, TRUE]
                   [] t[i].tok \in Exportable ->
                        LET u == UnitAt(t, i, ext)
                        IN  (IF Allow(rs, u.symbol, t[i].tok) \/ save THEN u.text \o <<NL>> ELSE <<>>)
                            \o from[u.next, FALSE, FALSE]
                   [] OTHER -> <<Unknown>>
    IN  from[1, FALSE, FALSE]

\* mb_add_str and mb_add_file put a reset line in front of all but the first.
Extend(f, text) ==
    buffer' = Append(buffer, [from |-> f,
                              text |-> (IF buffer = <<>> THEN <<>> ELSE <<K("reset")>>) \o text])

Built == {buffer[n].from : n \in 1..Len(buffer)}

\* imp_build_buffer, in the order of the hash table.
ScanFile(f) ==
    LET lexed == Lex(Text(tree[f]), flags)
        text == Scan(lexed.out, rules[f])
    IN  /\ phase = "build" /\ f \in allImports \ Built
        /\ flags' = lexed.flags
        /\ IF Unknown \in ToSet(text)
           THEN phase' = "died" /\ UNCHANGED buffer
           ELSE Extend(f, text) /\ UNCHANGED phase
        /\ UNCHANGED <<fromStart, cwd, work, offset, allImports, rules>>

\* mb_add_file in compile_file, and whether compile_generic stops here.
AddSource ==
    LET f == Resolve[<<cwd, crate.sources[input]>>]
    IN  /\ phase = "build" /\ allImports \subseteq Built
        /\ Extend(source, Text(tree[f]))
        /\ phase' = "first"
        /\ UNCHANGED <<fromStart, cwd, work, offset, allImports, rules, flags>>

\* --dump-code: compile_generic returns before the first pass.
DumpOnly ==
    /\ phase = "first" /\ "--dump-code" \in argdump
    /\ units' = Append(units, [from |-> source, decls |-> <<>>])
    /\ phase' = "next"
    /\ UNCHANGED <<fromArgs, input, source, cwd, work, offset, allImports, rules, buffer,
                   flags, pipe, names>>

-----------------------------------------------------------------------------
(* main.c and types.c: the first pass registers the names of types.         *)

BufferText == Flatten([n \in 1..Len(buffer) |-> buffer[n].text])

\* The positions behind a word of class k, and what is written there.
Behind(t, k) == {n \in 2..Len(t) : t[n - 1].tok = k}
Named(t, k) == {Spelling(t[n]) : n \in Behind(t, k)}

\* register_typedef: a type that is named after itself is no typedef.
Typedefs(t) ==
    {Spelling(t[First(t, n, ";") - 1]) :
        n \in {n \in Behind(t, "typedef") :
                  ~(First(t, n, ";") = n + 2 /\ Spelling(t[n]) = Spelling(t[n + 1]))}}

Tables(t) ==
    [class |-> Named(t, "class"), interface |-> Named(t, "interface"),
     enum |-> Named(t, "enum"), typedef |-> Typedefs(t),
     known |-> Typedefs(t)
               \cup UNION {Named(t, k) : k \in {"struct", "class", "interface", "enum"}}]

\* ty_register_class, ty_register_interface and ty_register_enum die.
Redeclared(t) ==
    \/ \E k \in {"class", "interface", "enum"} : \E n, m \in Behind(t, k) :
          n # m /\ Spelling(t[n]) = Spelling(t[m])
    \/ \E n \in Behind(t, "class"), m \in Behind(t, "interface") :
          n < m /\ Spelling(t[n]) = Spelling(t[m])

\* Mutant: only structs are names of types.
FirstPassStructs ==
    LET lexed == Lex(BufferText, flags)
    IN  /\ phase = "first" /\ "--dump-code" \notin argdump
        /\ flags' = lexed.flags
        /\ names' = [Tables(lexed.out) EXCEPT !.known = Named(lexed.out, "struct")]
        /\ phase' = "parse"
        /\ UNCHANGED <<fromArgs, input, source, cwd, work, offset, allImports, rules, buffer,
                       pipe, units>>

FirstPass ==
    LET lexed == Lex(BufferText, flags)
    IN  /\ phase = "first" /\ "--dump-code" \notin argdump
        /\ flags' = lexed.flags
        /\ names' = Tables(lexed.out)
        /\ phase' = IF Redeclared(lexed.out) THEN "died" ELSE "parse"
        /\ UNCHANGED <<fromArgs, input, source, cwd, work, offset, allImports, rules, buffer,
                       pipe, units>>

-----------------------------------------------------------------------------
(* eagle.y: declarations, as the sequences of token classes they may have.  *)

Concat(S, T) == {s \o t : s \in S, t \in T}
OneOrTwo(S) == S \cup {s \o <<",">> \o t : s, t \in S}

Types == {<<"type">>, <<"type", "*">>}
VariableDecl == Concat(Types, {<<"id">>})
Returns == {<<>>} \cup Concat({<<":">>}, Types)
FuncIdent == Concat(Concat({<<"func", "id", "(">>}, {<<>>} \cup OneOrTwo(VariableDecl)),
                   Concat({<<")">>}, Returns))
FuncsIdent == Concat(Concat({<<"func", "id", "(">>}, OneOrTwo(Types)), Concat({<<")">>}, Returns))
GenIdent == Concat({<<"gen", "id", "(">>},
                  Concat({<<>>} \cup OneOrTwo(VariableDecl), Concat({<<")", ":">>}, Types)))
GenericIdent == Concat(FuncIdent, {<<"generic">>})
ClassHead == {<<"class", "type">>, <<"class", "type", "(", "type", ")">>}
Statements == {<<>>, <<"id">>, <<"return">>, <<"return", "id">>, <<"yield", "id">>}

\* Declarations without braces and with braces, by the word in front of them.
Unbraced ==
    [none   |-> {<<>>} \cup Concat({<<"typedef">>}, Concat(Types, {<<"type">>}))
                \cup Concat({<<"static">>}, VariableDecl),
     export |-> Concat({<<"typedef">>}, Concat(Types, {<<"type">>})) \cup
                Concat({<<"static">>}, VariableDecl) \cup {<<"cstr">>} \cup
                {<<"(", k, ")", "cstr">> : k \in Exportable},
     extern |-> FuncIdent \cup FuncsIdent \cup GenIdent \cup Concat({<<"static">>}, VariableDecl)]

WithBlock ==
    [none   |-> FuncIdent \cup GenericIdent \cup GenIdent,
     export |-> FuncIdent \cup GenericIdent \cup GenIdent,
     extern |-> GenericIdent]

\* What the lists between the braces are made of.
WithList == {<<"struct", "type">>, <<"interface", "type">>, <<"enum", "type">>} \cup ClassHead
ListOf(keyword) ==
    CASE keyword = "struct"    -> VariableDecl
      [] keyword = "interface" -> FuncIdent \cup FuncsIdent
      [] keyword = "enum"      -> {<<"id">>}
      [] keyword = "class"     -> VariableDecl \cup FuncIdent \cup FuncsIdent

\* A token sequence cut at the semicolons outside of braces, and what is left.
Cut(t) ==
    LET Step(acc, k) ==
            IF k.tok = ";" /\ acc.depth = 0
            THEN [acc EXCEPT !.parts = Append(@, acc.part), !.part = <<>>]
            ELSE [acc EXCEPT !.part = Append(@, k), !.depth = @ + Nesting(k)]
        r == Sweep(Step, [parts |-> <<>>, part |-> <<>>, depth |-> 0], t)
    IN  [parts |-> r.parts, left |-> r.part # <<>>]

Classes(t) == [n \in 1..Len(t) |-> t[n].tok]
HasBraces(t) == \E n \in 1..Len(t) : t[n].tok = "{"
HeadOf(t) == IF HasBraces(t) THEN SubSeq(t, 1, First(t, 1, "{") - 1) ELSE t
Inner(t) == SubSeq(t, First(t, 1, "{") + 1, Len(t) - 1)

\* block: at least one statement.
IsBlock(t) ==
    LET c == Cut(t)
    IN  ~c.left /\ c.parts # <<>> /\ \A n \in 1..Len(c.parts) : Classes(c.parts[n]) \in Statements

\* structlist and the like: a semicolon may come first.
ListParts(t) ==
    LET parts == Cut(t).parts
    IN  IF parts # <<>> /\ parts[1] = <<>> THEN Tail(parts) ELSE parts

IsList(t, keyword) ==
    /\ ~Cut(t).left /\ ListParts(t) # <<>>
    /\ \A n \in 1..Len(ListParts(t)) :
          LET m == ListParts(t)[n]
          IN  IF HasBraces(m)
              THEN keyword = "class" /\ Classes(HeadOf(m)) \in FuncIdent /\ IsBlock(Inner(m))
              ELSE Classes(m) \in ListOf(keyword)

Prefix(t) == IF t # <<>> /\ t[1].tok \in {"export", "extern"} THEN t[1].tok ELSE "none"
Unprefixed(t) == IF Prefix(t) = "none" THEN t ELSE Tail(t)

\* PF: with --pf a list has its brace on a line of its own.
IsDeclaration(t, strict) ==
    LET p == Prefix(t)
        d == Unprefixed(t)
        head == Classes(HeadOf(d))
    IN  IF ~HasBraces(t) THEN head \in Unbraced[p]
        ELSE \/ head \in WithBlock[p] /\ IsBlock(Inner(d))
             \/ /\ head \in WithList /\ IsList(Inner(d), head[1])
                /\ p = "extern" => head[1] \in {"struct", "class"}
                /\ strict => Cut(Inner(d)).parts[1] = <<>>

\* What is said of a declaration: its words and its members.
Words(t) == Texts(SelectSeq(t, LAMBDA k : k.tok \notin {"{", "}", ";", "generic"}))
Spelled(t) == [n \in 1..Len(Words(t)) |-> Words(t)[n][2]]
Declared(t) ==
    [words   |-> Spelled(HeadOf(t)),
     members |-> IF HasBraces(t)
                 THEN [n \in 1..Len(ListParts(Inner(t))) |-> Spelled(ListParts(Inner(t))[n])]
                 ELSE <<>>]

\* yyparse: an import stands without a semicolon of its own.
Parse ==
    LET lexed == Lex(BufferText, flags)
        piped == Piped(lexed.out, pipe, names.known)
        cut == Cut(SelectSeq(piped.out, LAMBDA k : k.tok # "import"))
        all == \A n \in 1..Len(cut.parts) : IsDeclaration(cut.parts[n], "--pf" \in argdump)
        said == SelectSeq(cut.parts, LAMBDA d : d # <<>>)
    IN  /\ phase = "parse"
        /\ flags' = lexed.flags /\ pipe' = piped.pipe
        /\ IF ~cut.left /\ all
           THEN /\ units' = Append(units, [from  |-> source,
                                           decls |-> [n \in 1..Len(said) |-> Declared(said[n])]])
                /\ phase' = "next"
           ELSE phase' = "died" /\ UNCHANGED units
        /\ UNCHANGED <<fromArgs, input, source, cwd, work, offset, allImports, rules, buffer,
                       names>>

-----------------------------------------------------------------------------
Next ==
    \/ RunArgFails \/ RunArg \/ EndArgs
    \/ StartFile \/ StartCode \/ Finish
    \/ ReadImports \/ EndImports \/ AddSource
    \/ \E f \in allImports : ScanFile(f)
    \/ DumpOnly \/ FirstPass \/ Parse
    \/ phase \in {"done", "exited", "died"} /\ UNCHANGED vars

Spec == Init /\ [][Next]_vars

-----------------------------------------------------------------------------
(* Properties.                                                              *)

\* The shape of the state: positions are in range, what is built was imported,
\* and paths on the command line are looked up where the compiler was started.
TypeOK ==
    /\ phase \in {"args", "next", "imports", "build", "first", "parse", "done", "exited", "died"}
    /\ offset \in 1..(Len(work) + 1) /\ DOMAIN rules \subseteq ToSet(work)
    /\ input \in 0..(Inputs(crate) + 1)
    /\ phase = "build" => Built \subseteq allImports
    /\ phase \in {"next", "build"} => cwd = Home

\* The files a file reaches over its imports, itself included: those that are
\* in every set that has it and the imports of its files.
Imported(f) == {<<Dir[f], i.name>> : i \in {i \in ToSet(tree[f]) : i.kind = "import"}}
Closed(S) == \A f \in S : \A p \in Imported(f) \cap DOMAIN Resolve : Resolve[p] \in S
Closure(f) == {g \in DOMAIN tree : \A S \in SUBSET DOMAIN tree : f \in S /\ Closed(S) => g \in S}

\* A file is read once however many files import it, in cycles too and under
\* different names, nothing reachable is left out, and a file never imports
\* the source a second time.
ReadOnce ==
    phase \in {"imports", "build"} =>
        /\ IsInjective(work) /\ source = work[1]
        /\ allImports = ToSet(Tail(work))
        /\ phase = "build" => ToSet(work) = Closure(source)

\* What a declaration comes to: its own module keeps all of it, another one
\* sees it as external, without the bodies that are not needed to call it.  The
\* body of a generic function has lost its first token if a brace that ends the
\* line of the head comes before it: lbrace takes the end of the line along,
\* and pipe_lex drops a token all the same.
Said(text) == SelectSeq([n \in 1..Len(text) |-> text[n][2]], LAMBDA w : w # "")
MemberWords(i, own) ==
    CASE i.kind = "func" /\ ~own -> <<>>
      [] i.kind = "gen" /\ ~own -> <<>>
      [] i.kind \in {"func", "gen"} -> <<Said(Statement)>>
      [] i.kind = "generic" -> <<Said(IF i.brace = "same" THEN Tail(Result) ELSE Result)>>
      [] i.kind = "class" /\ own -> <<Said(Field(i.use)), <<"func", "run", "(", ")", "e">>>>
      [] i.kind = "class" /\ ~own -> <<Said(Field(i.use)), <<"func", "run", "(", ")">>>>
      [] i.kind = "struct" -> <<Said(Field(i.use))>>
      [] i.kind = "interface" -> <<Said(Promise)>>
      [] i.kind = "enum" -> <<<<"a">>>>
      [] OTHER -> <<>>

Meaning(i, own) ==
    [words   |-> (IF own /\ i.mark = "export" THEN <<"export">>
                  ELSE IF ~own /\ i.kind \notin {"typedef", "enum", "interface", "extern"}
                  THEN <<"extern">> ELSE <<>>) \o
                 (IF i.kind = "generic" THEN <<"func", i.name, "(", "T", "a", ")">>
                  ELSE Said(HeadText(i))),
     members |-> MemberWords(i, own)]

\* The word an export rule uses for an item.
Word(i) == IF i.kind \in {"generic", "extern"} THEN "func" ELSE i.kind

Exports(f) ==
    {i \in ToSet(tree[f]) :
        /\ Word(i) \in Exportable
        /\ \/ i.mark = "export"
           \/ \E r \in ToSet(tree[f]) : r.kind = "rule" /\ r.arg \in {"", Word(i)}
                                        /\ i.name \in Matches[r.name]}

Declares(items) ==
    LET own == SelectSeq(items, LAMBDA i : i.kind # "import")
    IN  [n \in 1..Len(own) |-> Meaning(own[n], TRUE)]

\* The parser sees what the programmer wrote and what the reachable files
\* export, each declaration once, whatever order the files are read in, in
\* whatever state the lexer was left by the input before; but for the first
\* token of some generic functions, see MemberWords.
Faithful ==
    \A n \in 1..Len(units) :
        LET u == units[n]
            mine == u.from \in DOMAIN tree
            own == Declares(IF mine THEN tree[u.from] ELSE Inline[u.from])
            others == IF mine THEN UNION {{Meaning(i, FALSE) : i \in Exports(f)} :
                                          f \in Closure(u.from) \ {u.from}} ELSE {}
            k == Len(u.decls) - Len(own)
        IN  "--dump-code" \notin argdump =>
                /\ k = Cardinality(others)
                /\ SubSeq(u.decls, k + 1, Len(u.decls)) = own
                /\ ToSet(SubSeq(u.decls, 1, k)) = others

\* Behind every input that is accepted no generic function is open: its type
\* names are not those of the next one.
PipeReset ==
    phase = "next" => ~pipe.context /\ pipe.need = 0 /\ pipe.depth = 0 /\ pipe.reading = "no"

\* The first pass takes the parenthesis behind the word in an export rule for
\* the name of a type, which a second rule declares again.
RulesClash(items) ==
    \E m, n \in DOMAIN items :
        /\ m < n /\ items[m].kind = "rule" /\ items[n].kind = "rule"
        /\ \/ items[m].arg = items[n].arg /\ items[m].arg \in {"class", "interface", "enum"}
           \/ items[m].arg = "class" /\ items[n].arg = "interface"

\* The build dies only over an import that does not exist, over two export
\* rules as above in the text that is compiled, or with --pf over a list that
\* opens at the end of a line; two such rules are always refused; and an input
\* that is accepted leaves nothing in the pipeline that could refuse the next.
Accepted ==
    /\ PipeReset
    /\ phase = "died" /\ input > 0 =>
          /\ source \in DOMAIN tree
          /\ \/ RulesClash(tree[source])
             \/ \E f \in Closure(source) :
                   \/ ~(Imported(f) \subseteq DOMAIN Resolve)
                   \/ "--pf" \in argdump /\ \E i \in ToSet(tree[f]) :
                         i.brace = "same" /\ i.kind \in {"struct", "class", "interface", "enum"}
    /\ phase = "parse" /\ source \in DOMAIN tree => ~RulesClash(tree[source])

\* An argument is a value when the one before it takes one and is no value.
IsValue ==
    LET v[n \in 1..Len(argv)] == n > 1 /\ argv[n - 1] \in TakesValue /\ ~v[n - 1]
    IN  v

\* The positions of the other arguments, those in S, in order.
Plain(S) ==
    LET Keep(kept, n) == IF ~IsValue[n] /\ argv[n] \in S THEN Append(kept, n) ELSE kept
    IN  Sweep(Keep, <<>>, [n \in 1..Len(argv) |-> n])

\* A word that is a switch or a library is no file, whatever files there are.
Readable ==
    {a \in ToSet(argv) : <<Home, a>> \in DOMAIN Resolve}
        \ (Objects \cup Libraries \cup TakesValue \cup Quits \cup Switches)
Expected ==
    LET files == Plain(Readable)
        codes == Plain({"--code"})
    IN  [n \in 1..Len(files) |-> Resolve[<<Home, argv[files[n]]>>]]
        \o [n \in 1..Len(codes) |-> "--code"] \o
        (IF Plain({"-c", "-S", "--llvm", "--dump-code", "--no-rc"}) = <<>> THEN <<"runtime">> ELSE <<>>)

\* What is compiled is what the command line says: its readable files in
\* order, the extra code, and the runtime when something is linked.  The value
\* of a switch is never taken for a file or a switch.
CommandLine ==
    /\ phase = "done" => [n \in 1..Len(units) |-> units[n].from] = Expected
    /\ phase = "exited" => Plain(Quits) # <<>>
=============================================================================
