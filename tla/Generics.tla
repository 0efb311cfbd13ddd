------------------------------ MODULE Generics ------------------------------
(***************************************************************************)
(* compiler/ac_generics.c with the types of core/types.c it works on.      *)
(* Ordinary functions are compiled first and ask for instances of generic  *)
(* ones; the instances are compiled afterwards from a work list that their *)
(* own bodies extend.  Every mention of a generic identifier in the syntax *)
(* tree is one shared type object, overwritten before an instance is       *)
(* compiled.                                                               *)
(***************************************************************************)
EXTENDS GenericTypes, Integers, SequencesExt

CONSTANTS
    Programs,     \* [main, funs]: calls, and the generic functions by name
    MaxWorks      \* bound on the instances of a program

\* What is computed of whole types, which recursion does: see TypeTrees.
CONSTANTS
    Resolve(_, _),     \* a type without mentions of the shared objects
    Qualifies(_),      \* it has a generic identifier
    Same(_, _),        \* two types are the same
    Name(_),           \* the words of a type's name
    Fits(_, _),        \* a given type has the form a template asks for
    Says(_, _, _),     \* what it then says of the template's identifiers
    Replaced(_, _, _), \* a template with its identifiers replaced by what is given, or else found
    IdentsOf(_),       \* the identifiers of a template
    SameName(_, _)     \* two types differ only in what a name leaves out

VARIABLES
    program,
    templates,    \* genericFunctions: the template_type of each
    object,       \* generic_ident_table: what each shared object holds
    funcs,        \* the concrete functions: [key, sig, body, calls]
    works,        \* genericWorkList: [fun, scanned, func]
    current,      \* the function whose body is compiled: [fun, func, pc, results]
    next,         \* the index of ac_compile_generics
    error         \* die was called

genVars == <<program, templates, object, funcs, works, current, next, error>>

-----------------------------------------------------------------------------
(* The calls of a body.                                                     *)

Calls(fun) == IF fun = "main" THEN program.main ELSE program.funs[fun].calls
TheCall == Calls(current.fun)[current.pc]

\* The type of an argument: one of the tree's own types, the result of
\* arithmetic (a base type of its own), or the result of an earlier call.
ArgType(arg) ==
    CASE arg.form = "type"   -> arg.type
      [] arg.form = "arith"  -> Shape(object, arg.type)
      [] arg.form = "result" -> current.results[arg.of]

Signature(o, params, ret) == Fn([i \in DOMAIN params |-> Resolve(o, params[i])], Resolve(o, ret))

\* implementations: the function of that name, or 0.
Instance(key) == SelectInSeq(funcs, LAMBDA f : f.key = key)

\* What a call says, in a record [good, key, scanned, params, ret, sig]: a type
\* that does not fit, an identifier given two types and one that stays
\* unknown end the compilation.
Examined ==
    LET t == Signature(object, templates[TheCall.fun].params, templates[TheCall.fun].ret)
        args == [n \in DOMAIN TheCall.args |-> ArgType(TheCall.args[n])]
        generic == {n \in DOMAIN t.params : Qualifies(t.params[n])}
        Value(p) == Resolve(object, p)
        fits == \A n \in generic : Fits(t.params[n], Value(args[n]))
        says == FlattenSeq([n \in DOMAIN args |->
                   IF n \in generic THEN Says(object, t.params[n], args[n]) ELSE <<>>])
        known == {says[n][1] : n \in DOMAIN says}
        scanned == [id \in known |-> says[SelectLastInSeq(says, LAMBDA p : p[1] = id)][2]]
        agree == \A m, n \in DOMAIN says : says[m][1] = says[n][1] =>
                    Same(Value(says[m][2]), Value(says[n][2]))
        key == <<TheCall.fun>> \o FlattenSeq([n \in DOMAIN args |->
                   IF n \in generic THEN Name(Replaced(t.params[n], Value(args[n]), scanned)) ELSE <<>>])
        params == [n \in DOMAIN args |-> IF n \in generic THEN args[n] ELSE t.params[n]]
        ret == Replaced(t.ret, NoType, scanned)
    IN  IF ~fits \/ ~agree \/ ~(IdentsOf(t.ret) \subseteq known) THEN [good |-> FALSE]
        ELSE [good |-> TRUE, key |-> key, scanned |-> scanned, ret |-> ret,
              sig |-> Signature(object, params, ret)]

\* The answer to a call: sig is what a new function is declared with; asked
\* notes, for a property, what it is called with.  Where the instance is known
\* again says if it is listed once more.
Request(call, again) ==
    LET i == Instance(call.key)
        work(f) == [fun |-> TheCall.fun, scanned |-> call.scanned, func |-> f]
        new == [key |-> call.key, sig |-> call.sig, bodies |-> <<>>, asked |-> {call.sig}]
    IN  /\ IF i # 0
           THEN /\ funcs' = [funcs EXCEPT ![i].asked = @ \cup {call.sig}]
                /\ works' = IF again THEN Append(works, work(i)) ELSE works
           ELSE /\ funcs' = Append(funcs, new)
                /\ works' = Append(works, work(Len(funcs) + 1))
        /\ current' = [current EXCEPT !.pc = @ + 1, !.results = Append(@, call.ret)]
        /\ UNCHANGED error

Examine(again) ==
    \E call \in {Examined} :
        IF call.good THEN Request(call, again)
        ELSE error' = TRUE /\ UNCHANGED <<funcs, works, current>>

MayCall == ~error /\ current # NoType /\ current.pc <= Len(Calls(current.fun)) /\ Len(works) < MaxWorks

\* Mutant: an instance that is found goes on the work list again.
GenericGetAgain == MayCall /\ Examine(TRUE) /\ UNCHANGED <<program, templates, object, next>>

\* ac_generic_get, from the call in ac_compile_function_call.
GenericGet == MayCall /\ Examine(FALSE) /\ UNCHANGED <<program, templates, object, next>>

-----------------------------------------------------------------------------

\* Mutant: the templates keep the shared objects.
TemplateShared(fun) == [params |-> fun.params, ret |-> fun.ret]

\* ac_gb_alloc: the template's types that are generic are copied.
Template(fun) ==
    LET Copied(t) == IF Qualifies(Resolve(object, t)) THEN Resolve(object, t) ELSE t
    IN  [params |-> [i \in DOMAIN fun.params |-> Copied(fun.params[i])], ret |-> Copied(fun.ret)]

Idents(p) == UNION {p.funs[f].idents : f \in DOMAIN p.funs}

GenericsInit ==
    /\ program \in Programs
    /\ object = [id \in Idents(program) |-> Generic(id)]
    /\ templates = <<>> /\ funcs = <<>> /\ works = <<>>
    /\ current = NoType /\ next = 0 /\ error = FALSE

Begin(fun, func) == current' = [fun |-> fun, func |-> func, pc |-> 1, results |-> <<>>]

\* ac_compile: the generic functions are registered by their declarations,
\* then the ordinary ones are compiled.
Register ==
    /\ next = 0
    /\ templates' = [f \in DOMAIN program.funs |-> Template(program.funs[f])]
    /\ Begin("main", 0) /\ next' = 1
    /\ UNCHANGED <<program, object, funcs, works, error>>

\* A function whose calls are compiled is done.
EndFunction ==
    /\ ~error /\ current # NoType /\ current.pc > Len(Calls(current.fun))
    /\ current' = NoType
    /\ UNCHANGED <<program, templates, object, funcs, works, next, error>>

\* ty_set_generic_type for the entries of scanned, in the table's order: the
\* shared object becomes a copy of the type's own fields.
Bound(o, scanned, order) ==
    FoldLeft(LAMBDA p, id : [p EXCEPT ![id] = Shape(p, scanned[id])], o, order)

\* ac_generic_compile_work: the body is compiled with the types of the tree.
CompileWork ==
    /\ ~error /\ next \in 1..Len(works) /\ current = NoType
    /\ LET work == works[next]
           fun == program.funs[work.fun]
       IN  \E order \in SetToSeqs(DOMAIN work.scanned) :
              /\ object' = Bound(object, work.scanned, order)
              /\ funcs' = [funcs EXCEPT ![work.func].bodies =
                              Append(@, Signature(object', fun.params, fun.ret))]
              /\ Begin(work.fun, work.func)
    /\ next' = next + 1
    /\ UNCHANGED <<program, templates, works, error>>

GenericsNext == Register \/ GenericGet \/ EndFunction \/ CompileWork

\* Nothing is left to compile, or the bound is met.
Finished ==
    \/ error \/ Len(works) = MaxWorks
    \/ next # 0 /\ current = NoType /\ next > Len(works)

\* The compiler goes on as long as there is work: WF_vars(GenericsNext), with the
\* states in which GenericsNext is not enabled written out.
GenericsFairness == []<>Finished \/ []<><<TRUE>>_genVars

GenericsSpec == GenericsInit /\ [][GenericsNext]_genVars /\ GenericsFairness

-----------------------------------------------------------------------------
(* Properties.                                                              *)

\* The body of an instance is compiled for the types its function was
\* declared with, whatever was compiled between the call that asked for it
\* and its turn in the work list.
InstanceRight ==
    \A f \in 1..Len(funcs) : \A b \in 1..Len(funcs[f].bodies) :
        funcs[f].bodies[b] = funcs[f].sig

\* Calls share an instance, which is found by a name made of the types' names,
\* only if they agree on all its types, return type and types of callbacks
\* included, up to what no name says: the size of an array, weak for plain,
\* and the flags of a function.
CallsFit ==
    \A f \in 1..Len(funcs) : \A sig \in funcs[f].asked : SameName(sig, funcs[f].sig)

\* No function gets a second body and none is passed over: the functions get
\* theirs in the order they were asked for in, while bodies ask for more.
OneBody ==
    \A f \in 1..Len(funcs) : Len(funcs[f].bodies) = IF f < next THEN 1 ELSE 0

\* A recursive generic function asks for itself only once: the work list
\* comes to an end, and every function that was declared has its body.
WorkEnds ==
    <>(\/ error
       \/ /\ next = Len(works) + 1 /\ current = NoType
          /\ \A f \in 1..Len(funcs) : Len(funcs[f].bodies) = 1)
=============================================================================
